------------------------------ MODULE Notifier ------------------------------
(***************************************************************************)
(* The notification server of the text interface: the life of self.httpd   *)
(* (src/examples/onvif/tui.py) and of the ThreadingTCPServer behind it     *)
(* (src/examples/onvif/server.py), to which the cameras push their events. *)
(*                                                                         *)
(* Every subscription looks at self.httpd and starts a worker where there  *)
(* is none; the worker sets self.httpd once the port is bound and resets   *)
(* it at its end.  A handler of a notification waits for the main thread.  *)
(***************************************************************************)
EXTENDS Integers, FiniteSets

CONSTANTS Workers,  \* worker threads that subscriptions may start
          Messages, \* notifications that cameras send
          MaxFaults, \* bound on failing bind()s
          None

ASSUME NoneAssumption == None \notin Workers
ASSUME FaultsAssumption == MaxFaults \in Nat

VARIABLES
    httpd,    \* ObjectBrowser.httpd
    pc,       \* http_server_worker() of each worker
    ending,   \* servers that shutdown() was called for
    message,  \* progress of each notification
    through,  \* the server that has each notification
    main,     \* the main thread: running, in shutdown() of on_unmount(), or gone
    stopping, \* the server that on_unmount() waits for
    raced,    \* history: a worker was started while another one was alive
    faults

vars == <<httpd, pc, ending, message, through, main, stopping, raced, faults>>

TypeOK ==
    /\ httpd \in Workers \cup {None}
    /\ pc \in [Workers -> {"none", "bind", "record", "serve", "close", "report", "forget", "ended"}]
    /\ ending \subseteq Workers
    /\ message \in [Messages -> {"out", "accepted", "read", "failed", "shown", "refused", "lost"}]
    /\ through \in [Messages -> Workers \cup {None}]
    /\ main \in {"running", "unmount", "gone"}
    /\ stopping \in Workers \cup {None}
    /\ raced \in BOOLEAN /\ faults \in 0..MaxFaults

Init ==
    /\ httpd = None /\ pc = [w \in Workers |-> "none"] /\ ending = {}
    /\ message = [m \in Messages |-> "out"] /\ through = [m \in Messages |-> None]
    /\ main = "running" /\ stopping = None /\ raced = FALSE /\ faults = 0

-----------------------------------------------------------------------------
Step(w, from, to) == pc[w] = from /\ pc' = [pc EXCEPT ![w] = to]
Bound == {w \in Workers : pc[w] \in {"record", "serve", "close"}}
Alive == {w \in Workers : pc[w] \notin {"none", "ended"}}
Handled(m) == message[m] \in {"accepted", "read"}
Pending(w) == {m \in Messages : Handled(m) /\ through[m] = w}

(* resubscribe_event(), on the main thread or on a renewal's: whoever finds *)
(* self.httpd unset starts a worker.                                        *)
Resubscribe ==
    /\ main = "running" /\ httpd = None
    /\ \E w \in Workers : Step(w, "none", "bind")
    /\ raced' = (raced \/ Alive # {})
    /\ UNCHANGED <<httpd, ending, message, through, main, stopping, faults>>

(* Server(): SO_REUSEADDR does not let two sockets listen on one port.      *)
Bind(w) ==
    /\ \/ Bound = {} /\ Step(w, "bind", "record") /\ UNCHANGED faults
       \/ Bound # {} /\ Step(w, "bind", "report") /\ UNCHANGED faults
       \/ Step(w, "bind", "report") /\ faults < MaxFaults /\ faults' = faults + 1
    /\ UNCHANGED <<httpd, ending, message, through, main, stopping, raced>>

(* Mutant: self.httpd is set after serve_forever(). *)
RecordLate(w) ==
    /\ Step(w, "record", "serve")
    /\ UNCHANGED <<httpd, ending, message, through, main, stopping, raced, faults>>

Record(w) ==
    /\ Step(w, "record", "serve") /\ httpd' = w
    /\ UNCHANGED <<ending, message, through, main, stopping, raced, faults>>

(* serve_forever() sees the request of shutdown(), and shutdown() is told.  *)
ServeEnd(w) ==
    /\ w \in ending /\ Step(w, "serve", "close")
    /\ UNCHANGED <<httpd, ending, message, through, main, stopping, raced, faults>>

(* server_close() of a ThreadingTCPServer joins the handlers, also one whose *)
(* camera has yet to send.                                                  *)
Close(w) ==
    /\ Pending(w) = {} /\ Step(w, "close", "forget")
    /\ UNCHANGED <<httpd, ending, message, through, main, stopping, raced, faults>>

(* except: call_from_thread() needs the main thread; once that has gone the *)
(* call raises, which ends the worker all the same.                         *)
Report(w) ==
    /\ main \in {"running", "gone"} /\ Step(w, "report", "forget")
    /\ UNCHANGED <<httpd, ending, message, through, main, stopping, raced, faults>>

(* finally: self.httpd = None, whoever it is. *)
Forget(w) ==
    /\ Step(w, "forget", "ended") /\ httpd' = None
    /\ UNCHANGED <<ending, message, through, main, stopping, raced, faults>>

-----------------------------------------------------------------------------
(* A camera connects; the server hands it to a thread of its own. *)
Notify(m) ==
    /\ message[m] = "out"
    /\ \/ \E w \in Workers : /\ pc[w] = "serve"
                             /\ message' = [message EXCEPT ![m] = "accepted"]
                             /\ through' = [through EXCEPT ![m] = w]
       \/ /\ \A w \in Workers : pc[w] # "serve"
          /\ message' = [message EXCEPT ![m] = "refused"] /\ UNCHANGED through
    /\ UNCHANGED <<httpd, pc, ending, main, stopping, raced, faults>>

(* The rest of the notification comes, and is no notification or ends too   *)
(* early: the handler raises.  rfile.read() has no timeout, so that nothing *)
(* makes a camera that stops in the middle go on.                           *)
Read(m) ==
    /\ message[m] = "accepted"
    /\ \E got \in {"read", "failed"} : message' = [message EXCEPT ![m] = got]
    /\ UNCHANGED <<httpd, pc, ending, through, main, stopping, raced, faults>>

(* Mutant: call_from_thread() waits for a main thread that has gone. *)
ShowOnlyRunning(m) ==
    /\ message[m] = "read" /\ main = "running"
    /\ message' = [message EXCEPT ![m] = "shown"]
    /\ UNCHANGED <<httpd, pc, ending, through, main, stopping, raced, faults>>

(* do_POST() calls call_from_thread(handle_camera_events). *)
Show(m) ==
    /\ message[m] = "read" /\ main \in {"running", "gone"}
    /\ message' = [message EXCEPT ![m] = IF main = "running" THEN "shown" ELSE "lost"]
    /\ UNCHANGED <<httpd, pc, ending, through, main, stopping, raced, faults>>

(* on_unmount(): shutdown() of the server that is known, if any.            *)
Unmount ==
    /\ main = "running"
    /\ IF httpd = None THEN main' = "gone" /\ UNCHANGED <<ending, stopping>>
       ELSE /\ main' = "unmount" /\ stopping' = httpd
            /\ ending' = ending \cup {httpd}
    /\ UNCHANGED <<httpd, pc, message, through, raced, faults>>

(* shutdown() returns when serve_forever() has ended. *)
UnmountEnd ==
    /\ main = "unmount" /\ pc[stopping] # "serve" /\ main' = "gone"
    /\ UNCHANGED <<httpd, pc, ending, message, through, stopping, raced, faults>>

WorkerStep(w) ==
    Bind(w) \/ Record(w) \/ ServeEnd(w) \/ Close(w) \/ Report(w) \/ Forget(w)
Next ==
    \/ Resubscribe \/ Unmount \/ UnmountEnd
    \/ \E w \in Workers : WorkerStep(w)
    \/ \E m \in Messages : Notify(m) \/ Read(m) \/ Show(m)

Spec == Init /\ [][Next]_vars

(* Threads are scheduled; the main thread handles what is posted to it.  A  *)
(* camera need not send what it has begun.                                  *)
FairSpec ==
    /\ Spec /\ WF_vars(UnmountEnd)
    /\ \A w \in Workers : WF_vars(WorkerStep(w))
    /\ \A m \in Messages : WF_vars(Show(m))

-----------------------------------------------------------------------------
(* Properties *)

(* A server that serves is the one in self.httpd, so that on_unmount() can  *)
(* shut it down; unless two subscriptions met an unset self.httpd, when the *)
(* worker that fails to bind resets it (lines 128-130 and 666-667).         *)
ServerIsKnown == ~raced => \A w \in Workers : pc[w] = "serve" => httpd = w

(* on_unmount() comes back, also while a handler waits for the main thread  *)
(* that waits in shutdown().                                                *)
UnmountReturns == main = "unmount" ~> main = "gone"

(* ... and the server that served ends, with the same exception, unless a   *)
(* camera holds one of its handlers for ever (server.py lines 69-70).       *)
NoStall(w) == \A m \in Messages : []<>~(message[m] = "accepted" /\ through[m] = w)
ServerEnds ==
    \A w \in Workers :
        NoStall(w) =>
            (main = "unmount" /\ pc[w] = "serve" /\ ~raced ~> pc[w] = "ended" \/ raced)

(* A notification that was read is shown, or lost because the interface has *)
(* ended, and its handler with it.                                          *)
ReadIsHandled ==
    \A m \in Messages : message[m] = "read" ~> message[m] \in {"shown", "lost"}

(* The server's end waits for the handlers, whatever they wait for.         *)
EndedIsQuiet ==
    \A m \in Messages : Handled(m) => pc[through[m]] \in {"serve", "close"}

(* self.httpd and the handlers are right about the server behind them. *)
ServerKept == ServerIsKnown /\ EndedIsQuiet

(* Everybody who waits at the end of the interface comes back. *)
NotifierEnds == UnmountReturns /\ ServerEnds /\ ReadIsHandled

-----------------------------------------------------------------------------
(* Inductive invariants *)

(* As long as nobody started a worker beside one that was alive, there is   *)
(* one of them: nobody else can find the port bound or reset self.httpd.    *)
OneWorker == ~raced => \A v, w \in Alive : v = w

(* A notification in a handler has a server, which has not been closed.     *)
HandlerInv ==
    \A m \in Messages : Handled(m) =>
        through[m] \in Workers /\ pc[through[m]] \in {"serve", "close"}

IInv == TypeOK /\ OneWorker /\ ServerIsKnown /\ HandlerInv
=============================================================================
