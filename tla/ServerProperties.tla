-------------------------- MODULE ServerProperties --------------------------
(***************************************************************************)
(* What is checked (MCServer) and proved (ServerProofs) about Server.  The *)
(* properties guarded by ~misused are about objects that are never started *)
(* again while started; the others hold in whatever order they are called. *)
(***************************************************************************)
EXTENDS Server

(* At most one thread is in the loop or about to close the socket, whatever *)
(* the owner calls: a second start() fails in bind() (lines 85 and 95-101). *)
OneReceiver == \A t, u \in Threads : Active(t) /\ Active(u) => t = u

(* What poll() waits for is the listening socket of this port (line 235):   *)
(* never a descriptor that was closed or given to something else.           *)
PollsTheListener ==
    \A t \in Threads : pc[t] = "poll" => pollFd \in Listening \cup {NoFd}

(* No path out of an iteration loses a client descriptor (lines 284-301):   *)
(* each open connection is the local `client` of a thread that will close it.*)
NoClientLeak ==
    \A f \in Fds : files[f] = "conn" =>
        \E t \in Threads : client[t] = f /\ pc[t] \in InLoop \ {"top", "poll", "drain"}

(* What the thread closes is its own: the normal close hits the connection, *)
(* so does the fallback close of a client that was not answered, and the    *)
(* close behind the loop hits the listener.  The exception is the fallback  *)
(* close after a close() that reported an error (lines 284-296): it finds a *)
(* free number or, if other code was quicker, that code's file, but neither *)
(* the listener, a client nor the socket of a new start().                  *)
NoForeignClose ==
    \A t \in Threads :
        /\ pc[t] = "close" => files[client[t]] = "conn"
        /\ pc[t] = "fallback" /\ client[t] # NoFd =>
              IF status[peer[t]] = "open"
              THEN files[client[t]] = "conn"
              ELSE files[client[t]] \in {"closed", "foreign"} \cup
                       (IF misused THEN {"fresh"} ELSE {})
        /\ pc[t] = "closing" /\ sock # NoFd /\ ~misused => files[sock] = "listening"

(* Every number the server keeps refers to what it stands for, however      *)
(* numbers are given out again, close() fails and other code opens files    *)
(* (lines 235-316): the thread polls the listener, loses no client and,     *)
(* with the exception above, closes nobody else's descriptor.               *)
DescriptorsKept == PollsTheListener /\ NoClientLeak /\ NoForeignClose

(* After a stop() that returned normally nothing of the server is left: no  *)
(* thread that could run a callback, no listening socket (lines 103-124).   *)
StoppedIsQuiet ==
    phase = "stopped" /\ call = "none" /\ ~misused =>
        /\ \A t \in Threads : pc[t] = "none"
        /\ Listening = {} /\ sock = NoFd

(* A listening socket is always `sock`, and either start() is about to      *)
(* spawn its thread or one thread is there to close it.                     *)
NoOrphanListener ==
    ~misused => \A f \in Listening :
        /\ sock = f
        /\ call = "run" \/ \E t \in Threads : Active(t)

(* A thread leaves the loop of a running server only if start() came when   *)
(* the eventfd was still set by an earlier stop() (lines 106-108, 245-250). *)
LeavesOnlyWhenStopped ==
    ~misused => \A t \in Threads : pc[t] \in Leaving => ~running \/ stale

(* stop() called by serverCallback waits for the thread it runs on: it      *)
(* never returns normally, so a request that stops is never answered.       *)
SelfStopNeverReturns ==
    ~misused => \A t \in Threads : pc[t] # "reply"

(* echo_server.py:15-21 lets the callback stop the server and then build    *)
(* and return the answer: stop() must come back to the callback.            *)
SelfStopReturns ==
    [][(gil \in Threads /\ gil' = Nobody) => pc'[gil] = "reply"]_vars

(* A server started once keeps the promise of ServerPromise: the port       *)
(* closes only for a stop() (lines 103-124), one client at a time is served *)
(* and none is left without an end (lines 231-316).                         *)
Port == IF Listening # {} THEN "open" ELSE "closed"
Abstract == INSTANCE ServerPromise
                WITH port <- Port,
                     ending <- phase # "new" /\ ~running,
                     over <- phase = "stopped"
KeepsPromise == Abstract!Promise

(* Every client that reached the queue is answered or disconnected.         *)
EveryClientResolved ==
    \A c \in Clients : status[c] \in {"queued", "open"} ~> status[c] \in {"answered", "dropped"}

(* Once stop() waits, the port is given up in the end, also when stop()     *)
(* itself timed out (lines 103-124 and 304-315).                            *)
StopTakesEffect == call = "wait" ~> Listening = {}

-----------------------------------------------------------------------------
(* Inductive invariants, proved in ServerProofs *)

Starting == call \in {"bind", "listen", "run"}
Serving == InLoop \ {"top", "poll", "drain", "accept"}
Live(t) == pc[t] # "none"

(* For OneReceiver: the loop runs on a listening socket, bind() refuses a  *)
(* second one, and only the thread at the end of the loop closes it.       *)
ReceiverInv ==
    /\ OneReceiver
    /\ \A t \in Threads : Active(t) => Listening # {}
    /\ call = "run" => Listening # {} /\ \A t \in Threads : ~Active(t)
    /\ \A t \in Threads : client[t] # NoFd =>
          pc[t] \in Serving /\ files[client[t]] # "listening"

(* For StoppedIsQuiet and NoOrphanListener: how the call in progress, the  *)
(* owner's view, the live thread and `sock` go together.                   *)
CallInv ==
    /\ GilFree <=> call = "none"
    /\ Starting => gil = Owner
    /\ gil \in Threads => pc[gil] = "callback"
LifeInv ==
    ~misused =>
        /\ \A t, u \in Threads : Live(t) /\ Live(u) => t = u
        /\ \A t \in Threads : Live(t) =>
              phase \in {"started", "stuck"} /\ ~Starting /\ sock # NoFd
        /\ Starting => phase \in {"new", "failed", "stopped"}
        /\ phase = "stopped" /\ ~Starting => sock = NoFd
        /\ NoOrphanListener
        /\ SelfStopNeverReturns

(* For DescriptorsKept: the thread in the loop polls a socket that nobody   *)
(* else closes, `client` is given up only once it is closed, and a number   *)
(* it still holds is not given out to a start() that finds a thread.        *)
DescriptorInv ==
    /\ \A t \in Threads : Active(t) => pollFd \in Listening \cup {NoFd}
    /\ call = "run" => sock \in Listening \cup {NoFd}
    /\ NoClientLeak
    /\ \A t \in Threads : pc[t] = "realert" /\ client[t] # NoFd => files[client[t]] # "conn"
    /\ ~misused => \A t \in Threads : client[t] # NoFd => files[client[t]] # "fresh"

(* For NoForeignClose: a client that is not closed yet keeps its descriptor, *)
(* and `client` refers to something else only once the answer was sent and   *)
(* close() has reported an error.                                            *)
Held(t) ==
    /\ pc[t] \in {"recv", "callback", "reply", "send", "close"} =>
          client[t] # NoFd /\ files[client[t]] = "conn"
    /\ pc[t] = "close" => status[peer[t]] = "answered"
    /\ pc[t] \in {"alert", "fallback"} /\ client[t] # NoFd =>
          (status[peer[t]] = "open" <=> files[client[t]] = "conn")
HeldInv == \A t \in Threads : Held(t)

(* For LeavesOnlyWhenStopped: only stop() sets wake_fd, after it has reset  *)
(* `running`; where both are set the wake-up is older than the thread.      *)
WakeInv ==
    /\ call \in {"wake", "wait"} => ~running
    /\ wake /\ running => stale
    /\ LeavesOnlyWhenStopped

(* For the refinement: `peer` names the client behind the local `client`,  *)
(* it is open while it is served, and no other client is.                   *)
ServedInv ==
    /\ \A t \in Threads : client[t] # NoFd <=> peer[t] # NoClient
    /\ \A t \in Threads : pc[t] \in {"recv", "callback", "reply", "send"} =>
          peer[t] # NoClient /\ status[peer[t]] = "open"
    /\ \A c \in Clients : status[c] = "open" =>
          \E t \in Threads : peer[t] = c /\ pc[t] \in Serving \ {"close", "realert"}

(* For the refinement, of an object that is started once: its start() finds *)
(* no wake-up, and its thread polls what that start() opened.               *)
OnceInv ==
    Discipline = "once" =>
        /\ ~misused /\ ~stale
        /\ Starting => phase = "new"
        /\ phase = "new" =>
              pollFd = NoFd /\ ~wake /\ ~running /\ call \notin {"wake", "wait"}
        /\ phase \in {"started", "stuck"} => pollFd # NoFd

(* The invariant as a whole, whatever the order of calls. *)
IInv == /\ ReceiverInv /\ CallInv /\ LifeInv /\ DescriptorInv /\ HeldInv
        /\ WakeInv /\ ServedInv /\ OnceInv
=============================================================================
