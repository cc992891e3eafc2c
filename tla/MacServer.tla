------------------------------ MODULE MacServer ------------------------------
(***************************************************************************)
(* kankakee::Server on macOS (src/include/MacServer.h).  The receive       *)
(* thread waits in kevent() for the listening socket, for the user event   *)
(* that stop() triggers and, after a send() that had to wait, for a timer. *)
(* Whatever woke it, it goes on to accept().                               *)
(*                                                                         *)
(* The queue kq lives as long as the object: a trigger that nobody has     *)
(* retrieved outlives the thread it was meant for.  start(), stop() and    *)
(* callbacks hold the GIL.  start() is called when no thread lives.        *)
(***************************************************************************)
EXTENDS Integers

CONSTANTS Clients,       \* connections; each one is made at most once
          Quitters,      \* clients whose request makes serverCallback call stop()
          Deaf,          \* clients that do not read a response that must wait
          MaxFaults,     \* bound on failing calls and raising callbacks
          Restart,       \* may the owner start a stopped server again?
          ErrorCallback, \* is errorCallback set (it is Python code)?
          NoClient

ASSUME ClientsAssumption ==
    NoClient \notin Clients /\ Quitters \subseteq Clients /\ Deaf \subseteq Clients
ASSUME FaultsAssumption == MaxFaults \in Nat
ASSUME ModesAssumption == Restart \in BOOLEAN /\ ErrorCallback \in BOOLEAN

VARIABLES
    sock, running,       \* what Server::sock refers to, Server::running
    registered, trigger, \* the user event WAKE_IDENT of kq
    timer,               \* the one-shot timer of kq: off, set or due
    status,              \* progress of every client
    caller, call,        \* who is in stop(), and where
    pc, client,          \* receive(): control, and its local `client`
    phase,               \* what the owner knows: the outcome of its last call
    asked, stale, late,  \* history: stop() was called after the last start(),
                         \* which found a trigger; clients accepted since
    faults

calls == <<caller, call, phase>>
queue == <<registered, trigger, timer>>
history == <<asked, stale, late>>
vars == <<sock, running, queue, status, calls, pc, client, history, faults>>

TypeOK ==
    /\ sock \in {"none", "fresh", "listening", "closed"}
    /\ running \in BOOLEAN
    /\ registered \in BOOLEAN /\ trigger \in BOOLEAN
    /\ timer \in {"off", "set", "due"}
    /\ status \in [Clients -> {"out", "queued", "open", "answered", "dropped"}]
    /\ caller \in {"nobody", "owner", "callback"}
    /\ call \in {"none", "trigger", "wait"}
    /\ pc \in {"none", "top", "kevent", "accept", "recv", "callback", "send",
               "close", "alert", "fallback", "realert", "closing", "unset", "lastalert"}
    /\ client \in Clients \cup {NoClient}
    /\ phase \in {"new", "failed", "started", "stuck", "stopped"}
    /\ asked \in BOOLEAN /\ stale \in BOOLEAN /\ late \in Nat
    /\ faults \in 0..MaxFaults

Init ==
    /\ sock = "none" /\ running = FALSE
    /\ registered = FALSE /\ trigger = FALSE /\ timer = "off"
    /\ status = [c \in Clients |-> "out"]
    /\ caller = "nobody" /\ call = "none" /\ phase = "new"
    /\ pc = "none" /\ client = NoClient
    /\ asked = FALSE /\ stale = FALSE /\ late = 0 /\ faults = 0

-----------------------------------------------------------------------------
GilFree == caller = "nobody"
Queued == {c \in Clients : status[c] = "queued"}
Fault == faults < MaxFaults /\ faults' = faults + 1
NoFault == UNCHANGED faults
Step(from, to) == pc = from /\ pc' = to
LocalStep == UNCHANGED <<sock, running, queue, status, calls, client, history>>
Mark(c, s) == status' = [status EXCEPT ![c] = s]

MayStart ==
    \/ phase \in {"new", "failed"}
    \/ Restart /\ phase = "stopped"

(* initialize() throws; a socket it has opened stays. *)
StartFail ==
    /\ GilFree /\ MayStart /\ Fault
    /\ phase' = "failed"
    /\ \E s \in {"none", "fresh"} : sock' = s
    /\ UNCHANGED <<running, queue, status, caller, call, pc, client, history>>

(* EV_ADD of an event that kq has already leaves its trigger alone. *)
Start ==
    /\ GilFree /\ MayStart
    /\ sock' = "listening" /\ registered' = TRUE
    /\ running' = TRUE /\ pc' = "top" /\ phase' = "started"
    /\ asked' = FALSE /\ stale' = trigger /\ late' = 0
    /\ UNCHANGED <<trigger, timer, status, caller, call, client, faults>>

StopBy(who) ==
    /\ GilFree
    /\ running' = FALSE
    /\ caller' = who /\ call' = "trigger" /\ asked' = TRUE
    /\ UNCHANGED <<sock, queue, status, phase, pc, client, stale, late, faults>>

OwnerStop == StopBy("owner")

(* Mutant: kevent() is given the event without NOTE_TRIGGER. *)
StopTriggerNone ==
    /\ call = "trigger" /\ call' = "wait"
    /\ UNCHANGED <<sock, running, queue, status, caller, phase, pc, client, history, faults>>

(* NOTE_TRIGGER; kevent() refuses it where no start() has added the event. *)
StopTrigger ==
    /\ call = "trigger" /\ call' = "wait"
    /\ trigger' = (trigger \/ registered)
    /\ UNCHANGED <<sock, running, registered, timer, status, caller, phase, pc,
                   client, history, faults>>

StopEnds(outcome, label) ==
    /\ call = "wait" /\ caller' = "nobody" /\ call' = "none"
    /\ IF caller = "owner" THEN phase' = outcome /\ UNCHANGED pc
                           ELSE pc' = label /\ UNCHANGED phase
    /\ UNCHANGED <<sock, running, queue, status, client, history, faults>>

StopReturn == sock = "none" /\ StopEnds("stopped", "send")

(* Five seconds are over and the socket is still there: stop() throws. *)
StopTimeout ==
    /\ sock # "none"
    /\ StopEnds(IF phase = "failed" THEN "failed" ELSE "stuck", "alert")

-----------------------------------------------------------------------------
(* receive() *)

LoopTest ==
    Step("top", IF running THEN "kevent" ELSE "closing") /\ NoFault /\ LocalStep

Ready == trigger \/ timer = "due" \/ (sock = "listening" /\ Queued # {})

(* Mutant: whatever ends the wait ends the server. *)
KeventEnds ==
    /\ Ready /\ Step("kevent", "accept")
    /\ running' = FALSE /\ trigger' = FALSE
    /\ timer' = IF timer = "due" THEN "off" ELSE timer
    /\ UNCHANGED <<sock, registered, status, calls, client, history, faults>>

(* All that is pending is retrieved; EV_CLEAR and EV_ONESHOT take it from   *)
(* kq.  The `break` leaves the inner loop only: accept() comes next.        *)
Kevent ==
    /\ Ready /\ Step("kevent", "accept")
    /\ running' = (running /\ ~trigger) /\ trigger' = FALSE
    /\ timer' = IF timer = "due" THEN "off" ELSE timer
    /\ UNCHANGED <<sock, registered, status, calls, client, history, faults>>

KeventFail == Step("kevent", "alert") /\ Fault /\ LocalStep

(* A Fault is a failing ioctl() or inet_ntop(). *)
AcceptClient ==
    /\ \/ Step("accept", "recv") /\ NoFault
       \/ Step("accept", "alert") /\ Fault
    /\ \E c \in Queued : Mark(c, "open") /\ client' = c
    /\ late' = IF running THEN late ELSE late + 1
    /\ UNCHANGED <<sock, running, queue, calls, asked, stale>>

(* EWOULDBLOCK: `continue`, another error throws. *)
AcceptNothing ==
    /\ \/ Queued = {} /\ Step("accept", "top") /\ NoFault
       \/ Step("accept", "alert") /\ Fault
    /\ LocalStep

(* getClientRequest(): a request, or an error or a timeout of 3 seconds. *)
Recv == \E label \in {"callback", "alert"} : Step("recv", label) /\ NoFault /\ LocalStep

Callback ==
    /\ GilFree
    /\ \/ client \notin Quitters /\ Step("callback", "send") /\ NoFault
       \/ Step("callback", "alert") /\ Fault
    /\ LocalStep

CallbackStop == pc = "callback" /\ client \in Quitters /\ StopBy("callback")

(* A deaf client keeps its connection: send() neither succeeds nor fails.   *)
Send ==
    /\ client \notin Deaf
    /\ \/ Step("send", "close") /\ Mark(client, "answered")
       \/ Step("send", "alert") /\ UNCHANGED status
    /\ UNCHANGED <<sock, running, queue, calls, client, history, faults>>

(* EAGAIN: of the two events EV_SET() fills in only the timer is left, kq   *)
(* gets it, and send() is called again at once.                             *)
SendAgain ==
    /\ pc = "send" /\ timer' = "set"
    /\ UNCHANGED <<sock, running, registered, trigger, status, calls, pc, client,
                   history, faults>>

(* Mutant: after a client the thread goes back to accept(). *)
CloseClientMore ==
    /\ \/ Step("close", "accept") /\ client' = NoClient /\ NoFault
       \/ Step("close", "alert") /\ UNCHANGED client /\ Fault
    /\ UNCHANGED <<sock, running, queue, status, calls, history>>

CloseClient ==
    /\ \/ Step("close", "top") /\ client' = NoClient /\ NoFault
       \/ Step("close", "alert") /\ UNCHANGED client /\ Fault
    /\ UNCHANGED <<sock, running, queue, status, calls, history>>

(* catch: errorCallback needs the GIL, printing to cout does not. *)
Alert ==
    /\ ErrorCallback => GilFree
    /\ \/ Step("alert", "fallback") /\ UNCHANGED client
       \/ Step("realert", "top") /\ client' = NoClient
       \/ Step("lastalert", "none") /\ UNCHANGED client
    /\ UNCHANGED <<sock, running, queue, status, calls, history, faults>>

(* The second try block closes a client that is still there. *)
Fallback ==
    /\ \/ Step("fallback", "top") /\ client' = NoClient /\ NoFault
       \/ client # NoClient /\ Step("fallback", "realert") /\ UNCHANGED client /\ Fault
    /\ status' = [c \in Clients |-> IF c = client /\ status[c] = "open"
                                    THEN "dropped" ELSE status[c]]
    /\ UNCHANGED <<sock, running, queue, calls, history>>

(* After the loop.  A close() that fails leaves sock as it is.  The number  *)
(* is never 0 or -1 here: only start() and this step change it.             *)
CloseSocket ==
    /\ \/ Step("closing", "unset") /\ NoFault
       \/ Step("closing", "lastalert") /\ Fault
    /\ sock' = "closed"
    /\ status' = [c \in Clients |-> IF c \in Queued THEN "dropped" ELSE status[c]]
    /\ UNCHANGED <<running, queue, calls, client, history>>

UnsetSocket ==
    /\ Step("unset", "none") /\ sock' = "none"
    /\ UNCHANGED <<running, queue, status, calls, client, history, faults>>

-----------------------------------------------------------------------------
Connect(c) ==
    /\ status[c] = "out" /\ sock = "listening"
    /\ Mark(c, "queued")
    /\ UNCHANGED <<sock, running, queue, calls, pc, client, history, faults>>

TimerDue ==
    /\ timer = "set" /\ timer' = "due"
    /\ UNCHANGED <<sock, running, registered, trigger, status, calls, pc, client,
                   history, faults>>

CallStep == StopTrigger \/ StopReturn \/ StopTimeout
PythonStep == Callback \/ CallbackStop \/ Alert
NativeStep ==
    \/ LoopTest \/ Kevent \/ KeventFail \/ AcceptClient \/ AcceptNothing
    \/ Recv \/ Send \/ CloseClient \/ Fallback \/ CloseSocket \/ UnsetSocket
Next ==
    \/ StartFail \/ Start \/ OwnerStop \/ CallStep
    \/ PythonStep \/ NativeStep \/ SendAgain \/ TimerDue
    \/ \E c \in Clients : Connect(c)

Spec == Init /\ [][Next]_vars

(* The thread is scheduled, a native call runs to its end, stop() gives up, *)
(* and CPython hands the GIL on when its holder drops it.  A send() that    *)
(* can succeed or fail does so in the end, however often it is tried.       *)
FairSpec ==
    Spec /\ WF_vars(CallStep) /\ WF_vars(NativeStep) /\ SF_vars(PythonStep)

-----------------------------------------------------------------------------
(* Properties *)

(* The thread gives up its socket only when stop() was called after the     *)
(* last start(), or when that start() found a trigger that an earlier       *)
(* thread had not retrieved: such a server dies at once, and nobody knows.  *)
LeavesOnlyWhenStopped == pc \in {"closing", "unset"} => asked \/ stale

(* Falling through to accept() (lines 226-236) serves one client more after *)
(* the stop, never two.                                                     *)
OneLateClient == late <= 1

(* After a stop() that returned normally no client waits, none is in        *)
(* service and no thread is left.                                           *)
StoppedIsQuiet ==
    phase = "stopped" /\ call = "none" =>
        pc = "none" /\ \A c \in Clients : status[c] \notin {"queued", "open"}

(* A client whose thread has moved on was answered or closed. *)
NoClientLeak ==
    \A c \in Clients : status[c] = "open" => c = client

(* Neither a client's descriptor is lost nor a client accepted for long     *)
(* after stop(), and nothing of the server outlives a normal return of it.  *)
ServerKept == TypeOK /\ OneLateClient /\ StoppedIsQuiet /\ NoClientLeak

(* stop() ends the thread, also where it has thrown itself because of a     *)
(* callback that waited for the GIL; only a client that leaves a response   *)
(* unread keeps the thread for ever, as send() is tried without a limit.    *)
StopTakesEffect ==
    asked /\ phase = "started" ~> pc = "none" \/ (pc = "send" /\ client \in Deaf)

(* Every client in the queue is answered or dropped, unless one that does   *)
(* not read holds the thread.                                               *)
EveryClientResolved ==
    \A c \in Clients : status[c] = "queued" ~>
        status[c] \in {"answered", "dropped"} \/ (pc = "send" /\ client \in Deaf)

(* Two promises of a loop that nobody can hold up but a client. *)
ServesOn == StopTakesEffect /\ EveryClientResolved

(* A server that is started once keeps the promise of ServerPromise.  Where *)
(* start() has failed or is yet to be called, a stop() that is going to     *)
(* return is the end (lines 109-126 and 215-294).                           *)
Port == IF sock = "listening" THEN "open" ELSE "closed"
Ending == \/ phase \in {"new", "failed"} /\ call = "wait" /\ sock = "none"
          \/ phase \notin {"new", "failed"} /\ asked
Abstract == INSTANCE ServerPromise
                WITH port <- Port, ending <- Ending, over <- phase = "stopped"

-----------------------------------------------------------------------------
(* Inductive invariants, proved in MacServerProofs *)

Serving == {"recv", "callback", "send", "close", "alert", "fallback", "realert"}

(* For StoppedIsQuiet: while a thread lives the socket is there and the     *)
(* owner believes the server started or stuck; stop() returns normally only *)
(* where the thread has forgotten the socket, so never to a callback.       *)
LifeInv ==
    /\ GilFree <=> call = "none"
    /\ caller = "callback" => pc = "callback"
    /\ pc # "none" => phase \in {"started", "stuck"} /\ sock # "none"
    /\ sock = "listening" <=> pc \notin {"none", "lastalert", "unset"}
    /\ phase = "stopped" => sock = "none"

(* For NoClientLeak: the open client is the local one, and it is closed     *)
(* before it is forgotten; clients wait only where somebody listens.        *)
ClientInv ==
    /\ client # NoClient => pc \in Serving
    /\ \A c \in Clients : status[c] = "open" =>
          c = client /\ pc \in Serving \ {"close", "realert"}
    /\ Queued # {} => sock = "listening"

(* For LeavesOnlyWhenStopped: a trigger is that of a stop() after the last  *)
(* start(), or start() found it; nothing else resets `running`.             *)
WakeInv ==
    /\ call # "none" => asked
    /\ trigger => asked \/ stale
    /\ pc # "none" /\ ~running => asked \/ stale
    /\ LeavesOnlyWhenStopped

(* For OneLateClient: who has served one does not come back to accept().    *)
LateInv ==
    /\ OneLateClient
    /\ late = 1 => ~running /\ pc \notin {"kevent", "accept"}

IInv == TypeOK /\ LifeInv /\ ClientInv /\ WakeInv /\ LateInv

(* For the promise of a server that is started once: no trigger is older    *)
(* than the start(), which is the first thing to add the event to kq, a     *)
(* stop() that has returned was called, and whoever is served has an open   *)
(* connection.                                                              *)
OnceInv ==
    /\ ~stale /\ (trigger => registered)
    /\ phase \in {"new", "failed"} => ~registered
    /\ phase = "new" => sock = "none"
    /\ phase = "stopped" => asked
    /\ pc \in {"recv", "callback", "send"} => client \in Clients /\ status[client] = "open"
=============================================================================
