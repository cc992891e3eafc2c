------------------------------- MODULE Server -------------------------------
(***************************************************************************)
(* kankakee::Server on Linux (src/include/Server.h) together with what the *)
(* kernel keeps for it: the descriptor table, the eventfd wake_fd and the  *)
(* queue of clients waiting for accept().                                  *)
(*                                                                         *)
(* start() and stop() are called by Python code.  The binding              *)
(* (src/src/kankakee.cpp) never releases the GIL around them, so from call *)
(* to return no other Python code runs; the native receive thread keeps    *)
(* running and needs the GIL only to run a callback.  The model therefore  *)
(* has one native call at a time, `call`, executed by `gil`.               *)
(***************************************************************************)
EXTENDS Integers, FiniteSets

CONSTANTS Threads,       \* threads that start() may spawn and detach
          Clients,       \* connections; each one is made at most once
          Quitters,      \* clients whose request makes serverCallback call stop()
          Fds,           \* descriptors the process may use
          MaxFaults,     \* bound on failing system calls and raising callbacks
          MaxOthers,     \* bound on the files other code of the process has open
          Discipline,    \* how the owner of the object calls it, see MayStart
          ErrorCallback, \* is errorCallback set (it is Python code)?
          Owner, Nobody, NoClient

NoFd == -1

ASSUME FdsAssumption == Fds \subseteq Nat \ {0}
ASSUME FaultsAssumption == MaxFaults \in Nat
ASSUME OthersAssumption == MaxOthers \in Nat
ASSUME ClientsAssumption == NoClient \notin Clients /\ Quitters \subseteq Clients
ASSUME ActorsAssumption == Owner \notin Threads /\ Nobody \notin Threads \cup {Owner}
ASSUME ModesAssumption == /\ Discipline \in {"once", "restart", "any"}
                          /\ ErrorCallback \in BOOLEAN

VARIABLES
    sock, running, pollFd, \* Server::sock, running, pfds[0].fd
    wake,                  \* the eventfd counter of wake_fd is not zero
    files,                 \* what every descriptor of the process refers to
    status,                \* progress of every client
    gil, call,             \* who is in start() or stop(), and where
    pc, client, peer,      \* receive(): control, local `client`, whose request
    faults,
    phase,                 \* what the owner knows: the outcome of its last call
    misused,               \* history: start() was called on a started server
    stale                  \* history: wake was set when the last start() returned

object == <<sock, running, pollFd>>
calls == <<gil, call, phase, misused>>
thread == <<pc, client, peer>>
vars == <<object, wake, files, status, calls, thread, faults, stale>>

InLoop == {"top", "poll", "drain", "accept", "recv", "callback", "reply",
           "send", "close", "alert", "fallback", "realert"}
Leaving == {"drain", "closing", "unset", "lastalert"}

TypeOK ==
    /\ sock \in Fds \cup {NoFd} /\ pollFd \in Fds \cup {NoFd}
    /\ running \in BOOLEAN /\ wake \in BOOLEAN
    /\ misused \in BOOLEAN /\ stale \in BOOLEAN
    /\ files \in [Fds -> {"closed", "fresh", "listening", "conn", "foreign"}]
    /\ status \in [Clients -> {"out", "queued", "open", "answered", "dropped"}]
    /\ gil \in Threads \cup {Owner, Nobody}
    /\ call \in {"none", "bind", "listen", "run", "wake", "wait"}
    /\ pc \in [Threads -> InLoop \cup Leaving \cup {"none"}]
    /\ client \in [Threads -> Fds \cup {NoFd}]
    /\ peer \in [Threads -> Clients \cup {NoClient}]
    /\ faults \in 0..MaxFaults
    /\ phase \in {"new", "started", "failed", "stuck", "stopped"}

Init ==
    /\ sock = NoFd /\ pollFd = NoFd /\ running = FALSE
    /\ wake = FALSE
    /\ files = [f \in Fds |-> "closed"]
    /\ status = [c \in Clients |-> "out"]
    /\ gil = Nobody /\ call = "none"
    /\ pc = [t \in Threads |-> "none"]
    /\ client = [t \in Threads |-> NoFd]
    /\ peer = [t \in Threads |-> NoClient]
    /\ faults = 0
    /\ phase = "new" /\ misused = FALSE /\ stale = FALSE

-----------------------------------------------------------------------------
(* Shared conditions and effects *)

GilFree == gil = Nobody
Active(t) == pc[t] \in InLoop \cup {"closing"}
Listening == {f \in Fds : files[f] = "listening"}
Free == {f \in Fds : files[f] = "closed"}
Foreign == {f \in Fds : files[f] = "foreign"}

(* A new file gets the lowest number that is free. *)
Lowest == {f \in Free : \A g \in Free : f <= g}
Queued == {c \in Clients : status[c] = "queued"}

(* A system call fails, or a Python callback raises. *)
Fault == faults < MaxFaults /\ faults' = faults + 1
NoFault == UNCHANGED faults

Goto(t, label) == pc' = [pc EXCEPT ![t] = label]
Step(t, from, to) == pc[t] = from /\ Goto(t, to)
LocalStep == UNCHANGED <<object, wake, files, status, calls, client, peer, stale>>
Keep == UNCHANGED <<client, peer>>
(* Mutant: `client` keeps its value from one iteration to the next. *)
ForgetNot(t) == t = t /\ Keep

Forget(t) == /\ client' = [client EXCEPT ![t] = NoFd]
             /\ peer' = [peer EXCEPT ![t] = NoClient]

(* close(fd): the descriptor is free; a listening socket resets its queue. *)
CloseFd(fd) == files' = [files EXCEPT ![fd] = "closed"]
ResetQueueOf(fd) ==
    status' = IF files[fd] = "listening"
              THEN [c \in Clients |-> IF c \in Queued THEN "dropped" ELSE status[c]]
              ELSE status

(* echo_server.py keeps the object until stop() returned normally and then  *)
(* drops it ("once"); "restart" also starts a stopped object again, retries *)
(* a failed start() and stops at any time; "any" calls in every order.      *)
MayStart ==
    \/ phase = "new"
    \/ Discipline = "restart" /\ phase \in {"failed", "stopped"}
    \/ Discipline = "any"
MayStop == Discipline = "once" => phase \in {"started", "failed", "stuck"}

-----------------------------------------------------------------------------
(* start(): initialize(), then running = true and a detached thread *)

Raise == gil' = Nobody /\ call' = "none" /\ phase' = "failed"
Proceed(step) == call' = step /\ UNCHANGED <<gil, phase>>

StartSocket ==
    /\ GilFree /\ MayStart
    /\ misused' = (misused \/ phase \in {"started", "stuck"})
    /\ \/ \E f \in Lowest :
            /\ sock' = f /\ files' = [files EXCEPT ![f] = "fresh"]
            /\ gil' = Owner /\ call' = "bind"
            /\ NoFault /\ UNCHANGED phase
       \/ /\ IF Free = {} THEN NoFault ELSE Fault
          /\ sock' = NoFd /\ Raise /\ UNCHANGED files
    /\ UNCHANGED <<running, pollFd, wake, status, thread, stale>>

(* Mutant: SO_REUSEPORT in place of SO_REUSEADDR. *)
BindableReusePort == sock # NoFd /\ files[sock] = "fresh"

(* bind() and listen() get the value `sock` has by now.  Two sockets never *)
(* listen on one port: with SO_REUSEADDR the later bind() or listen()      *)
(* fails.  A Fault is any other reason, another process's socket included. *)
Bindable == sock # NoFd /\ files[sock] = "fresh" /\ Listening = {}

StartBind ==
    /\ call = "bind"
    /\ \/ Bindable /\ NoFault /\ Proceed("listen")
       \/ ~Bindable /\ NoFault /\ Raise
       \/ Fault /\ Raise
    /\ UNCHANGED <<object, wake, files, status, thread, misused, stale>>

StartListen ==
    /\ call = "listen"
    /\ \/ /\ Bindable /\ NoFault /\ Proceed("run")
          /\ files' = [files EXCEPT ![sock] = "listening"]
       \/ ~Bindable /\ NoFault /\ Raise /\ UNCHANGED files
       \/ Fault /\ Raise /\ UNCHANGED files
    /\ UNCHANGED <<object, wake, status, thread, misused, stale>>

StartRun ==
    /\ call = "run"
    /\ pollFd' = sock /\ running' = TRUE /\ stale' = wake
    /\ \E t \in Threads : pc[t] = "none" /\ Goto(t, "top")
    /\ gil' = Nobody /\ call' = "none" /\ phase' = "started"
    /\ UNCHANGED <<sock, wake, files, status, client, peer, faults, misused>>

-----------------------------------------------------------------------------
(* stop(), called by the owner or by serverCallback on a receive thread *)

(* Mutant: stop() forgets `running = false`. *)
StopByWakeOnly(actor) ==
    /\ GilFree /\ gil' = actor /\ call' = "wake"
    /\ UNCHANGED <<object, wake, files, status, thread, faults, phase, misused, stale>>

StopBy(actor) ==
    /\ GilFree
    /\ running' = FALSE
    /\ gil' = actor /\ call' = "wake"
    /\ UNCHANGED <<sock, pollFd, wake, files, status, thread, faults, phase,
                   misused, stale>>

OwnerStop == MayStop /\ StopBy(Owner)

(* Mutants: stop() does not write wake_fd; it closes the socket itself. *)
StopWakeUnwritten ==
    /\ call = "wake" /\ Proceed("wait")
    /\ UNCHANGED <<object, wake, files, status, thread, faults, misused, stale>>
StopWakeClosing ==
    /\ call = "wake" /\ wake' = TRUE /\ Proceed("wait") /\ CloseFd(sock)
    /\ UNCHANGED <<object, status, thread, faults, misused, stale>>

StopWake ==
    /\ call = "wake"
    /\ wake' = TRUE
    /\ Proceed("wait")
    /\ UNCHANGED <<object, files, status, thread, faults, misused, stale>>

(* The caller goes on with `outcome`; a callback continues at `label`. *)
StopEnds(outcome, label) ==
    /\ gil' = Nobody /\ call' = "none"
    /\ IF gil \in Threads
       THEN Goto(gil, label) /\ UNCHANGED phase
       ELSE phase' = outcome /\ UNCHANGED pc
    /\ UNCHANGED <<object, wake, files, status, client, peer, faults, misused, stale>>

(* Mutant: stop() does not wait for the socket. *)
StopReturnAtOnce == call = "wait" /\ StopEnds("stopped", "reply")

StopReturn == call = "wait" /\ sock = NoFd /\ StopEnds("stopped", "reply")

(* Mutant: stop() gives up without throwing. *)
StopTimeoutSilent == call = "wait" /\ sock # NoFd /\ StopEnds("stuck", "reply")

(* Five seconds are over and the socket is still open: stop() throws. *)
StopTimeout ==
    /\ call = "wait" /\ sock # NoFd
    /\ StopEnds(IF phase = "failed" THEN "failed" ELSE "stuck", "alert")

-----------------------------------------------------------------------------
(* receive(): the loop of the detached thread *)

LoopTest(t) ==
    Step(t, "top", IF running THEN "poll" ELSE "closing") /\ NoFault /\ LocalStep

(* poll(pfds, 2, -1): wake_fd is looked at first. *)
PollWake(t) == wake /\ Step(t, "poll", "drain") /\ NoFault /\ LocalStep

PollClient(t) ==
    /\ ~wake /\ pollFd \in Listening /\ Queued # {}
    /\ Step(t, "poll", "accept") /\ NoFault /\ LocalStep

(* poll() fails; EINTR and an unready socket `continue`, the rest throws. *)
PollFail(t) ==
    \E label \in {"top", "alert"} : Step(t, "poll", label) /\ Fault /\ LocalStep

Drain(t) ==
    /\ Step(t, "drain", "closing") /\ wake' = FALSE
    /\ UNCHANGED <<object, files, status, calls, client, peer, faults, stale>>

(* accept(sock): not the descriptor that was polled. *)
AcceptClient(t) ==
    /\ sock \in Listening /\ Step(t, "accept", "recv")
    /\ \E c \in Queued, f \in Lowest :
          /\ files' = [files EXCEPT ![f] = "conn"]
          /\ client' = [client EXCEPT ![t] = f]
          /\ peer' = [peer EXCEPT ![t] = c]
          /\ status' = [status EXCEPT ![c] = "open"]
    /\ UNCHANGED <<object, wake, calls, faults, stale>>

AcceptFail(t) ==
    /\ \/ Step(t, "accept", "alert") /\ (sock \notin Listening \/ Free = {}) /\ NoFault
       \/ \E label \in {"top", "alert"} : Step(t, "accept", label) /\ Fault
    /\ LocalStep

(* getClientRequest() ends with a request, or with an error or a timeout. *)
Recv(t) ==
    \E label \in {"callback", "alert"} : Step(t, "recv", label) /\ NoFault /\ LocalStep

CallbackReturn(t) ==
    /\ GilFree
    /\ Step(t, "reply", "send") \/ (peer[t] \notin Quitters /\ Step(t, "callback", "send"))
    /\ NoFault /\ LocalStep

CallbackRaise(t) ==
    /\ GilFree
    /\ \E label \in {"callback", "reply"} : Step(t, label, "alert")
    /\ Fault /\ LocalStep

CallbackStop(t) ==
    /\ pc[t] = "callback" /\ peer[t] \in Quitters
    /\ StopBy(t)

(* sendServerResponse(): everything was sent, or an error or a timeout. *)
Send(t) ==
    /\ \/ /\ Step(t, "send", "close")
          /\ status' = [status EXCEPT ![peer[t]] = "answered"]
       \/ Step(t, "send", "alert") /\ UNCHANGED status
    /\ UNCHANGED <<object, wake, files, calls, client, peer, faults, stale>>

(* A close() that reports an error has released the descriptor all the same. *)
CloseClient(t) ==
    /\ \/ Step(t, "close", "top") /\ Forget(t) /\ NoFault
       \/ Step(t, "close", "alert") /\ Keep /\ Fault
    /\ CloseFd(client[t])
    /\ UNCHANGED <<object, wake, status, calls, stale>>

(* Mutant: the try block is around the loop, not in it. *)
AlertEndsLoop(t) ==
    /\ ErrorCallback => GilFree
    /\ Step(t, "alert", "none") /\ Keep
    /\ UNCHANGED <<object, wake, files, status, calls, faults, stale>>

(* catch: errorCallback needs the GIL, printing to cout does not. *)
Alert(t) ==
    /\ ErrorCallback => GilFree
    /\ \/ Step(t, "alert", "fallback") /\ Keep
       \/ Step(t, "realert", "top") /\ Forget(t)
       \/ Step(t, "lastalert", "none") /\ Keep
    /\ UNCHANGED <<object, wake, files, status, calls, faults, stale>>

(* The second try block closes a client that is still there.  After a close() *)
(* that reported an error `client` keeps a number that is free, or that other *)
(* code of the process was given since.                                       *)
NoFallback(t) == client[t] = NoFd /\ Step(t, "fallback", "top") /\ NoFault /\ LocalStep

(* Mutant: no fallback close. *)
FallbackMissing(t) ==
    /\ client[t] # NoFd /\ Step(t, "fallback", "top") /\ Forget(t) /\ NoFault
    /\ UNCHANGED <<object, wake, files, status, calls, stale>>

Fallback(t) ==
    /\ client[t] # NoFd
    /\ \/ files[client[t]] # "closed" /\ Step(t, "fallback", "top") /\ Forget(t) /\ NoFault
       \/ files[client[t]] = "closed" /\ Step(t, "fallback", "realert") /\ Keep /\ NoFault
       \/ Step(t, "fallback", "realert") /\ Keep /\ Fault
    /\ CloseFd(client[t])
    /\ status' = [status EXCEPT ![peer[t]] = IF @ = "open" THEN "dropped" ELSE @]
    /\ UNCHANGED <<object, wake, calls, stale>>

(* After the loop: close(sock), and in a second step sock = -1. *)
NoSocket(t) == sock = NoFd /\ Step(t, "closing", "none") /\ NoFault /\ LocalStep

(* Mutant: `sock` is reset without close(). *)
CloseSocketMissing(t) ==
    /\ sock # NoFd /\ Step(t, "closing", "unset") /\ NoFault /\ LocalStep

CloseSocket(t) ==
    /\ sock # NoFd
    /\ \/ files[sock] # "closed" /\ Step(t, "closing", "unset") /\ NoFault
       \/ files[sock] = "closed" /\ Step(t, "closing", "lastalert") /\ NoFault
       \/ Step(t, "closing", "lastalert") /\ Fault
    /\ CloseFd(sock) /\ ResetQueueOf(sock)
    /\ UNCHANGED <<object, wake, calls, client, peer, stale>>

UnsetSocket(t) ==
    /\ Step(t, "unset", "none") /\ sock' = NoFd
    /\ UNCHANGED <<running, pollFd, wake, files, status, calls, client, peer, faults, stale>>

-----------------------------------------------------------------------------
(* A client's TCP connection is complete once the kernel has queued it. *)
Connect(c) ==
    /\ status[c] = "out" /\ Listening # {}
    /\ status' = [status EXCEPT ![c] = "queued"]
    /\ UNCHANGED <<object, wake, files, calls, thread, faults, stale>>

(* Other code of the process opens and closes files, no sockets of its own    *)
(* that could be bound here.  What it does once its file was closed under it  *)
(* is not followed.                                                           *)
OtherOpens ==
    /\ Cardinality(Foreign) < MaxOthers
    /\ \E f \in Lowest : files' = [files EXCEPT ![f] = "foreign"]
    /\ UNCHANGED <<object, wake, status, calls, thread, faults, stale>>

OtherCloses ==
    /\ \E f \in Foreign : CloseFd(f)
    /\ UNCHANGED <<object, wake, status, calls, thread, faults, stale>>

CallStep == StartBind \/ StartListen \/ StartRun \/ StopWake \/ StopReturn \/ StopTimeout
PythonStep(t) == CallbackReturn(t) \/ CallbackRaise(t) \/ CallbackStop(t) \/ Alert(t)
NativeStep(t) ==
    \/ LoopTest(t) \/ PollWake(t) \/ PollClient(t) \/ PollFail(t) \/ Drain(t)
    \/ AcceptClient(t) \/ AcceptFail(t) \/ Recv(t) \/ Send(t)
    \/ CloseClient(t) \/ NoFallback(t) \/ Fallback(t)
    \/ NoSocket(t) \/ CloseSocket(t) \/ UnsetSocket(t)

Next ==
    \/ StartSocket \/ OwnerStop \/ CallStep
    \/ \E t \in Threads : PythonStep(t) \/ NativeStep(t)
    \/ \E c \in Clients : Connect(c)
    \/ OtherOpens \/ OtherCloses

Spec == Init /\ [][Next]_vars

(* Threads are scheduled, a native call runs to its end, stop() gives up   *)
(* after five seconds, callbacks return.  The GIL is strongly fair: CPython *)
(* hands it to a waiting thread when its holder is asked to drop it.       *)
Fairness ==
    /\ WF_vars(CallStep)
    /\ \A t \in Threads : WF_vars(NativeStep(t)) /\ SF_vars(PythonStep(t))
FairSpec == Spec /\ Fairness

=============================================================================
