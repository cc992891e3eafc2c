------------------------------ MODULE Listener ------------------------------
(***************************************************************************)
(* kankakee::Listener on Linux and macOS (src/include/Listener.h): a UDP   *)
(* socket in a multicast group, read by a detached thread.                 *)
(*                                                                         *)
(* The constructor opens the socket, the thread closes it, and no call     *)
(* opens another: one descriptor number is enough, and `file` says what it *)
(* refers to.  start() and stop() hold the GIL from call to return; the    *)
(* thread needs it for the callbacks.                                      *)
(***************************************************************************)
EXTENDS Integers, Sequences

CONSTANTS Threads,       \* threads that start() may spawn and detach
          Datagrams,     \* bound on the datagrams that arrive
          Buffer,        \* datagrams that the socket's receive buffer holds
          MaxFaults,     \* bound on failing system calls and raising callbacks
          ErrorCallback  \* is errorCallback set (it is Python code)?

ASSUME BoundsAssumption == Datagrams \in Nat /\ Buffer \in Nat /\ MaxFaults \in Nat

VARIABLES
    sock,     \* sock > -1
    running,  \* Listener::running
    file,     \* the number in sock: "own", "free", or "other" code's descriptor
    arrived,  \* datagrams 1..arrived have reached the host
    buffer,   \* those in the socket's receive buffer
    heard,    \* those given to listenCallback
    stopping, \* stop() is waiting, with the GIL
    pc, held, \* listen(): control, and the datagram in its local `buffer`
    phase,    \* what the owner knows: the outcome of its last call
    discipline, \* how the owner calls the object, see MayStart
    misused,  \* history: start() was called while a thread was at work
    dangling, \* history: close(sock) reported an error, so that sock was "left"
              \* to name a released number, and was "reused" by a start() since
    faults

owner == <<stopping, phase, discipline, misused>>
thread == <<pc, held>>
network == <<arrived, buffer>>
vars == <<sock, running, file, network, heard, owner, thread, dangling, faults>>

Numbers == 1..Datagrams

TypeOK ==
    /\ sock \in BOOLEAN /\ running \in BOOLEAN
    /\ stopping \in BOOLEAN /\ misused \in BOOLEAN
    /\ file \in {"own", "free", "other"}
    /\ arrived \in 0..Datagrams
    /\ buffer \in Seq(Numbers) /\ heard \in Seq(Numbers)
    /\ pc \in [Threads -> {"none", "top", "recv", "callback", "alert",
                           "closing", "unset", "lastalert"}]
    /\ held \in [Threads -> 0..Datagrams]
    /\ \A t \in Threads : pc[t] = "callback" => held[t] # 0
    /\ phase \in {"new", "started", "stuck", "stopped", "gone"}
    /\ discipline \in {"once", "restart", "any"}
    /\ dangling \in {"no", "left", "reused"}
    /\ faults \in 0..MaxFaults

(* After a constructor that did not throw. *)
Init ==
    /\ sock = TRUE /\ running = FALSE /\ file = "own"
    /\ arrived = 0 /\ buffer = <<>> /\ heard = <<>>
    /\ stopping = FALSE /\ phase = "new" /\ misused = FALSE
    /\ discipline \in {"once", "restart", "any"}
    /\ pc = [t \in Threads |-> "none"] /\ held = [t \in Threads |-> 0]
    /\ dangling = "no" /\ faults = 0

-----------------------------------------------------------------------------
GilFree == ~stopping
Fault == faults < MaxFaults /\ faults' = faults + 1
NoFault == UNCHANGED faults
Goto(t, label) == pc' = [pc EXCEPT ![t] = label]
Step(t, from, to) == pc[t] = from /\ Goto(t, to)
LocalStep == UNCHANGED <<sock, running, file, network, heard, owner, held, dangling>>
Live(t) == pc[t] # "none"

(* "once": a start(), stop() until it returns normally or the thread has     *)
(* ended without it, and the object is dropped.  "restart": stop() at any    *)
(* time, start() also after a stop() that returned normally.  "any": in      *)
(* every order.                                                              *)
MayStart ==
    \/ phase = "new"
    \/ discipline = "restart" /\ phase = "stopped"
    \/ discipline = "any"
MayStop == discipline = "once" => phase \in {"started", "stuck"}
MayDestroy ==
    /\ discipline = "once"
    /\ phase \in {"new", "stopped"} \/ (phase = "stuck" /\ \A t \in Threads : ~Live(t))

(* running = true and a detached thread; the socket is not looked at. *)
Start ==
    /\ GilFree /\ phase # "gone" /\ MayStart
    /\ \E t \in Threads : Step(t, "none", "top")
    /\ running' = TRUE /\ phase' = "started"
    /\ misused' = (misused \/ (phase \in {"started", "stuck"} /\ \E t \in Threads : Live(t)))
    /\ dangling' = IF dangling = "left" THEN "reused" ELSE dangling
    /\ UNCHANGED <<sock, file, network, heard, stopping, discipline, held, faults>>

(* Mutant: `running` is left alone. *)
StopRunning ==
    /\ GilFree /\ phase # "gone" /\ MayStop
    /\ stopping' = TRUE
    /\ UNCHANGED <<sock, running, file, network, heard, phase, discipline, misused, thread, dangling, faults>>

Stop ==
    /\ GilFree /\ phase # "gone" /\ MayStop
    /\ running' = FALSE /\ stopping' = TRUE
    /\ UNCHANGED <<sock, file, network, heard, phase, discipline, misused, thread, dangling, faults>>

StopEnds(outcome) ==
    /\ stopping' = FALSE /\ phase' = outcome
    /\ UNCHANGED <<sock, running, file, network, heard, discipline, misused, thread, dangling, faults>>

(* Mutant: stop() does not wait for the thread. *)
StopReturnAtOnce == stopping /\ StopEnds("stopped")
StopReturn == stopping /\ ~sock /\ StopEnds("stopped")

(* Five seconds are over and the socket is still there: stop() throws. *)
StopTimeout ==
    stopping /\ sock /\ StopEnds(IF phase = "new" THEN "new" ELSE "stuck")

(* ~Listener() *)
Destroy ==
    /\ GilFree /\ MayDestroy
    /\ phase' = "gone" /\ sock' = FALSE
    /\ file' = IF sock THEN "free" ELSE file
    /\ buffer' = IF sock THEN <<>> ELSE buffer
    /\ UNCHANGED <<running, arrived, heard, stopping, discipline, misused, thread, dangling, faults>>

-----------------------------------------------------------------------------
(* listen() *)

LoopTest(t) ==
    Step(t, "top", IF running THEN "recv" ELSE "closing") /\ NoFault /\ LocalStep

(* Mutant: recvfrom() with MSG_PEEK. *)
RecvPeek(t) ==
    /\ sock /\ file = "own" /\ buffer # <<>> /\ Step(t, "recv", "callback")
    /\ held' = [held EXCEPT ![t] = Head(buffer)]
    /\ UNCHANGED <<sock, running, file, network, heard, owner, dangling, faults>>

Recv(t) ==
    /\ sock /\ file = "own" /\ buffer # <<>> /\ Step(t, "recv", "callback")
    /\ held' = [held EXCEPT ![t] = Head(buffer)]
    /\ buffer' = Tail(buffer)
    /\ UNCHANGED <<sock, running, file, arrived, heard, owner, dangling, faults>>

(* EAGAIN: a pause, and again. *)
RecvNothing(t) ==
    /\ sock /\ file = "own" /\ buffer = <<>> /\ Step(t, "recv", "top")
    /\ NoFault /\ LocalStep

(* Mutant: an error other than EAGAIN ends the thread. *)
RecvFailEnds(t) == Step(t, "recv", "none") /\ Fault /\ LocalStep

(* EBADF where the socket is closed; other code's descriptor is no socket,  *)
(* and recvfrom() refuses it.                                               *)
RecvFail(t) ==
    /\ Step(t, "recv", "alert") /\ LocalStep
    /\ IF sock /\ file = "own" THEN Fault ELSE NoFault

Callback(t) ==
    /\ GilFree
    /\ \/ Step(t, "callback", "top") /\ NoFault
       \/ Step(t, "callback", "alert") /\ Fault
    /\ heard' = Append(heard, held[t]) /\ held' = [held EXCEPT ![t] = 0]
    /\ UNCHANGED <<sock, running, file, network, owner, dangling>>

(* catch: errorCallback needs the GIL, printing to cout does not. *)
Alert(t) ==
    /\ ErrorCallback => GilFree
    /\ Step(t, "alert", "top") \/ Step(t, "lastalert", "none")
    /\ NoFault /\ LocalStep

NoSocket(t) == ~sock /\ Step(t, "closing", "none") /\ NoFault /\ LocalStep

(* Mutant: `sock` is reset before it is closed. *)
CloseSocketEarly(t) ==
    /\ sock /\ Step(t, "closing", "unset") /\ sock' = FALSE
    /\ file' = "free" /\ buffer' = <<>>
    /\ UNCHANGED <<running, arrived, heard, owner, held, dangling, faults>>

(* close(sock) hits whatever has the number by now.  Where it reports an     *)
(* error the number is released all the same, but `sock` keeps it.           *)
CloseSocket(t) ==
    /\ sock
    /\ \/ file # "free" /\ Step(t, "closing", "unset") /\ NoFault /\ UNCHANGED dangling
       \/ file # "free" /\ Step(t, "closing", "lastalert") /\ Fault /\ dangling' = "left"
       \/ file = "free" /\ Step(t, "closing", "lastalert") /\ NoFault /\ dangling' = "left"
    /\ file' = "free" /\ buffer' = <<>>
    /\ UNCHANGED <<sock, running, arrived, heard, owner, held>>

(* Mutant: the closed socket keeps its number. *)
UnsetSocketMissing(t) == Step(t, "unset", "none") /\ NoFault /\ LocalStep

UnsetSocket(t) ==
    /\ Step(t, "unset", "none") /\ sock' = FALSE
    /\ UNCHANGED <<running, file, network, heard, owner, held, dangling, faults>>

-----------------------------------------------------------------------------
(* A datagram reaches the host; without room for it the kernel drops it. *)
Arrive ==
    /\ arrived < Datagrams /\ arrived' = arrived + 1
    /\ buffer' = IF file = "own" /\ Len(buffer) < Buffer
                 THEN Append(buffer, arrived + 1) ELSE buffer
    /\ UNCHANGED <<sock, running, file, heard, owner, thread, dangling, faults>>

(* Other code of the process opens a descriptor and gets the free number. *)
OtherOpens ==
    /\ file = "free" /\ file' = "other"
    /\ UNCHANGED <<sock, running, network, heard, owner, thread, dangling, faults>>

CallStep == StopReturn \/ StopTimeout
PythonStep(t) == Callback(t) \/ Alert(t)
NativeStep(t) ==
    \/ LoopTest(t) \/ Recv(t) \/ RecvNothing(t) \/ RecvFail(t)
    \/ NoSocket(t) \/ CloseSocket(t) \/ UnsetSocket(t)
Next ==
    \/ Start \/ Stop \/ Destroy \/ CallStep \/ Arrive \/ OtherOpens
    \/ \E t \in Threads : PythonStep(t) \/ NativeStep(t)

Spec == Init /\ [][Next]_vars

(* Threads are scheduled and stop() gives up after five seconds.  The GIL  *)
(* is strongly fair: CPython hands it to a waiting thread when its holder  *)
(* returns to the interpreter.                                             *)
FairSpec ==
    /\ Spec /\ WF_vars(CallStep)
    /\ \A t \in Threads : WF_vars(NativeStep(t)) /\ SF_vars(PythonStep(t))

-----------------------------------------------------------------------------
(* Properties *)

(* While it is open the listener's number refers to its own socket, but for *)
(* the moment between close(sock) and sock = -1 (lines 157-161), when no    *)
(* other thread is there to read or close it.  After a close() that reports *)
(* an error (lines 158-159) `sock` names a released number, which no thread *)
(* uses.  The exception is a start() after that: its thread reads and then  *)
(* closes whatever has the number, as ~Listener() does.  Started twice, a   *)
(* listener closes its number twice.                                        *)
NoForeignUse ==
    ~misused /\ sock /\ file # "own" =>
        \/ /\ dangling = "no"
           /\ \E t \in Threads : pc[t] = "unset" /\ \A u \in Threads \ {t} : ~Live(u)
        \/ dangling = "left" /\ \A t \in Threads : Live(t) => pc[t] = "lastalert"
        \/ dangling = "reused"

(* listenCallback gets each datagram at most once, even from a listener     *)
(* that was started twice, and, where it was not, in the order of arrival,  *)
(* also where a callback raised or the listener was started again.          *)
HeardInOrder ==
    \A i, j \in DOMAIN heard :
        i < j => heard[i] # heard[j] /\ (~misused => heard[i] < heard[j])

(* Once stop() saw sock = -1 (line 120) no datagram reaches the callback:   *)
(* not from a thread that is late, nor after another start().               *)
SilentAfterStop == [][~misused /\ phase = "stopped" => heard' = heard]_vars

(* A listener that is started once and dropped after stop() returned        *)
(* normally, or after its thread has ended without that, is not used by its *)
(* thread any more, which captured `this` (lines 52-54 and 105).            *)
NoUseAfterDestroy == phase = "gone" => \A t \in Threads : ~Live(t)

(* stop() closes the socket in the end, also where it has thrown itself     *)
(* since a callback was waiting for the GIL that stop() held.  Unless       *)
(* close() reported an error, a later stop() then finds sock = -1.          *)
StopTakesEffect ==
    stopping /\ phase = "started"
        ~> (file # "own" /\ (~sock \/ dangling # "no")) \/ misused

(* What the kernel has accepted for a started listener is heard, whatever   *)
(* recvfrom() and the callback throw, until stop() is called.               *)
EveryDatagramHeard ==
    \A d \in 1..Datagrams :
        phase = "started" /\ (\E i \in DOMAIN buffer : buffer[i] = d)
            ~> (\E i \in DOMAIN heard : heard[i] = d) \/ ~running \/ misused

-----------------------------------------------------------------------------
(* Inductive invariants, proved in ListenerProofs *)

(* While the socket is open one thread at most is alive, and the owner      *)
(* knows of it; without it no thread has a datagram to deliver.             *)
LifeInv ==
    ~misused =>
        /\ \A t \in Threads : pc[t] \in {"callback", "unset"} => sock
        /\ sock => \A t, u \in Threads : Live(t) /\ Live(u) => t = u
        /\ sock => \A t \in Threads : Live(t) => phase \in {"started", "stuck"}
        /\ sock /\ file # "own" => dangling # "no" \/ \E t \in Threads : pc[t] = "unset"
        /\ sock /\ dangling = "left" => \A t \in Threads : Live(t) => pc[t] = "lastalert"
        /\ phase \in {"stopped", "gone"} => ~sock
        /\ phase = "new" => sock

(* A listener used once has a thread only while it has the socket. *)
OnceInv ==
    /\ phase = "gone" => discipline = "once"
    /\ discipline = "once" => ~misused /\ \A t \in Threads : Live(t) => sock

(* Heard, held and buffered datagrams are apart from each other, and those  *)
(* in the buffer are the last ones, also with two threads.                  *)
Increasing(s) == \A i, j \in DOMAIN s : i < j => s[i] < s[j]
Held(t) == pc[t] = "callback"
ApartInv ==
    /\ \A i, j \in DOMAIN heard : i < j => heard[i] # heard[j]
    /\ Increasing(buffer)
    /\ \A i \in DOMAIN heard : heard[i] <= arrived
    /\ \A j \in DOMAIN buffer : buffer[j] <= arrived
    /\ \A i \in DOMAIN heard, j \in DOMAIN buffer : heard[i] < buffer[j]
    /\ \A t \in Threads : Held(t) =>
          /\ held[t] \in 1..arrived
          /\ \A i \in DOMAIN heard : heard[i] # held[t]
          /\ \A j \in DOMAIN buffer : held[t] < buffer[j]
    /\ \A t, u \in Threads : Held(t) /\ Held(u) /\ held[t] = held[u] => t = u

(* Without a second start() they also follow each other. *)
OrderInv ==
    ~misused =>
        /\ Increasing(heard)
        /\ \A t \in Threads : Held(t) => \A i \in DOMAIN heard : heard[i] < held[t]
=============================================================================
