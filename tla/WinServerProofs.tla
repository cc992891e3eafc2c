--------------------------- MODULE WinServerProofs ---------------------------
(* Proofs about WinServer, for any clients, quitters, bound on faults and   *)
(* mode, restarts included.                                                 *)
EXTENDS WinServer, TLAPS

(* Every variable stays in its type under every step of the server.         *)
LEMMA TypeStep == TypeOK /\ [Next]_vars => TypeOK'
  <1> USE DEF TypeOK, calls, Network, Switches, Step
  <1>1. TypeOK /\ StartFail => TypeOK'
    <2> SUFFICES ASSUME TypeOK, StartFail PROVE TypeOK'
      OBVIOUS
    <2>1. faults' \in 0..MaxFaults
      BY FaultsAssumption DEF StartFail, Fault
    <2>2. QED
      BY <2>1 DEF StartFail
  <1>2. TypeOK /\ Start => TypeOK'
    BY Zenon DEF Start
  <1>3. TypeOK /\ OwnerStop => TypeOK'
    BY Zenon DEF OwnerStop, StopBy
  <1>4. TypeOK /\ CallStep => TypeOK'
    BY Zenon DEF CallStep, StopSet, StopReturn
  <1>5. TypeOK /\ Destroy => TypeOK'
    BY Zenon DEF Destroy
  <1>6. TypeOK /\ PythonStep => TypeOK'
    <2>1. TypeOK /\ CallbackStop => TypeOK'
      BY Zenon DEF CallbackStop, StopBy
    <2>2. TypeOK /\ (Callback \/ Alert) => TypeOK'
      BY FaultsAssumption DEF Callback, Alert, Fault, NoFault, LocalStep
    <2>3. QED
      BY <2>1, <2>2 DEF PythonStep
  <1>7. TypeOK /\ NativeStep => TypeOK'
    <2>1. TypeOK /\ (LoopTest \/ WaitShutdown \/ WaitClient \/ Recv) => TypeOK'
      BY DEF LoopTest, WaitShutdown, WaitClient, Recv, NoFault, LocalStep
    <2>2. TypeOK /\ AcceptClient => TypeOK'
      BY FaultsAssumption DEF AcceptClient, Rearm, Fault, NoFault, Mark, Queued
    <2>3. TypeOK /\ AcceptFail => TypeOK'
      BY FaultsAssumption DEF AcceptFail, Rearm, Fault
    <2>4. TypeOK /\ Send => TypeOK'
      BY DEF Send, Mark
    <2>5. TypeOK /\ Blocked => TypeOK'
      <3> SUFFICES ASSUME TypeOK, Blocked PROVE TypeOK'
        OBVIOUS
      <3>1. status' \in [Clients -> {"out", "queued", "open", "answered", "cut", "dropped"}]
        BY DEF Blocked, Mark
      <3>2. accepts' \in {"armed", "recorded", "taken"}
        BY Zenon DEF Blocked
      <3>3. swallowed' \in BOOLEAN
        BY Zenon DEF Blocked
      <3>4. /\ UNCHANGED <<sock, enabled, running, shutdown, caller, call, phase>>
            /\ UNCHANGED <<client, stopped, faults>> /\ pc' = "close"
        BY Zenon DEF Blocked
      <3>5. QED
        BY <3>1, <3>2, <3>3, <3>4
    <2>6. TypeOK /\ CloseClient => TypeOK'
      BY FaultsAssumption DEF CloseClient, Fault, NoFault
    <2>7. TypeOK /\ Fallback => TypeOK'
      BY FaultsAssumption DEF Fallback, Fault, NoFault
    <2>8. TypeOK /\ CloseSocket => TypeOK'
      BY FaultsAssumption DEF CloseSocket, Fault, NoFault
    <2>9. TypeOK /\ (UnsetSocket \/ End) => TypeOK'
      BY Zenon DEF UnsetSocket, End
    <2>10. QED
      BY <2>1, <2>2, <2>3, <2>4, <2>5, <2>6, <2>7, <2>8, <2>9 DEF NativeStep
  <1>8. TypeOK /\ (\E c \in Clients : Connect(c)) => TypeOK'
    BY DEF Connect, Mark
  <1>9. TypeOK /\ UNCHANGED vars => TypeOK'
    BY DEF vars
  <1>10. QED
    BY <1>1, <1>2, <1>3, <1>4, <1>5, <1>6, <1>7, <1>8, <1>9, Zenon DEF Next

(* Type correctness of the server on Windows.                               *)
THEOREM WinServerTypes == Spec => []TypeOK
  <1>1. Init => TypeOK
    <2>1. Init => faults \in 0..MaxFaults
      BY FaultsAssumption DEF Init
    <2>2. QED
      BY <2>1, Zenon DEF Init, TypeOK
  <1>2. QED
    BY <1>1, TypeStep, PTL DEF Spec

-----------------------------------------------------------------------------
(* LifeInv is inductive: the thread starts where none lives, `running` is   *)
(* its last write, and only the thread closes a socket that listens.        *)
LEMMA LifeStep == TypeOK /\ LifeInv /\ [Next]_vars => LifeInv'
  <1> SUFFICES ASSUME TypeOK, LifeInv, [Next]_vars PROVE LifeInv'
    OBVIOUS
  <1> USE DEF TypeOK, LifeInv, GilFree
  <1> USE DEF calls, Network, Switches, Fault, NoFault, Step, LocalStep, Mark
  <1>1. CASE StartFail \/ Start
    BY <1>1 DEF StartFail, Start, MayStart
  <1>2. CASE OwnerStop \/ CallStep \/ Destroy
    BY <1>2 DEF OwnerStop, StopBy, CallStep, StopSet, StopReturn, Destroy
  <1>3. CASE PythonStep
    BY <1>3 DEF PythonStep, Callback, CallbackStop, StopBy, Alert
  <1>4. CASE NativeStep
    <2>1. CASE LoopTest \/ WaitShutdown \/ WaitClient \/ AcceptClient \/ AcceptFail \/ Recv
      BY <2>1 DEF LoopTest, WaitShutdown, WaitClient, AcceptClient, AcceptFail, Recv
    <2>2. CASE Send \/ Blocked \/ CloseClient \/ Fallback
      BY <2>2 DEF Send, Blocked, CloseClient, Fallback
    <2>3. CASE CloseSocket \/ UnsetSocket \/ End
      BY <2>3 DEF CloseSocket, UnsetSocket, End
    <2>4. QED
      BY <1>4, <2>1, <2>2, <2>3 DEF NativeStep
  <1>5. ASSUME NEW c \in Clients, Connect(c) PROVE LifeInv'
    BY <1>5 DEF Connect
  <1>6. CASE UNCHANGED vars
    BY <1>6 DEF vars
  <1>7. QED
    BY <1>1, <1>2, <1>3, <1>4, <1>5, <1>6 DEF Next

(* ClientInv is inductive: `client` is set with the connection it names and *)
(* forgotten once that is closed, by whichever way the iteration ends.      *)
LEMMA ClientStep == TypeOK /\ LifeInv /\ ClientInv /\ [Next]_vars => ClientInv'
  <1> SUFFICES ASSUME TypeOK, LifeInv, ClientInv, [Next]_vars PROVE ClientInv'
    OBVIOUS
  <1> USE ClientsAssumption DEF TypeOK, ClientInv, Serving
  <1> USE DEF calls, Network, Switches, Fault, NoFault, Step, LocalStep, Mark, Queued
  <1>1. CASE StartFail \/ Start
    BY <1>1 DEF StartFail, Start, MayStart, LifeInv
  <1>2. CASE OwnerStop \/ CallStep \/ Destroy
    BY <1>2 DEF OwnerStop, StopBy, CallStep, StopSet, StopReturn, Destroy
  <1>3. CASE PythonStep
    BY <1>3 DEF PythonStep, Callback, CallbackStop, StopBy, Alert
  <1>4. CASE NativeStep
    <2>1. CASE LoopTest \/ WaitShutdown \/ WaitClient \/ AcceptFail \/ Recv
      BY <2>1 DEF LoopTest, WaitShutdown, WaitClient, AcceptFail, Recv
    <2>2. CASE AcceptClient
      BY <2>2 DEF AcceptClient
    <2>3. CASE Send \/ Blocked
      BY <2>3 DEF Send, Blocked
    <2>4. CASE CloseClient \/ Fallback
      BY <2>4 DEF CloseClient, Fallback
    <2>5. CASE CloseSocket \/ UnsetSocket \/ End
      BY <2>5 DEF CloseSocket, UnsetSocket, End
    <2>6. QED
      BY <1>4, <2>1, <2>2, <2>3, <2>4, <2>5 DEF NativeStep
  <1>5. ASSUME NEW c \in Clients, Connect(c) PROVE ClientInv'
    BY <1>5 DEF Connect
  <1>6. CASE UNCHANGED vars
    BY <1>6 DEF vars
  <1>7. QED
    BY <1>1, <1>2, <1>3, <1>4, <1>5, <1>6 DEF Next

(* Every behaviour keeps what ServerKept rests on.                          *)
LEMMA LifeInvariant == Spec => [](LifeInv /\ ClientInv)
  <1>1. Init => LifeInv /\ ClientInv
    BY DEF Init, LifeInv, GilFree, ClientInv, Serving
  <1>2. QED
    BY <1>1, WinServerTypes, LifeStep, ClientStep, PTL DEF Spec

(* Whatever fails, the object outlives its thread and no client's socket is *)
(* lost on the way out of an iteration (WinServer.h:270-314).               *)
THEOREM WinServerKept == Spec => []ServerKept
  <1>1. TypeOK /\ LifeInv /\ ClientInv => ServerKept
    BY DEF LifeInv, ClientInv, Serving, ServerKept, NoUseAfterDestroy, NoClientLeak
  <1>2. QED
    BY <1>1, WinServerTypes, LifeInvariant, PTL

-----------------------------------------------------------------------------
(* AnnounceInv is inductive: accept() records FD_ACCEPT for those it leaves *)
(* in the queue, a new client does where it is armed, and the queue is gone *)
(* with the socket, before another start() arms the event.                  *)
LEMMA AnnounceStep == TypeOK /\ LifeInv /\ AnnounceInv /\ [Next]_vars => AnnounceInv'
  <1> SUFFICES ASSUME TypeOK, LifeInv, AnnounceInv, [Next]_vars PROVE AnnounceInv'
    OBVIOUS
  <1> USE DEF TypeOK, AnnounceInv, QueueIsAnnounced, Queued
  <1> USE DEF calls, Network, Switches, Fault, NoFault, Step, LocalStep, Mark
  <1>1. CASE StartFail \/ Start
    BY <1>1 DEF StartFail, Start, MayStart, LifeInv
  <1>2. CASE OwnerStop \/ CallStep \/ Destroy
    BY <1>2 DEF OwnerStop, StopBy, CallStep, StopSet, StopReturn, Destroy, LifeInv
  <1>3. CASE PythonStep
    BY <1>3 DEF PythonStep, Callback, CallbackStop, StopBy, Alert
  <1>4. CASE NativeStep
    <2>1. CASE LoopTest \/ WaitShutdown \/ WaitClient \/ Recv
      BY <2>1 DEF LoopTest, WaitShutdown, WaitClient, Recv
    <2>2. CASE AcceptClient
      BY <2>2 DEF AcceptClient, Rearm
    <2>3. CASE AcceptFail
      BY <2>3 DEF AcceptFail, Rearm
    <2>4. CASE Send \/ Blocked
      BY <2>4 DEF Send, Blocked
    <2>5. CASE CloseClient \/ Fallback
      BY <2>5 DEF CloseClient, Fallback
    <2>6. CASE CloseSocket \/ UnsetSocket \/ End
      BY <2>6 DEF CloseSocket, UnsetSocket, End, LifeInv
    <2>7. QED
      BY <1>4, <2>1, <2>2, <2>3, <2>4, <2>5, <2>6 DEF NativeStep
  <1>5. ASSUME NEW c \in Clients, Connect(c) PROVE AnnounceInv'
    BY <1>5 DEF Connect
  <1>6. CASE UNCHANGED vars
    BY <1>6 DEF vars
  <1>7. QED
    BY <1>1, <1>2, <1>3, <1>4, <1>5, <1>6 DEF Next

(* No client waits unannounced, unless a send() that had to wait took the   *)
(* event away (WinServer.h:221 and 244-256).                                *)
THEOREM WinServerQueueIsAnnounced == Spec => []QueueIsAnnounced
  <1>1. Init => AnnounceInv
    BY DEF Init, AnnounceInv, QueueIsAnnounced, Queued
  <1>2. AnnounceInv => QueueIsAnnounced
    BY DEF AnnounceInv
  <1>3. QED
    BY <1>1, <1>2, WinServerTypes, LifeInvariant, AnnounceStep, PTL DEF Spec

-----------------------------------------------------------------------------
(* StopInv is inductive: no step resets the event, and with the event set   *)
(* the wait never leads to accept().                                        *)
LEMMA StopStep == TypeOK /\ LifeInv /\ StopInv /\ [Next]_vars => StopInv'
  <1> SUFFICES ASSUME TypeOK, LifeInv, StopInv, [Next]_vars PROVE StopInv'
    OBVIOUS
  <1> USE DEF TypeOK, StopInv, LifeInv, GilFree
  <1> USE DEF calls, Network, Switches, Step, LocalStep
  <1>1. CASE StartFail \/ Start \/ OwnerStop \/ CallStep \/ Destroy
    BY <1>1 DEF StartFail, Start, OwnerStop, StopBy, CallStep, StopSet, StopReturn, Destroy
  <1>2. CASE PythonStep
    BY <1>2 DEF PythonStep, Callback, CallbackStop, StopBy, Alert
  <1>3. CASE LoopTest \/ WaitShutdown \/ WaitClient \/ AcceptClient \/ AcceptFail \/ Recv
    BY <1>3 DEF LoopTest, WaitShutdown, WaitClient, AcceptClient, AcceptFail, Recv
  <1>4. CASE Send \/ Blocked \/ CloseClient \/ Fallback \/ CloseSocket \/ UnsetSocket \/ End
    BY <1>4 DEF Send, Blocked, CloseClient, Fallback, CloseSocket, UnsetSocket, End
  <1>5. ASSUME NEW c \in Clients, Connect(c) PROVE StopInv'
    BY <1>5 DEF Connect
  <1>6. CASE UNCHANGED vars
    BY <1>6 DEF vars
  <1>7. QED
    BY <1>1, <1>2, <1>3, <1>4, <1>5, <1>6 DEF Next, NativeStep

(* A client is accepted by accept() only. *)
LEMMA OnlyAccept ==
    ASSUME TypeOK, [Next]_vars, pc # "accept", NEW c \in Clients, status'[c] = "open"
    PROVE  status[c] = "open"
  <1> USE DEF TypeOK, calls, Network, Switches, Step, LocalStep, Mark, Queued
  <1>1. CASE StartFail \/ Start \/ OwnerStop \/ CallStep \/ Destroy \/ PythonStep
    BY <1>1 DEF StartFail, Start, OwnerStop, StopBy, CallStep, StopSet, StopReturn, Destroy,
         PythonStep, Callback, CallbackStop, Alert
  <1>2. CASE LoopTest \/ WaitShutdown \/ WaitClient \/ AcceptClient \/ AcceptFail \/ Recv
    BY <1>2 DEF LoopTest, WaitShutdown, WaitClient, AcceptClient, AcceptFail, Recv
  <1>3. CASE Send \/ Blocked
    BY <1>3 DEF Send, Blocked
  <1>4. CASE CloseClient \/ Fallback \/ CloseSocket \/ UnsetSocket \/ End
    BY <1>4 DEF CloseClient, Fallback, CloseSocket, UnsetSocket, End
  <1>5. ASSUME NEW d \in Clients, Connect(d) PROVE status[c] = "open"
    BY <1>5 DEF Connect
  <1>6. CASE UNCHANGED vars
    BY <1>6 DEF vars
  <1>7. QED
    BY <1>1, <1>2, <1>3, <1>4, <1>5, <1>6 DEF Next, NativeStep

(* Once a stop() has returned nobody is accepted any more, also after       *)
(* another start(): the event stays set (WinServer.h:120 and 244-247).      *)
THEOREM WinServerStoppedForGood == Spec => StoppedForGood
  <1>1. Init => StopInv
    BY DEF Init, StopInv
  <1>2. TypeOK /\ StopInv /\ [Next]_vars =>
          [stopped => \A c \in Clients : status'[c] = "open" => status[c] = "open"]_vars
    BY OnlyAccept DEF StopInv
  <1>3. QED
    BY <1>1, <1>2, WinServerTypes, LifeInvariant, StopStep, PTL DEF Spec, StoppedForGood

(* CutInv is inductive: whatever has ended a send()'s wait stays so.        *)
LEMMA CutStep == TypeOK /\ LifeInv /\ StopInv /\ CutInv /\ [Next]_vars => CutInv'
  <1> SUFFICES ASSUME TypeOK, LifeInv, StopInv, CutInv, [Next]_vars, Cut'
               PROVE  /\ pc' # "accept"
                      /\ shutdown' \/ (accepts' = "taken" /\ phase' = "started")
    BY DEF CutInv
  <1> USE DEF calls, Network, Switches, Step, LocalStep, Mark, Queued
  <1>1. CASE Blocked
    BY <1>1 DEF Blocked, LifeInv
  <1>2. ASSUME ~Blocked PROVE Cut
    <2> USE DEF Cut, TypeOK
    <2>1. CASE StartFail \/ Start \/ OwnerStop \/ CallStep \/ Destroy \/ PythonStep
      BY <2>1 DEF StartFail, Start, OwnerStop, StopBy, CallStep, StopSet, StopReturn, Destroy,
           PythonStep, Callback, CallbackStop, Alert
    <2>2. CASE LoopTest \/ WaitShutdown \/ WaitClient \/ AcceptFail \/ Recv
      BY <2>2 DEF LoopTest, WaitShutdown, WaitClient, AcceptFail, Recv
    <2>3. CASE AcceptClient \/ Send
      BY <2>3 DEF AcceptClient, Send
    <2>4. CASE CloseClient \/ Fallback \/ CloseSocket \/ UnsetSocket \/ End
      BY <2>4 DEF CloseClient, Fallback, CloseSocket, UnsetSocket, End
    <2>5. ASSUME NEW c \in Clients, Connect(c) PROVE Cut
      BY <2>5 DEF Connect
    <2>6. CASE UNCHANGED vars
      BY <2>6 DEF vars
    <2>7. QED
      BY <1>2, <2>1, <2>2, <2>3, <2>4, <2>5, <2>6 DEF Next, NativeStep
  <1>3. ASSUME Cut, ~Blocked
        PROVE  /\ pc' # "accept"
               /\ shutdown' \/ (accepts' = "taken" /\ phase' = "started")
    <2>0. pc # "accept" /\ (shutdown \/ (accepts = "taken" /\ phase = "started"))
      BY <1>3 DEF CutInv
    <2> USE <2>0
    <2>1. CASE StartFail \/ Start
      BY <2>1 DEF StartFail, Start, MayStart
    <2>2. CASE OwnerStop \/ CallStep \/ Destroy
      BY <2>2 DEF OwnerStop, StopBy, CallStep, StopSet, StopReturn, Destroy, LifeInv, StopInv
    <2>3. CASE PythonStep
      BY <2>3 DEF PythonStep, Callback, CallbackStop, StopBy, Alert
    <2>4. CASE LoopTest \/ WaitShutdown \/ WaitClient \/ AcceptClient \/ AcceptFail \/ Recv
      BY <2>4 DEF LoopTest, WaitShutdown, WaitClient, AcceptClient, AcceptFail, Recv
    <2>5. CASE Send \/ CloseClient \/ Fallback \/ CloseSocket \/ UnsetSocket \/ End
      BY <2>5 DEF Send, CloseClient, Fallback, CloseSocket, UnsetSocket, End
    <2>6. ASSUME NEW c \in Clients, Connect(c)
          PROVE  /\ pc' # "accept"
                 /\ shutdown' \/ (accepts' = "taken" /\ phase' = "started")
      BY <2>6 DEF Connect
    <2>7. CASE UNCHANGED vars
      BY <2>7 DEF vars
    <2>8. QED
      BY <1>3, <2>1, <2>2, <2>3, <2>4, <2>5, <2>6, <2>7 DEF Next, NativeStep
  <1>4. QED
    BY <1>1, <1>2, <1>3

(* After a response was cut without a report nobody is accepted any more,   *)
(* so that it is the only one (WinServer.h:213-232).                        *)
THEOREM WinServerCutIsTheLast == Spec => CutIsTheLast
  <1>1. Init => CutInv /\ StopInv
    BY DEF Init, CutInv, Cut, StopInv
  <1>2. TypeOK /\ CutInv /\ [Next]_vars =>
          [Cut => \A c \in Clients : status'[c] = "open" => status[c] = "open"]_vars
    BY OnlyAccept DEF CutInv
  <1>3. QED
    BY <1>1, <1>2, WinServerTypes, LifeInvariant, StopStep, CutStep, PTL
       DEF Spec, CutIsTheLast, Cut

(* Where stop() and a callback wait for each other, nothing of the server   *)
(* and nobody else ends it (WinServer.h:118-123): the safety half of        *)
(* StopReturns.  All that can still happen is that a client connects.       *)
THEOREM WinServerDeadlockIsForGood == Spec => [](Deadlocked => []Deadlocked)
  <1> DEFINE Waiting == {"callback", "alert", "realert", "lastalert"}
  <1>1. ASSUME LifeInv, Deadlocked
        PROVE  /\ ~GilFree /\ call = "wait" /\ running /\ pc \in Waiting
               /\ pc # "callback" => ErrorCallback
    BY <1>1 DEF LifeInv, Deadlocked, GilFree
  <1>2. LifeInv /\ Deadlocked => ~(StartFail \/ Start \/ OwnerStop \/ Destroy \/ CallStep)
    BY <1>1 DEF StartFail, Start, OwnerStop, StopBy, Destroy, CallStep, StopSet, StopReturn
  <1>3. LifeInv /\ Deadlocked => ~PythonStep
    BY <1>1 DEF PythonStep, Callback, CallbackStop, StopBy, Alert, Step
  <1>4. LifeInv /\ Deadlocked => ~NativeStep
    <2>1. NativeStep => pc \notin Waiting
      BY DEF NativeStep, Step, LoopTest, WaitShutdown, WaitClient, AcceptClient, AcceptFail, Recv,
             Send, Blocked, CloseClient, Fallback, CloseSocket, UnsetSocket, End
    <2>2. QED
      BY <1>1, <2>1
  <1>5. (\E c \in Clients : Connect(c)) => UNCHANGED <<calls, pc>>
    BY DEF Connect
  <1>6. Deadlocked /\ UNCHANGED <<calls, pc>> => Deadlocked'
    BY DEF Deadlocked, calls
  <1>7. LifeInv /\ Deadlocked /\ [Next]_vars => Deadlocked'
    BY <1>2, <1>3, <1>4, <1>5, <1>6 DEF Next, vars, calls
  <1>8. QED
    BY <1>7, LifeInvariant, PTL DEF Spec

-----------------------------------------------------------------------------
(* A server that is started once implements ServerPromise                   *)

(* OnceInv is inductive where a stopped server is not started again.        *)
LEMMA OnceStep ==
    ASSUME ~Restart, TypeOK, LifeInv, ClientInv, OnceInv, [Next]_vars
    PROVE  OnceInv'
  <1> USE ClientsAssumption DEF TypeOK, LifeInv, GilFree, OnceInv
  <1> USE DEF calls, Network, Switches, NoFault, Step, LocalStep, Mark, Queued
  <1>1. CASE StartFail \/ Start
    BY <1>1 DEF StartFail, Start, MayStart
  <1>2. CASE OwnerStop \/ CallStep \/ Destroy
    BY <1>2 DEF OwnerStop, StopBy, CallStep, StopSet, StopReturn, Destroy
  <1>3. CASE PythonStep
    BY <1>3 DEF PythonStep, Callback, CallbackStop, StopBy, Alert
  <1>4. CASE LoopTest \/ WaitShutdown \/ WaitClient \/ AcceptFail \/ Recv
    BY <1>4 DEF LoopTest, WaitShutdown, WaitClient, AcceptFail, Recv
  <1>5. CASE AcceptClient
    BY <1>5 DEF AcceptClient
  <1>6. CASE Send \/ Blocked
    BY <1>6 DEF Send, Blocked
  <1>7. CASE CloseClient \/ Fallback \/ CloseSocket \/ UnsetSocket \/ End
    BY <1>7 DEF CloseClient, Fallback, CloseSocket, UnsetSocket, End
  <1>8. ASSUME NEW c \in Clients, Connect(c) PROVE OnceInv'
    BY <1>8 DEF Connect
  <1>9. CASE UNCHANGED vars
    BY <1>9 DEF vars
  <1>10. QED
    BY <1>1, <1>2, <1>3, <1>4, <1>5, <1>6, <1>7, <1>8, <1>9 DEF Next, NativeStep

(* What the promise sees of a step.                                         *)
Over == phase \in {"stopped", "gone"}
Progress == [c \in Clients |-> Seen(status[c])]
AllInv == TypeOK /\ LifeInv /\ ClientInv /\ OnceInv
AbstractStep == [Abstract!Next]_Abstract!vars
Unseen == Port' = Port /\ (Over' <=> Over) /\ Progress' = Progress

(* A step that the promise does not see.                                    *)
LEMMA Stutter == Unseen /\ enabled' = enabled => AbstractStep
  BY DEF Unseen, AbstractStep, Abstract!vars, Over, Progress

(* A step after which the end is asked for, and nothing else.               *)
LEMMA Ends == Unseen /\ ~enabled' => AbstractStep
  BY DEF Unseen, AbstractStep, Abstract!Next, Abstract!End, Over, Progress

(* A start() opens the port, a stop() asks for the end, and where it comes  *)
(* back that has come.                                                      *)
LEMMA CallRefines ==
    ASSUME ~Restart, AllInv,
           StartFail \/ Start \/ OwnerStop \/ CallbackStop \/ CallStep \/ Destroy
    PROVE  AbstractStep
  <1> USE DEF AllInv, TypeOK, LifeInv, GilFree, OnceInv
  <1>1. status' = status /\ Progress' = Progress
    BY DEF StartFail, Start, OwnerStop, CallbackStop, StopBy, CallStep, StopSet, StopReturn,
           Destroy, Network, Progress
  <1>2. CASE StartFail
    <2>1. Port = "closed" /\ Port' = "closed" /\ enabled' = enabled /\ ~Over /\ ~Over'
      BY <1>2 DEF StartFail, MayStart, Switches, Port, Over
    <2>2. QED
      BY <1>1, <2>1, Stutter DEF Unseen
  <1>3. CASE Start
    <2>1. /\ Port = "closed" /\ Port' = "open" /\ enabled /\ enabled' = enabled
          /\ ~Over /\ ~Over'
      BY <1>3 DEF Start, MayStart, Port, Over
    <2>2. Abstract!Open
      BY <1>1, <2>1 DEF Abstract!Open, Over, Progress
    <2>3. QED
      BY <2>2 DEF AbstractStep, Abstract!Next
  <1>4. CASE OwnerStop \/ CallbackStop
    <2>1. Port' = Port /\ phase' = phase /\ ~enabled'
      BY <1>4 DEF OwnerStop, CallbackStop, StopBy, Port
    <2>2. QED
      BY <1>1, <2>1, Ends DEF Unseen, Over
  <1>5. CASE StopSet \/ Destroy
    <2>1. Port' = Port /\ (Over' <=> Over) /\ enabled' = enabled
      BY <1>5 DEF StopSet, Destroy, Switches, Port, Over
    <2>2. QED
      BY <1>1, <2>1, Stutter DEF Unseen
  <1>6. CASE StopReturn
    <2>1. Port = "closed" /\ Port' = Port /\ Over' /\ ~enabled /\ enabled' = enabled
      BY <1>6 DEF StopReturn, Switches, Port, Over
    <2>2. Abstract!Conclude
      BY <1>1, <2>1 DEF Abstract!Conclude, Over, Progress
    <2>3. QED
      BY <2>2 DEF AbstractStep, Abstract!Next
  <1>7. QED
    BY <1>2, <1>3, <1>4, <1>5, <1>6 DEF CallStep

(* accept() serves a client, the response or a close finishes it, and the   *)
(* close of the socket gives up the port.                                   *)
LEMMA ThreadRefines ==
    ASSUME AllInv, Callback \/ Alert \/ NativeStep
    PROVE  AbstractStep
  <1> USE ClientsAssumption DEF AllInv, TypeOK
  <1> USE DEF Step, LocalStep, Switches, calls, Network
  <1>1. enabled' = enabled /\ phase' = phase /\ (Over' <=> Over)
    BY DEF Callback, Alert, NativeStep, LoopTest, WaitShutdown, WaitClient, AcceptClient,
           AcceptFail, Recv, Send, Blocked, CloseClient, Fallback, CloseSocket, UnsetSocket,
           End, Over
  <1>2. ASSUME ~CloseSocket, ~UnsetSocket PROVE Port' = Port
    BY <1>2 DEF Callback, Alert, NativeStep, LoopTest, WaitShutdown, WaitClient, AcceptClient,
           AcceptFail, Recv, Send, Blocked, CloseClient, Fallback, End, Port
  <1>3. ASSUME Port' = Port, status' = status PROVE AbstractStep
    BY <1>1, <1>3, Stutter DEF Unseen, Progress
  <1>4. CASE \/ Callback \/ Alert \/ LoopTest \/ WaitShutdown \/ WaitClient \/ AcceptFail
             \/ Recv \/ CloseClient \/ End
    <2>1. status' = status
      BY <1>4 DEF Callback, Alert, LoopTest, WaitShutdown, WaitClient, AcceptFail, Recv,
                  CloseClient, End
    <2>2. Port' = Port
      BY <1>4 DEF Callback, Alert, LoopTest, WaitShutdown, WaitClient, AcceptFail, Recv,
                  CloseClient, End, Port
    <2>3. QED
      BY <1>3, <2>1, <2>2
  <1>5. CASE UnsetSocket
    <2>1. Port' = Port /\ status' = status
      BY <1>5 DEF UnsetSocket, LifeInv, Port
    <2>2. QED
      BY <1>3, <2>1
  <1>6. CASE AcceptClient
    <2>1. PICK c \in Queued : status' = [status EXCEPT ![c] = "open"]
      BY <1>6 DEF AcceptClient, Mark
    <2>2. c \in Clients /\ Progress[c] = "queued"
      BY <2>1 DEF Queued, Progress, Seen
    <2>3. \A d \in Clients : Progress[d] # "open"
      BY <1>6 DEF AcceptClient, ClientInv, Serving, Progress, Seen
    <2>4. Progress' = [Progress EXCEPT ![c] = "open"]
      BY <2>1, <2>2 DEF Progress, Seen
    <2>5. Port' = Port
      BY <1>6 DEF AcceptClient, Port
    <2>6. Abstract!Serve(c)
      BY <1>1, <2>2, <2>3, <2>4, <2>5 DEF Abstract!Serve, Over, Progress
    <2>7. QED
      BY <2>2, <2>6 DEF AbstractStep, Abstract!Next
  <1>7. ASSUME NEW c \in Clients, NEW end \in {"answered", "cut", "dropped"}, Port' = Port,
               status[c] = "open", status' = [status EXCEPT ![c] = end]
        PROVE  AbstractStep
    <2>1. Progress[c] = "open" /\ Progress' = [Progress EXCEPT ![c] = Seen(end)]
      BY <1>7 DEF Progress, Seen
    <2>2. Seen(end) \in {"answered", "dropped"}
      BY <1>7 DEF Seen
    <2>3. Abstract!Finish(c)
      BY <1>1, <1>7, <2>1, <2>2 DEF Abstract!Finish, Over, Progress
    <2>4. QED
      BY <2>3 DEF AbstractStep, Abstract!Next
  <1>8. CASE Send \/ Blocked
    <2>1. client \in Clients /\ status[client] = "open"
      BY <1>8 DEF Send, Blocked, OnceInv
    <2>2. Port' = Port
      BY <1>8 DEF Send, Blocked, Port
    <2>3. \/ status' = status
          \/ status' = [status EXCEPT ![client] = "answered"]
          \/ status' = [status EXCEPT ![client] = "cut"]
      BY <1>8 DEF Send, Blocked, Mark
    <2>4. QED
      BY <1>3, <1>7, <2>1, <2>2, <2>3
  <1>9. CASE Fallback
    <2>1. Port' = Port
      BY <1>9 DEF Fallback, Port
    <2>2. status' = [c \in Clients |-> IF c = client /\ status[c] = "open"
                                       THEN "dropped" ELSE status[c]]
      BY <1>9 DEF Fallback
    <2>3. CASE client \in Clients /\ status[client] = "open"
      <3>1. status' = [status EXCEPT ![client] = "dropped"]
        BY <2>2, <2>3
      <3>2. QED
        BY <1>7, <2>1, <2>3, <3>1
    <2>4. CASE ~(client \in Clients /\ status[client] = "open")
      <3>1. status' = status
        BY <2>2, <2>4
      <3>2. QED
        BY <1>3, <2>1, <3>1
    <2>5. QED
      BY <2>3, <2>4
  <1>10. CASE CloseSocket
    <2>1. Port = "open" /\ Port' = "closed" /\ ~enabled
      BY <1>10 DEF CloseSocket, LifeInv, OnceInv, Port
    <2>2. \A c \in Clients : Progress[c] # "open"
      BY <1>10 DEF CloseSocket, ClientInv, Serving, Progress, Seen
    <2>3. Progress' = [c \in Clients |-> IF Progress[c] = "queued" THEN "dropped" ELSE Progress[c]]
      BY <1>10 DEF CloseSocket, Queued, Progress, Seen
    <2>4. Abstract!Close
      BY <1>1, <2>1, <2>2, <2>3 DEF Abstract!Close, Over, Progress
    <2>5. QED
      BY <2>4 DEF AbstractStep, Abstract!Next
  <1>11. QED
    BY <1>4, <1>5, <1>6, <1>8, <1>9, <1>10 DEF NativeStep

(* Windows: a server that is started once implements ServerPromise: clients *)
(* are served one at a time, each is answered, cut or dropped, the port is  *)
(* given up only when stop() was called, and nothing is left of it when     *)
(* that has returned.                                                       *)
THEOREM WinServerImplementsPromise ==
    ASSUME ~Restart
    PROVE  Spec => Abstract!Spec
  <1>1. Init => Abstract!Init
    BY DEF Init, Abstract!Init, Port, Seen
  <1>2. Init => OnceInv
    BY DEF Init, OnceInv
  <1>3. ASSUME NEW c \in Clients, Connect(c), TypeOK PROVE AbstractStep
    <2>1. Port = "open" /\ Port' = Port /\ enabled' = enabled /\ phase' = phase
      BY <1>3 DEF Connect, Switches, calls, Port
    <2>2. Progress[c] = "out" /\ Progress' = [Progress EXCEPT ![c] = "queued"]
      BY <1>3 DEF Connect, Mark, Progress, Seen, TypeOK
    <2>3. Abstract!Connect(c)
      BY <2>1, <2>2 DEF Abstract!Connect, Progress
    <2>4. QED
      BY <2>3 DEF AbstractStep, Abstract!Next
  <1>4. ASSUME UNCHANGED vars PROVE AbstractStep
    BY <1>4, Stutter DEF vars, calls, Unseen, Port, Over, Progress
  <1>5. AllInv /\ [Next]_vars => AbstractStep
    BY <1>3, <1>4, CallRefines, ThreadRefines DEF Next, PythonStep, AllInv
  <1>6. TypeOK /\ LifeInv /\ ClientInv /\ OnceInv /\ [Next]_vars => OnceInv'
    BY OnceStep
  <1>7. TypeOK /\ LifeInv /\ ClientInv /\ OnceInv => AllInv
    BY DEF AllInv
  <1>8. QED
    BY <1>1, <1>2, <1>5, <1>6, <1>7, WinServerTypes, LifeInvariant, PTL
       DEF Spec, Abstract!Spec, AbstractStep
=============================================================================
