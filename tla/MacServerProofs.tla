--------------------------- MODULE MacServerProofs ---------------------------
(* Proofs about MacServer, for any clients, deaf or stopping ones, bound on *)
(* faults and mode, restarts included.                                      *)
EXTENDS MacServer, TLAPS

(* Every variable stays in its type under every step of the server.         *)
LEMMA TypeStep == TypeOK /\ [Next]_vars => TypeOK'
  <1> USE DEF TypeOK, calls, queue, history, Step
  <1>1. TypeOK /\ StartFail => TypeOK'
    <2> SUFFICES ASSUME TypeOK, StartFail PROVE TypeOK'
      OBVIOUS
    <2>1. faults' \in 0..MaxFaults
      BY FaultsAssumption DEF StartFail, Fault
    <2>2. QED
      BY <2>1 DEF StartFail
  <1>2. TypeOK /\ Start => TypeOK'
    <2>1. Start => late' \in Nat
      BY DEF Start
    <2>2. QED
      BY <2>1, Zenon DEF Start
  <1>3. TypeOK /\ OwnerStop => TypeOK'
    BY Zenon DEF OwnerStop, StopBy
  <1>4. TypeOK /\ CallStep => TypeOK'
    <2>1. TypeOK /\ StopTrigger => TypeOK'
      BY DEF StopTrigger
    <2>2. TypeOK /\ StopReturn => TypeOK'
      BY DEF StopReturn, StopEnds
    <2>3. TypeOK /\ StopTimeout => TypeOK'
      BY DEF StopTimeout, StopEnds
    <2>4. QED
      BY <2>1, <2>2, <2>3 DEF CallStep
  <1>5. TypeOK /\ PythonStep => TypeOK'
    <2>1. TypeOK /\ CallbackStop => TypeOK'
      BY Zenon DEF CallbackStop, StopBy
    <2>2. TypeOK /\ (Callback \/ Alert) => TypeOK'
      BY FaultsAssumption DEF Callback, Alert, Fault, NoFault, LocalStep
    <2>3. QED
      BY <2>1, <2>2 DEF PythonStep
  <1>6. TypeOK /\ NativeStep => TypeOK'
    <2>1. TypeOK /\ (LoopTest \/ KeventFail \/ AcceptNothing \/ Recv) => TypeOK'
      BY FaultsAssumption DEF LoopTest, KeventFail, AcceptNothing, Recv, Fault, NoFault, LocalStep
    <2>2. TypeOK /\ Kevent => TypeOK'
      BY DEF Kevent
    <2>3. TypeOK /\ AcceptClient => TypeOK'
      BY FaultsAssumption DEF AcceptClient, Fault, NoFault, Mark, Queued
    <2>4. TypeOK /\ Send => TypeOK'
      BY DEF Send, Mark
    <2>5. TypeOK /\ CloseClient => TypeOK'
      BY FaultsAssumption DEF CloseClient, Fault, NoFault
    <2>6. TypeOK /\ Fallback => TypeOK'
      BY FaultsAssumption DEF Fallback, Fault, NoFault
    <2>7. TypeOK /\ (CloseSocket \/ UnsetSocket) => TypeOK'
      BY FaultsAssumption DEF CloseSocket, UnsetSocket, Fault, NoFault
    <2>8. QED
      BY <2>1, <2>2, <2>3, <2>4, <2>5, <2>6, <2>7 DEF NativeStep
  <1>7. TypeOK /\ (SendAgain \/ TimerDue) => TypeOK'
    BY DEF SendAgain, TimerDue
  <1>8. TypeOK /\ (\E c \in Clients : Connect(c)) => TypeOK'
    BY DEF Connect, Mark
  <1>9. TypeOK /\ UNCHANGED vars => TypeOK'
    BY DEF vars
  <1>10. QED
    BY <1>1, <1>2, <1>3, <1>4, <1>5, <1>6, <1>7, <1>8, <1>9, Zenon DEF Next

(* Type correctness of the server on macOS.                                 *)
THEOREM MacServerTypes == Spec => []TypeOK
  <1>1. Init => TypeOK
    <2>1. Init => faults \in 0..MaxFaults /\ late \in Nat
      BY FaultsAssumption DEF Init
    <2>2. QED
      BY <2>1, Zenon DEF Init, TypeOK
  <1>2. QED
    BY <1>1, TypeStep, PTL DEF Spec

-----------------------------------------------------------------------------
(* LifeInv is inductive: only the thread closes and forgets the socket, and *)
(* no stop() of a callback returns normally while its thread is there.      *)
LEMMA LifeStep == TypeOK /\ LifeInv /\ [Next]_vars => LifeInv'
  <1> SUFFICES ASSUME TypeOK, LifeInv, [Next]_vars PROVE LifeInv'
    OBVIOUS
  <1> USE DEF TypeOK, LifeInv, GilFree
  <1> USE DEF calls, queue, history, Fault, NoFault, Step, LocalStep, Mark
  <1>1. CASE StartFail \/ Start \/ OwnerStop
    BY <1>1 DEF StartFail, Start, MayStart, OwnerStop, StopBy
  <1>2. CASE CallStep
    BY <1>2 DEF CallStep, StopTrigger, StopReturn, StopTimeout, StopEnds
  <1>3. CASE PythonStep
    BY <1>3 DEF PythonStep, Callback, CallbackStop, StopBy, Alert
  <1>4. CASE NativeStep
    <2>1. CASE LoopTest \/ Kevent \/ KeventFail \/ AcceptClient \/ AcceptNothing \/ Recv
      BY <2>1 DEF LoopTest, Kevent, KeventFail, AcceptClient, AcceptNothing, Recv
    <2>2. CASE Send \/ CloseClient \/ Fallback
      BY <2>2 DEF Send, CloseClient, Fallback
    <2>3. CASE CloseSocket \/ UnsetSocket
      BY <2>3 DEF CloseSocket, UnsetSocket
    <2>4. QED
      BY <1>4, <2>1, <2>2, <2>3 DEF NativeStep
  <1>5. CASE SendAgain \/ TimerDue
    BY <1>5 DEF SendAgain, TimerDue
  <1>6. ASSUME NEW c \in Clients, Connect(c) PROVE LifeInv'
    BY <1>6 DEF Connect
  <1>7. CASE UNCHANGED vars
    BY <1>7 DEF vars
  <1>8. QED
    BY <1>1, <1>2, <1>3, <1>4, <1>5, <1>6, <1>7 DEF Next

(* ClientInv is inductive: `client` is set with the connection it names and *)
(* forgotten once that is closed; the queue goes with the socket.           *)
LEMMA ClientStep == TypeOK /\ LifeInv /\ ClientInv /\ [Next]_vars => ClientInv'
  <1> SUFFICES ASSUME TypeOK, LifeInv, ClientInv, [Next]_vars PROVE ClientInv'
    OBVIOUS
  <1> USE ClientsAssumption DEF TypeOK, ClientInv, Serving, Queued
  <1> USE DEF calls, queue, history, Fault, NoFault, Step, LocalStep, Mark
  <1>1. CASE StartFail \/ Start \/ OwnerStop
    BY <1>1 DEF StartFail, Start, MayStart, OwnerStop, StopBy, LifeInv
  <1>2. CASE CallStep
    BY <1>2 DEF CallStep, StopTrigger, StopReturn, StopTimeout, StopEnds, LifeInv
  <1>3. CASE PythonStep
    BY <1>3 DEF PythonStep, Callback, CallbackStop, StopBy, Alert
  <1>4. CASE NativeStep
    <2>1. CASE LoopTest \/ Kevent \/ KeventFail \/ AcceptNothing \/ Recv
      BY <2>1 DEF LoopTest, Kevent, KeventFail, AcceptNothing, Recv
    <2>2. CASE AcceptClient
      BY <2>2 DEF AcceptClient
    <2>3. CASE Send \/ CloseClient \/ Fallback
      BY <2>3 DEF Send, CloseClient, Fallback
    <2>4. CASE CloseSocket \/ UnsetSocket
      BY <2>4 DEF CloseSocket, UnsetSocket, LifeInv
    <2>5. QED
      BY <1>4, <2>1, <2>2, <2>3, <2>4 DEF NativeStep
  <1>5. CASE SendAgain \/ TimerDue
    BY <1>5 DEF SendAgain, TimerDue
  <1>6. ASSUME NEW c \in Clients, Connect(c) PROVE ClientInv'
    BY <1>6 DEF Connect
  <1>7. CASE UNCHANGED vars
    BY <1>7 DEF vars
  <1>8. QED
    BY <1>1, <1>2, <1>3, <1>4, <1>5, <1>6, <1>7 DEF Next

(* Every behaviour keeps what the server's invariants rest on.              *)
LEMMA LifeInvariant == Spec => [](LifeInv /\ ClientInv)
  <1>1. Init => LifeInv /\ ClientInv
    BY DEF Init, LifeInv, GilFree, ClientInv, Queued
  <1>2. QED
    BY <1>1, MacServerTypes, LifeStep, ClientStep, PTL DEF Spec

-----------------------------------------------------------------------------
(* LateInv is inductive: accept() is reached from a loop test that found    *)
(* `running`, and nothing but a start() sets it again.                      *)
LEMMA LateStep == TypeOK /\ LifeInv /\ LateInv /\ [Next]_vars => LateInv'
  <1> SUFFICES ASSUME TypeOK, LifeInv, LateInv, [Next]_vars PROVE LateInv'
    OBVIOUS
  <1> USE DEF TypeOK, LifeInv, LateInv, OneLateClient
  <1> USE DEF calls, queue, history, Step, LocalStep
  <1>1. CASE StartFail \/ Start \/ OwnerStop \/ CallStep
    BY <1>1 DEF StartFail, Start, OwnerStop, StopBy, CallStep, StopTrigger, StopReturn,
         StopTimeout, StopEnds
  <1>2. CASE PythonStep
    BY <1>2 DEF PythonStep, Callback, CallbackStop, StopBy, Alert
  <1>3. CASE LoopTest \/ Kevent \/ KeventFail \/ AcceptNothing \/ Recv
    BY <1>3 DEF LoopTest, Kevent, KeventFail, AcceptNothing, Recv
  <1>4. CASE AcceptClient
    BY <1>4 DEF AcceptClient
  <1>5. CASE Send \/ CloseClient \/ Fallback \/ CloseSocket \/ UnsetSocket
    BY <1>5 DEF Send, CloseClient, Fallback, CloseSocket, UnsetSocket
  <1>6. CASE SendAgain \/ TimerDue
    BY <1>6 DEF SendAgain, TimerDue
  <1>7. ASSUME NEW c \in Clients, Connect(c) PROVE LateInv'
    BY <1>7 DEF Connect
  <1>8. CASE UNCHANGED vars
    BY <1>8 DEF vars
  <1>9. QED
    BY <1>1, <1>2, <1>3, <1>4, <1>5, <1>6, <1>7, <1>8 DEF Next, NativeStep

(* No client is lost, at most one is accepted after the stop, and nothing   *)
(* of the server outlives a normal return of stop() (MacServer.h:221-294).  *)
THEOREM MacServerKept == Spec => []ServerKept
  <1>1. Init => LateInv
    BY DEF Init, LateInv, OneLateClient
  <1>2. LifeInv /\ ClientInv => StoppedIsQuiet
    BY DEF LifeInv, ClientInv, Serving, Queued, StoppedIsQuiet
  <1>3. TypeOK /\ LifeInv /\ ClientInv /\ LateInv => ServerKept
    BY <1>2 DEF ClientInv, LateInv, ServerKept, NoClientLeak
  <1>4. QED
    BY <1>1, <1>3, MacServerTypes, LifeInvariant, LateStep, PTL DEF Spec

-----------------------------------------------------------------------------
(* WakeInv is inductive: a start() that finds a trigger is the only way to  *)
(* a server that ends unasked.                                              *)
LEMMA WakeStep == TypeOK /\ LifeInv /\ WakeInv /\ [Next]_vars => WakeInv'
  <1> SUFFICES ASSUME TypeOK, LifeInv, WakeInv, [Next]_vars PROVE WakeInv'
    OBVIOUS
  <1> USE DEF TypeOK, LifeInv, GilFree, WakeInv, LeavesOnlyWhenStopped
  <1> USE DEF calls, queue, history, Step, LocalStep
  <1>1. CASE StartFail \/ Start \/ OwnerStop
    BY <1>1 DEF StartFail, Start, OwnerStop, StopBy
  <1>2. CASE CallStep
    BY <1>2 DEF CallStep, StopTrigger, StopReturn, StopTimeout, StopEnds
  <1>3. CASE PythonStep
    BY <1>3 DEF PythonStep, Callback, CallbackStop, StopBy, Alert
  <1>4. CASE LoopTest \/ Kevent \/ KeventFail \/ AcceptClient \/ AcceptNothing \/ Recv
    BY <1>4 DEF LoopTest, Kevent, KeventFail, AcceptClient, AcceptNothing, Recv
  <1>5. CASE Send \/ CloseClient \/ Fallback \/ CloseSocket \/ UnsetSocket
    BY <1>5 DEF Send, CloseClient, Fallback, CloseSocket, UnsetSocket
  <1>6. CASE SendAgain \/ TimerDue
    BY <1>6 DEF SendAgain, TimerDue
  <1>7. ASSUME NEW c \in Clients, Connect(c) PROVE WakeInv'
    BY <1>7 DEF Connect
  <1>8. CASE UNCHANGED vars
    BY <1>8 DEF vars
  <1>9. QED
    BY <1>1, <1>2, <1>3, <1>4, <1>5, <1>6, <1>7, <1>8 DEF Next, NativeStep

(* The thread gives up its socket for a stop() only, or for the trigger of  *)
(* an earlier one that start() found in kq (MacServer.h:96 and 221-231).           *)
THEOREM MacServerLeavesOnlyWhenStopped == Spec => []LeavesOnlyWhenStopped
  <1>1. Init => WakeInv
    BY DEF Init, WakeInv, LeavesOnlyWhenStopped
  <1>2. WakeInv => LeavesOnlyWhenStopped
    BY DEF WakeInv
  <1>3. QED
    BY <1>1, <1>2, MacServerTypes, LifeInvariant, WakeStep, PTL DEF Spec

-----------------------------------------------------------------------------
(* A server that is started once implements ServerPromise                   *)

(* OnceInv is inductive where a stopped server is not started again.        *)
LEMMA OnceStep ==
    ASSUME ~Restart, TypeOK, LifeInv, ClientInv, WakeInv, OnceInv, [Next]_vars
    PROVE  OnceInv'
  <1> USE ClientsAssumption DEF TypeOK, LifeInv, GilFree, OnceInv
  <1> USE DEF calls, queue, history, NoFault, Step, LocalStep, Mark, Queued
  <1>1. CASE StartFail \/ Start \/ OwnerStop
    BY <1>1 DEF StartFail, Start, MayStart, OwnerStop, StopBy
  <1>2. CASE CallStep
    BY <1>2 DEF CallStep, StopTrigger, StopReturn, StopTimeout, StopEnds, WakeInv
  <1>3. CASE PythonStep
    BY <1>3 DEF PythonStep, Callback, CallbackStop, StopBy, Alert
  <1>4. CASE LoopTest \/ Kevent \/ KeventFail \/ AcceptNothing \/ Recv
    BY <1>4 DEF LoopTest, Kevent, KeventFail, AcceptNothing, Recv
  <1>5. CASE AcceptClient
    BY <1>5 DEF AcceptClient
  <1>6. CASE Send \/ SendAgain \/ TimerDue
    BY <1>6 DEF Send, SendAgain, TimerDue
  <1>7. CASE CloseClient \/ Fallback \/ CloseSocket \/ UnsetSocket
    BY <1>7 DEF CloseClient, Fallback, CloseSocket, UnsetSocket
  <1>8. ASSUME NEW c \in Clients, Connect(c) PROVE OnceInv'
    BY <1>8 DEF Connect
  <1>9. CASE UNCHANGED vars
    BY <1>9 DEF vars
  <1>10. QED
    BY <1>1, <1>2, <1>3, <1>4, <1>5, <1>6, <1>7, <1>8, <1>9 DEF Next, NativeStep

(* What the promise sees of a step.                                         *)
Over == phase = "stopped"
AllInv == TypeOK /\ LifeInv /\ ClientInv /\ WakeInv /\ OnceInv
AbstractStep == [Abstract!Next]_Abstract!vars
Unseen == Port' = Port /\ (Over' <=> Over) /\ status' = status

(* Whether the end was asked for is a truth value.                          *)
LEMMA SameEnding == (Ending' <=> Ending) => Ending' = Ending
  BY DEF Ending

(* A step that the promise does not see.                                    *)
LEMMA Stutter == Unseen /\ (Ending' <=> Ending) => AbstractStep
  BY SameEnding DEF Unseen, AbstractStep, Abstract!vars, Over

(* A step after which the end is asked for, and nothing else.               *)
LEMMA Ends == Unseen /\ Ending' => AbstractStep
  BY DEF Unseen, AbstractStep, Abstract!Next, Abstract!End, Over

(* A start() opens the port, a stop() asks for the end, and where it comes  *)
(* back normally that has come.                                             *)
LEMMA CallRefines ==
    ASSUME ~Restart, AllInv, StartFail \/ Start \/ OwnerStop \/ CallbackStop \/ CallStep
    PROVE  AbstractStep
  <1> USE DEF AllInv, TypeOK, LifeInv, GilFree
  <1>1. status' = status
    BY DEF StartFail, Start, OwnerStop, CallbackStop, StopBy, CallStep, StopTrigger,
           StopReturn, StopTimeout, StopEnds
  <1>2. CASE StartFail
    <2>1. Port = "closed" /\ Port' = "closed" /\ ~Over /\ ~Over' /\ ~Ending /\ ~Ending'
      BY <1>2 DEF StartFail, MayStart, Port, Over, Ending
    <2>2. QED
      BY <1>1, <2>1, Stutter DEF Unseen
  <1>3. CASE Start
    <2>1. /\ Port = "closed" /\ Port' = "open" /\ ~Ending /\ ~Ending' /\ ~Over /\ ~Over'
      BY <1>3 DEF Start, MayStart, Port, Over, Ending
    <2>2. Abstract!Open
      BY <1>1, <2>1, SameEnding DEF Abstract!Open, Over
    <2>3. QED
      BY <2>2 DEF AbstractStep, Abstract!Next
  <1>4. CASE OwnerStop \/ CallbackStop
    <2>1. Port' = Port /\ phase' = phase /\ asked' /\ call = "none" /\ call' = "trigger"
      BY <1>4 DEF OwnerStop, CallbackStop, StopBy, Port
    <2>2. CASE phase \in {"new", "failed"}
      <3>1. ~Ending /\ ~Ending'
        BY <2>1, <2>2 DEF Ending
      <3>2. QED
        BY <1>1, <2>1, <3>1, Stutter DEF Unseen, Over
    <2>3. CASE phase \notin {"new", "failed"}
      <3>1. Ending'
        BY <2>1, <2>3 DEF Ending
      <3>2. QED
        BY <1>1, <2>1, <3>1, Ends DEF Unseen, Over
    <2>4. QED
      BY <2>2, <2>3
  <1>5. CASE StopTrigger
    <2>1. /\ Port' = Port /\ phase' = phase /\ sock' = sock /\ asked' = asked
          /\ call = "trigger"
      BY <1>5 DEF StopTrigger, history, Port
    <2>2. CASE Ending'
      BY <1>1, <2>1, <2>2, Ends DEF Unseen, Over
    <2>3. CASE ~Ending'
      <3>1. ~Ending
        BY <2>1, <2>3 DEF Ending
      <3>2. QED
        BY <1>1, <2>1, <2>3, <3>1, Stutter DEF Unseen, Over
    <2>4. QED
      BY <2>2, <2>3
  <1>6. CASE StopReturn
    <2>1. caller = "owner" /\ phase' = "stopped"
      BY <1>6 DEF StopReturn, StopEnds
    <2>2. Port = "closed" /\ Port' = Port
      BY <1>6 DEF StopReturn, StopEnds, Port
    <2>3. Ending /\ Ending'
      BY <1>6, <2>1 DEF StopReturn, StopEnds, history, WakeInv, Ending
    <2>4. Abstract!Conclude
      BY <1>1, <2>1, <2>2, <2>3 DEF Abstract!Conclude, Over
    <2>5. QED
      BY <2>4 DEF AbstractStep, Abstract!Next
  <1>7. CASE StopTimeout
    <2>1. Port' = Port /\ ~Over /\ ~Over'
      BY <1>7 DEF StopTimeout, StopEnds, Port, Over
    <2>2. CASE phase = "failed"
      <3>1. ~Ending /\ ~Ending'
        BY <1>7, <2>2 DEF StopTimeout, StopEnds, Ending
      <3>2. QED
        BY <1>1, <2>1, <3>1, Stutter DEF Unseen
    <2>3. CASE phase # "failed"
      <3>1. phase' \notin {"new", "failed"} /\ asked'
        BY <1>7, <2>3 DEF StopTimeout, StopEnds, history, WakeInv, OnceInv
      <3>2. Ending'
        BY <3>1 DEF Ending
      <3>3. QED
        BY <1>1, <2>1, <3>2, Ends DEF Unseen
    <2>4. QED
      BY <2>2, <2>3
  <1>8. QED
    BY <1>2, <1>3, <1>4, <1>5, <1>6, <1>7 DEF CallStep

(* accept() serves a client, the response or a close finishes it, and the   *)
(* close of the socket gives up the port.                                   *)
LEMMA ThreadRefines ==
    ASSUME AllInv, Callback \/ Alert \/ NativeStep \/ SendAgain \/ TimerDue
    PROVE  AbstractStep
  <1> USE ClientsAssumption DEF AllInv, TypeOK
  <1> USE DEF Step, LocalStep, calls, queue, history
  <1>0. pc # "none" \/ TimerDue
    BY DEF Callback, Alert, NativeStep, LoopTest, Kevent, KeventFail, AcceptClient,
           AcceptNothing, Recv, Send, SendAgain, CloseClient, Fallback, CloseSocket,
           UnsetSocket
  <1>1. phase' = phase /\ asked' = asked /\ call' = call
    BY DEF Callback, Alert, NativeStep, LoopTest, Kevent, KeventFail, AcceptClient,
           AcceptNothing, Recv, Send, SendAgain, TimerDue, CloseClient, Fallback, CloseSocket,
           UnsetSocket
  <1>2. (Over' <=> Over) /\ (Ending' <=> Ending)
    <2>1. CASE TimerDue
      BY <1>1, <2>1 DEF TimerDue, Over, Ending
    <2>2. CASE pc # "none"
      <3>1. phase \notin {"new", "failed"}
        BY <2>2 DEF LifeInv
      <3>2. QED
        BY <1>1, <3>1 DEF Over, Ending
    <2>3. QED
      BY <1>0, <2>1, <2>2
  <1>3. ASSUME Port' = Port, status' = status PROVE AbstractStep
    BY <1>2, <1>3, Stutter DEF Unseen
  <1>4. CASE \/ Callback \/ Alert \/ LoopTest \/ Kevent \/ KeventFail \/ AcceptNothing
             \/ Recv \/ SendAgain \/ TimerDue \/ CloseClient
    <2>1. status' = status /\ sock' = sock
      BY <1>4 DEF Callback, Alert, LoopTest, Kevent, KeventFail, AcceptNothing, Recv,
                  SendAgain, TimerDue, CloseClient
    <2>2. QED
      BY <1>3, <2>1 DEF Port
  <1>5. CASE UnsetSocket
    <2>1. Port' = Port /\ status' = status
      BY <1>5 DEF UnsetSocket, LifeInv, Port
    <2>2. QED
      BY <1>3, <2>1
  <1>6. CASE AcceptClient
    <2>1. PICK c \in Queued : status' = [status EXCEPT ![c] = "open"]
      BY <1>6 DEF AcceptClient, Mark
    <2>2. c \in Clients /\ status[c] = "queued"
      BY <2>1 DEF Queued
    <2>3. \A d \in Clients : status[d] # "open"
      BY <1>6 DEF AcceptClient, ClientInv, Serving
    <2>4. Port' = Port
      BY <1>6 DEF AcceptClient, Port
    <2>5. Abstract!Serve(c)
      BY <1>2, <2>1, <2>2, <2>3, <2>4, SameEnding DEF Abstract!Serve, Over
    <2>6. QED
      BY <2>2, <2>5 DEF AbstractStep, Abstract!Next
  <1>7. ASSUME NEW c \in Clients, NEW end \in {"answered", "dropped"}, Port' = Port,
               status[c] = "open", status' = [status EXCEPT ![c] = end]
        PROVE  AbstractStep
    <2>1. Abstract!Finish(c)
      BY <1>2, <1>7, SameEnding DEF Abstract!Finish, Over
    <2>2. QED
      BY <2>1 DEF AbstractStep, Abstract!Next
  <1>8. CASE Send
    <2>1. client \in Clients /\ status[client] = "open"
      BY <1>8 DEF Send, OnceInv
    <2>2. Port' = Port /\ (status' = status \/ status' = [status EXCEPT ![client] = "answered"])
      BY <1>8 DEF Send, Mark, Port
    <2>3. QED
      BY <1>3, <1>7, <2>1, <2>2
  <1>9. CASE Fallback
    <2>1. Port' = Port
      BY <1>9 DEF Fallback, Port
    <2>2. status' = [c \in Clients |-> IF c = client /\ status[c] = "open"
                                       THEN "dropped" ELSE status[c]]
      BY <1>9 DEF Fallback
    <2>3. CASE client \in Clients /\ status[client] = "open"
      <3>1. status' = [status EXCEPT ![client] = "dropped"]
        BY <2>2, <2>3
      <3>2. QED
        BY <1>7, <2>1, <2>3, <3>1
    <2>4. CASE ~(client \in Clients /\ status[client] = "open")
      <3>1. status' = status
        BY <2>2, <2>4
      <3>2. QED
        BY <1>3, <2>1, <3>1
    <2>5. QED
      BY <2>3, <2>4
  <1>10. CASE CloseSocket
    <2>1. Port = "open" /\ Port' = "closed"
      BY <1>10 DEF CloseSocket, LifeInv, Port
    <2>2. Ending
      BY <1>10 DEF CloseSocket, LifeInv, WakeInv, LeavesOnlyWhenStopped, OnceInv, Ending
    <2>3. \A c \in Clients : status[c] # "open"
      BY <1>10 DEF CloseSocket, ClientInv, Serving
    <2>4. status' = [c \in Clients |-> IF status[c] = "queued" THEN "dropped" ELSE status[c]]
      BY <1>10 DEF CloseSocket, Queued
    <2>5. Abstract!Close
      BY <1>2, <2>1, <2>2, <2>3, <2>4, SameEnding DEF Abstract!Close, Over
    <2>6. QED
      BY <2>5 DEF AbstractStep, Abstract!Next
  <1>11. QED
    BY <1>4, <1>5, <1>6, <1>8, <1>9, <1>10 DEF NativeStep

(* macOS: a server that is started once implements ServerPromise: clients   *)
(* are served one at a time, each is answered or dropped, the port is given *)
(* up only when stop() was called, and nothing is left of it when that has  *)
(* returned normally.                                                       *)
THEOREM MacServerImplementsPromise ==
    ASSUME ~Restart
    PROVE  Spec => Abstract!Spec
  <1>1. Init => Abstract!Init
    BY DEF Init, Abstract!Init, Port, Ending
  <1>2. Init => WakeInv /\ OnceInv
    BY DEF Init, WakeInv, LeavesOnlyWhenStopped, OnceInv
  <1>3. ASSUME NEW c \in Clients, Connect(c) PROVE AbstractStep
    <2>1. /\ Port = "open" /\ Port' = Port /\ (Ending' <=> Ending) /\ phase' = phase
          /\ status[c] = "out" /\ status' = [status EXCEPT ![c] = "queued"]
      BY <1>3 DEF Connect, Mark, calls, history, Port, Ending
    <2>2. Abstract!Connect(c)
      BY <2>1 DEF Abstract!Connect
    <2>3. QED
      BY <2>2 DEF AbstractStep, Abstract!Next
  <1>4. ASSUME UNCHANGED vars PROVE AbstractStep
    BY <1>4, Stutter DEF vars, calls, history, Unseen, Port, Over, Ending
  <1>5. AllInv /\ [Next]_vars => AbstractStep
    BY <1>3, <1>4, CallRefines, ThreadRefines DEF Next, PythonStep
  <1>6. TypeOK /\ LifeInv /\ ClientInv /\ WakeInv /\ OnceInv /\ [Next]_vars => WakeInv' /\ OnceInv'
    BY WakeStep, OnceStep
  <1>7. TypeOK /\ LifeInv /\ ClientInv /\ WakeInv /\ OnceInv => AllInv
    BY DEF AllInv
  <1>8. QED
    BY <1>1, <1>2, <1>5, <1>6, <1>7, MacServerTypes, LifeInvariant, PTL
       DEF Spec, Abstract!Spec, AbstractStep
=============================================================================
