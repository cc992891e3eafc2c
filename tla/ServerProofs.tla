---------------------------- MODULE ServerProofs ----------------------------
(* Proofs about Server, for any threads, clients, descriptors and order of  *)
(* calls.                                                                   *)
EXTENDS ServerProperties, TLAPS

USE DEF NoFd

(* Every variable stays in its type under every step of the server.         *)
LEMMA TypeStep == TypeOK /\ [Next]_vars => TypeOK'
  <1> SUFFICES ASSUME TypeOK, [Next]_vars PROVE TypeOK'
    OBVIOUS
  <1> USE FaultsAssumption, ClientsAssumption DEF TypeOK, InLoop, Leaving
  <1> USE DEF object, calls, thread, Fault, NoFault, Goto, Step, LocalStep, Keep, Forget
  <1>1. CASE StartSocket
    BY <1>1 DEF StartSocket, Raise, Lowest, Free
  <1>2. CASE OwnerStop
    BY <1>2 DEF OwnerStop, StopBy
  <1>3. CASE CallStep
    <2>1. CASE StartBind
      BY <2>1 DEF StartBind, Raise, Proceed
    <2>2. CASE StartListen
      BY <2>2 DEF StartListen, Raise, Proceed, Bindable
    <2>3. CASE StartRun
      BY <2>3 DEF StartRun
    <2>4. CASE StopWake
      BY <2>4 DEF StopWake, Proceed
    <2>5. CASE StopReturn
      BY <2>5 DEF StopReturn, StopEnds
    <2>6. CASE StopTimeout
      BY <2>6 DEF StopTimeout, StopEnds
    <2>7. QED
      BY <1>3, <2>1, <2>2, <2>3, <2>4, <2>5, <2>6 DEF CallStep
  <1>4. ASSUME NEW t \in Threads, PythonStep(t) PROVE TypeOK'
    <2>1. CASE CallbackReturn(t)
      BY <2>1 DEF CallbackReturn
    <2>2. CASE CallbackRaise(t)
      BY <2>2 DEF CallbackRaise
    <2>3. CASE CallbackStop(t)
      BY <2>3 DEF CallbackStop, StopBy
    <2>4. CASE Alert(t)
      <3>1. client' \in [Threads -> Fds \cup {NoFd}] /\ peer' \in [Threads -> Clients \cup {NoClient}]
        BY <2>4 DEF Alert
      <3>2. pc' \in [Threads -> InLoop \cup Leaving \cup {"none"}]
        BY <2>4 DEF Alert
      <3>3. QED
        BY <2>4, <3>1, <3>2 DEF Alert
    <2>5. QED
      BY <1>4, <2>1, <2>2, <2>3, <2>4 DEF PythonStep
  <1>5. ASSUME NEW t \in Threads, NativeStep(t) PROVE TypeOK'
    <2>1. CASE LoopTest(t) \/ PollWake(t) \/ PollClient(t) \/ PollFail(t) \/ Drain(t)
      <3>1. pc' \in [Threads -> InLoop \cup Leaving \cup {"none"}]
        BY <2>1 DEF LoopTest, PollWake, PollClient, PollFail, Drain
      <3>2. faults' \in 0..MaxFaults
        BY <2>1 DEF LoopTest, PollWake, PollClient, PollFail, Drain
      <3>3. wake' \in BOOLEAN
        BY <2>1 DEF LoopTest, PollWake, PollClient, PollFail, Drain
      <3>4. QED
        BY <2>1, <3>1, <3>2, <3>3 DEF LoopTest, PollWake, PollClient, PollFail, Drain
    <2>2. CASE AcceptClient(t)
      <3>1. PICK c \in Queued, f \in Lowest :
              /\ files' = [files EXCEPT ![f] = "conn"]
              /\ client' = [client EXCEPT ![t] = f]
              /\ peer' = [peer EXCEPT ![t] = c]
              /\ status' = [status EXCEPT ![c] = "open"]
        BY <2>2 DEF AcceptClient
      <3>2. c \in Clients /\ f \in Fds
        BY DEF Queued, Lowest, Free
      <3>3. files' \in [Fds -> {"closed", "fresh", "listening", "conn", "foreign"}]
        BY <3>1
      <3>4. QED
        BY <2>2, <3>1, <3>2, <3>3 DEF AcceptClient
    <2>3. CASE AcceptFail(t) \/ Recv(t)
      BY <2>3 DEF AcceptFail, Recv
    <2>4. CASE Send(t)
      BY <2>4 DEF Send
    <2>5. CASE CloseClient(t)
      <3>1. files' \in [Fds -> {"closed", "fresh", "listening", "conn", "foreign"}]
        BY <2>5 DEF CloseClient, CloseFd
      <3>2. client' \in [Threads -> Fds \cup {NoFd}]
        BY <2>5 DEF CloseClient
      <3>3. peer' \in [Threads -> Clients \cup {NoClient}]
        BY <2>5 DEF CloseClient
      <3>4. pc' \in [Threads -> InLoop \cup Leaving \cup {"none"}]
        BY <2>5 DEF CloseClient
      <3>5. QED
        BY <2>5, <3>1, <3>2, <3>3, <3>4 DEF CloseClient
    <2>6. CASE NoFallback(t) \/ NoSocket(t) \/ UnsetSocket(t)
      BY <2>6 DEF NoFallback, NoSocket, UnsetSocket
    <2>7. CASE Fallback(t)
      <3>1. files' \in [Fds -> {"closed", "fresh", "listening", "conn", "foreign"}]
        BY <2>7 DEF Fallback, CloseFd
      <3>2. client' \in [Threads -> Fds \cup {NoFd}]
        BY <2>7 DEF Fallback
      <3>3. peer' \in [Threads -> Clients \cup {NoClient}]
        BY <2>7 DEF Fallback
      <3>4. pc' \in [Threads -> InLoop \cup Leaving \cup {"none"}]
        BY <2>7 DEF Fallback
      <3>5. status' \in [Clients -> {"out", "queued", "open", "answered", "dropped"}]
        BY <2>7 DEF Fallback
      <3>6. QED
        BY <2>7, <3>1, <3>2, <3>3, <3>4, <3>5 DEF Fallback
    <2>8. CASE CloseSocket(t)
      BY <2>8 DEF CloseSocket, CloseFd, ResetQueueOf, Queued
    <2>9. QED
      BY <1>5, <2>1, <2>2, <2>3, <2>4, <2>5, <2>6, <2>7, <2>8 DEF NativeStep
  <1>6. ASSUME NEW c \in Clients, Connect(c) PROVE TypeOK'
    BY <1>6 DEF Connect
  <1>7. CASE OtherOpens \/ OtherCloses
    BY <1>7 DEF OtherOpens, OtherCloses, CloseFd, Lowest, Free, Foreign
  <1>8. CASE UNCHANGED vars
    BY <1>8 DEF vars
  <1>9. QED
    BY <1>1, <1>2, <1>3, <1>4, <1>5, <1>6, <1>7, <1>8 DEF Next

(* Type correctness of the server.                                          *)
THEOREM ServerTypes == Spec => []TypeOK
  <1>1. Init => TypeOK
    <2> SUFFICES ASSUME Init PROVE TypeOK
      OBVIOUS
    <2>1. client \in [Threads -> Fds \cup {NoFd}] /\ peer \in [Threads -> Clients \cup {NoClient}]
      BY DEF Init
    <2>2. faults \in 0..MaxFaults
      BY FaultsAssumption DEF Init
    <2>3. pc \in [Threads -> InLoop \cup Leaving \cup {"none"}]
      BY DEF Init
    <2>4. files \in [Fds -> {"closed", "fresh", "listening", "conn", "foreign"}]
      BY DEF Init
    <2>5. status \in [Clients -> {"out", "queued", "open", "answered", "dropped"}]
      BY DEF Init
    <2> QED
      BY <2>1, <2>2, <2>3, <2>4, <2>5 DEF Init, TypeOK
  <1>2. QED
    BY <1>1, TypeStep, PTL DEF Spec

-----------------------------------------------------------------------------
(* The GIL is held exactly during a native call, start() is the owner's, and *)
(* a thread in stop() is inside its callback.                               *)
LEMMA CallStepInv == TypeOK /\ CallInv /\ [Next]_vars => CallInv'
  <1> SUFFICES ASSUME TypeOK, CallInv, [Next]_vars PROVE CallInv'
    OBVIOUS
  <1> USE ActorsAssumption DEF TypeOK, CallInv, GilFree, Starting
  <1> USE DEF object, calls, thread, Goto, Step, LocalStep, Proceed
  <1>1. CASE StartSocket
    BY <1>1 DEF StartSocket, Raise
  <1>2. CASE OwnerStop
    BY <1>2 DEF OwnerStop, StopBy
  <1>3. CASE CallStep
    <2>1. CASE StartBind \/ StartListen
      BY <2>1 DEF StartBind, StartListen, Raise
    <2>2. CASE StartRun
      BY <2>2 DEF StartRun
    <2>3. CASE StopWake
      BY <2>3 DEF StopWake
    <2>4. CASE StopReturn \/ StopTimeout
      BY <2>4 DEF StopReturn, StopTimeout, StopEnds
    <2>5. QED
      BY <1>3, <2>1, <2>2, <2>3, <2>4 DEF CallStep
  <1>4. ASSUME NEW t \in Threads, PythonStep(t) PROVE CallInv'
    <2>1. CASE CallbackReturn(t) \/ CallbackRaise(t)
      BY <2>1 DEF CallbackReturn, CallbackRaise
    <2>2. CASE CallbackStop(t)
      BY <2>2 DEF CallbackStop, StopBy
    <2>3. CASE Alert(t)
      BY <2>3 DEF Alert
    <2>4. QED
      BY <1>4, <2>1, <2>2, <2>3 DEF PythonStep
  <1>5. ASSUME NEW t \in Threads, NativeStep(t) PROVE CallInv'
    <2>1. pc[t] # "callback" /\ UNCHANGED calls
      BY <1>5 DEF NativeStep, LoopTest, PollWake, PollClient, PollFail, Drain,
           AcceptClient, AcceptFail, Recv, Send, CloseClient, NoFallback, Fallback,
           NoSocket, CloseSocket, UnsetSocket
    <2>2. \E label : pc' = [pc EXCEPT ![t] = label]
      BY <1>5 DEF NativeStep, LoopTest, PollWake, PollClient, PollFail, Drain,
           AcceptClient, AcceptFail, Recv, Send, CloseClient, NoFallback, Fallback,
           NoSocket, CloseSocket, UnsetSocket
    <2>3. QED
      BY <2>1, <2>2
  <1>6. ASSUME NEW c \in Clients, Connect(c) PROVE CallInv'
    BY <1>6 DEF Connect
  <1>7. CASE OtherOpens \/ OtherCloses
    BY <1>7 DEF OtherOpens, OtherCloses
  <1>8. CASE UNCHANGED vars
    BY <1>8 DEF vars
  <1>9. QED
    BY <1>1, <1>2, <1>3, <1>4, <1>5, <1>6, <1>7, <1>8 DEF Next

(* Every behaviour keeps the invariant on the calls.                        *)
LEMMA CallInvariant == Spec => []CallInv
  <1>1. Init => CallInv
    BY ActorsAssumption DEF Init, CallInv, GilFree, Starting
  <1>2. QED
    BY <1>1, ServerTypes, CallStepInv, PTL DEF Spec

-----------------------------------------------------------------------------
(* ReceiverInv is inductive: only StartRun makes a thread active, it needs  *)
(* a bind() that found no listening socket, and an active thread has one.   *)
LEMMA ReceiverStep == TypeOK /\ CallInv /\ ReceiverInv /\ [Next]_vars => ReceiverInv'
  <1> SUFFICES ASSUME TypeOK, CallInv, ReceiverInv, [Next]_vars PROVE ReceiverInv'
    OBVIOUS
  <1> USE DEF TypeOK, ReceiverInv, OneReceiver, Active, Listening, InLoop, Serving
  <1> USE DEF object, calls, thread, Fault, NoFault, Goto, Step, LocalStep, Keep, Forget
  <1>1. CASE StartSocket
    BY <1>1 DEF StartSocket, Raise, Lowest, Free
  <1>2. CASE OwnerStop
    BY <1>2 DEF OwnerStop, StopBy
  <1>3. CASE CallStep
    <2>1. CASE StartBind
      BY <2>1 DEF StartBind, Raise, Proceed
    <2>2. CASE StartListen
      BY <2>2 DEF StartListen, Raise, Proceed, Bindable
    <2>3. CASE StartRun
      BY <2>3 DEF StartRun
    <2>4. CASE StopWake
      BY <2>4 DEF StopWake, Proceed
    <2>5. CASE StopReturn \/ StopTimeout
      BY <2>5 DEF StopReturn, StopTimeout, StopEnds, CallInv
    <2>6. QED
      BY <1>3, <2>1, <2>2, <2>3, <2>4, <2>5 DEF CallStep
  <1>4. ASSUME NEW t \in Threads, PythonStep(t) PROVE ReceiverInv'
    <2>1. CASE CallbackReturn(t) \/ CallbackRaise(t)
      BY <2>1 DEF CallbackReturn, CallbackRaise
    <2>2. CASE CallbackStop(t)
      BY <2>2 DEF CallbackStop, StopBy
    <2>3. CASE Alert(t)
      BY <2>3 DEF Alert
    <2>4. QED
      BY <1>4, <2>1, <2>2, <2>3 DEF PythonStep
  <1>5. ASSUME NEW t \in Threads, NativeStep(t) PROVE ReceiverInv'
    <2>1. CASE LoopTest(t) \/ PollWake(t) \/ PollClient(t) \/ PollFail(t) \/ Drain(t)
      BY <2>1 DEF LoopTest, PollWake, PollClient, PollFail, Drain
    <2>2. CASE AcceptClient(t)
      BY <2>2 DEF AcceptClient, Queued, Lowest, Free
    <2>3. CASE AcceptFail(t) \/ Recv(t)
      BY <2>3 DEF AcceptFail, Recv
    <2>4. CASE Send(t)
      BY <2>4 DEF Send
    <2>5. CASE CloseClient(t)
      <3>1. \A f \in Fds : files'[f] = "listening" <=> files[f] = "listening"
        <4>1. client[t] # NoFd => files[client[t]] # "listening"
          OBVIOUS
        <4>2. \A f \in Fds : f # NoFd
          BY FdsAssumption
        <4>3. files' = [files EXCEPT ![client[t]] = "closed"]
          BY <2>5 DEF CloseClient, CloseFd
        <4>4. QED
          BY <4>1, <4>2, <4>3
      <3>2. \A u \in Threads : u # t => pc'[u] = pc[u] /\ client'[u] = client[u]
        BY <2>5 DEF CloseClient
      <3>3. client'[t] # NoFd => pc'[t] = "alert" /\ client'[t] = client[t]
        BY <2>5 DEF CloseClient
      <3>4. QED
        BY <2>5, <3>1, <3>2, <3>3 DEF CloseClient, CloseFd
    <2>6. CASE NoFallback(t) \/ NoSocket(t) \/ UnsetSocket(t)
      BY <2>6 DEF NoFallback, NoSocket, UnsetSocket
    <2>7. CASE Fallback(t)
      BY <2>7 DEF Fallback, CloseFd
    <2>8. CASE CloseSocket(t)
      BY <2>8 DEF CloseSocket, CloseFd
    <2>9. QED
      BY <1>5, <2>1, <2>2, <2>3, <2>4, <2>5, <2>6, <2>7, <2>8 DEF NativeStep
  <1>6. ASSUME NEW c \in Clients, Connect(c) PROVE ReceiverInv'
    BY <1>6 DEF Connect
  <1>7. CASE OtherOpens \/ OtherCloses
    BY <1>7 DEF OtherOpens, OtherCloses, CloseFd, Lowest, Free, Foreign
  <1>8. CASE UNCHANGED vars
    BY <1>8 DEF vars
  <1>9. QED
    BY <1>1, <1>2, <1>3, <1>4, <1>5, <1>6, <1>7, <1>8 DEF Next

(* Every behaviour keeps the invariant on the receivers.                    *)
LEMMA ReceiverInvariant == Spec => []ReceiverInv
  <1>1. Init => ReceiverInv
    BY DEF Init, ReceiverInv, OneReceiver, Active, InLoop
  <1>2. QED
    BY <1>1, ServerTypes, CallInvariant, ReceiverStep, PTL DEF Spec

(* At most one receive thread works on the server at any time, whatever the *)
(* number of threads and descriptors and the order of calls.                *)
THEOREM ServerOneReceiver == Spec => []OneReceiver
  <1>1. ReceiverInv => OneReceiver
    BY DEF ReceiverInv
  <1>2. QED
    BY <1>1, ReceiverInvariant, PTL

-----------------------------------------------------------------------------
(* LifeInv is inductive: without misuse start() finds no thread, the thread *)
(* it spawns alone closes `sock`, and only then can stop() return normally. *)
LEMMA LifeStep == TypeOK /\ CallInv /\ ReceiverInv /\ LifeInv /\ [Next]_vars => LifeInv'
  <1> SUFFICES ASSUME TypeOK, CallInv, ReceiverInv, LifeInv, [Next]_vars, ~misused' PROVE LifeInv'
    BY DEF LifeInv, NoOrphanListener, SelfStopNeverReturns
  <1> USE FdsAssumption DEF TypeOK, LifeInv, NoOrphanListener, SelfStopNeverReturns,
        Live, Starting, Active, Listening, InLoop
  <1> USE DEF object, calls, thread, Goto, Step, LocalStep, Forget, Keep
  <1>1. CASE StartSocket
    <2>1. misused = FALSE /\ phase \notin {"started", "stuck"} /\ call = "none"
      BY <1>1 DEF StartSocket, CallInv, GilFree
    <2>2. (\A t \in Threads : ~Live(t)) /\ Listening = {}
      BY <2>1
    <2>3. pc' = pc /\ Listening' = {}
      BY <1>1, <2>2 DEF StartSocket, Lowest, Free
    <2>4. \/ call' = "bind" /\ phase' = phase
          \/ call' = "none" /\ phase' = "failed"
      BY <1>1, <2>1 DEF StartSocket, Raise
    <2>5. QED
      BY <2>1, <2>2, <2>3, <2>4
  <1>2. CASE OwnerStop
    BY <1>2 DEF OwnerStop, StopBy, CallInv, GilFree
  <1>3. CASE CallStep
    <2>1. CASE StartBind
      BY <2>1 DEF StartBind, Raise, Proceed
    <2>2. CASE StartListen
      <3>1. misused = FALSE /\ pc' = pc /\ sock' = sock /\ \A t \in Threads : ~Live(t)
        BY <2>2 DEF StartListen
      <3>2. CASE call' = "run" /\ phase' = phase
        <4>1. files' = [files EXCEPT ![sock] = "listening"] /\ Listening = {}
          BY <2>2, <3>2 DEF StartListen, Raise, Proceed, Bindable
        <4>2. \A f \in Listening' : sock' = f
          BY <3>1, <4>1
        <4>3. QED
          BY <2>2, <3>1, <3>2, <4>2 DEF StartListen
      <3>3. CASE call' = "none" /\ phase' = "failed" /\ files' = files
        BY <2>2, <3>1, <3>3 DEF StartListen
      <3>4. QED
        BY <2>2, <3>2, <3>3 DEF StartListen, Raise, Proceed
    <2>3. CASE StartRun
      <3>1. misused = FALSE /\ (\A t \in Threads : ~Live(t)) /\ sock \in Listening
        BY <2>3 DEF StartRun, ReceiverInv
      <3>2. PICK t \in Threads : Goto(t, "top")
        BY <2>3 DEF StartRun
      <3>3. \A u \in Threads : Live(u)' <=> u = t
        BY <3>1, <3>2
      <3>4. pc'[t] = "top" /\ phase' = "started" /\ call' = "none"
        BY <2>3, <3>2 DEF StartRun
      <3>5. QED
        BY <2>3, <3>1, <3>3, <3>4 DEF StartRun
    <2>4. CASE StopWake
      BY <2>4 DEF StopWake, Proceed
    <2>5. CASE StopReturn
      BY <2>5 DEF StopReturn, StopEnds, CallInv
    <2>6. CASE StopTimeout
      BY <2>6 DEF StopTimeout, StopEnds, CallInv
    <2>7. QED
      BY <1>3, <2>1, <2>2, <2>3, <2>4, <2>5, <2>6 DEF CallStep
  <1>4. ASSUME NEW t \in Threads, PythonStep(t) PROVE LifeInv'
    <2>1. CASE CallbackReturn(t)
      BY <2>1 DEF CallbackReturn
    <2>2. CASE CallbackRaise(t)
      BY <2>2 DEF CallbackRaise
    <2>3. CASE CallbackStop(t)
      BY <2>3 DEF CallbackStop, StopBy, CallInv, GilFree
    <2>4. CASE Alert(t)
      BY <2>4 DEF Alert
    <2>5. QED
      BY <1>4, <2>1, <2>2, <2>3, <2>4 DEF PythonStep
  <1>5. ASSUME NEW t \in Threads, NativeStep(t) PROVE LifeInv'
    <2>1. CASE LoopTest(t) \/ PollWake(t) \/ PollClient(t) \/ PollFail(t) \/ Drain(t)
      BY <2>1 DEF LoopTest, PollWake, PollClient, PollFail, Drain
    <2>2. CASE AcceptClient(t)
      BY <2>2 DEF AcceptClient, Queued, Lowest, Free
    <2>3. CASE AcceptFail(t) \/ Recv(t)
      BY <2>3 DEF AcceptFail, Recv
    <2>4. CASE Send(t)
      BY <2>4 DEF Send
    <2>5. CASE CloseClient(t)
      BY <2>5 DEF CloseClient, CloseFd
    <2>6. CASE NoFallback(t) \/ NoSocket(t)
      BY <2>6 DEF NoFallback, NoSocket
    <2>7. CASE Fallback(t)
      BY <2>7 DEF Fallback, CloseFd
    <2>8. CASE CloseSocket(t)
      BY <2>8 DEF CloseSocket, CloseFd
    <2>9. CASE UnsetSocket(t)
      BY <2>9 DEF UnsetSocket
    <2>10. QED
      BY <1>5, <2>1, <2>2, <2>3, <2>4, <2>5, <2>6, <2>7, <2>8, <2>9 DEF NativeStep
  <1>6. ASSUME NEW c \in Clients, Connect(c) PROVE LifeInv'
    BY <1>6 DEF Connect
  <1>7. CASE OtherOpens \/ OtherCloses
    BY <1>7 DEF OtherOpens, OtherCloses, CloseFd, Lowest, Free, Foreign
  <1>8. CASE UNCHANGED vars
    BY <1>8 DEF vars
  <1>9. QED
    BY <1>1, <1>2, <1>3, <1>4, <1>5, <1>6, <1>7, <1>8 DEF Next

(* Every behaviour keeps the invariant on the object's life.                *)
LEMMA LifeInvariant == Spec => []LifeInv
  <1>1. Init => LifeInv
    BY DEF Init, LifeInv, NoOrphanListener, SelfStopNeverReturns, Live, Starting, Listening
  <1>2. QED
    BY <1>1, ServerTypes, CallInvariant, ReceiverInvariant, LifeStep, PTL DEF Spec

(* After a stop() that returned normally no thread, no listening socket and *)
(* no `sock` is left, if no start() came while the server was started.      *)
THEOREM ServerStoppedIsQuiet == Spec => []StoppedIsQuiet
  <1>1. TypeOK /\ LifeInv => StoppedIsQuiet
    BY DEF TypeOK, LifeInv, StoppedIsQuiet, NoOrphanListener, Live, Starting, Active,
           Listening, InLoop
  <1>2. QED
    BY <1>1, ServerTypes, LifeInvariant, PTL

(* A listening socket is always `sock` and has a start() or a thread that   *)
(* will run with it and close it.                                           *)
THEOREM ServerNoOrphan == Spec => []NoOrphanListener
  <1>1. LifeInv => NoOrphanListener
    BY DEF LifeInv, NoOrphanListener
  <1>2. QED
    BY <1>1, LifeInvariant, PTL

(* stop() never returns normally to the callback that called it.            *)
THEOREM ServerSelfStop == Spec => []SelfStopNeverReturns
  <1>1. LifeInv => SelfStopNeverReturns
    BY DEF LifeInv, SelfStopNeverReturns
  <1>2. QED
    BY <1>1, LifeInvariant, PTL

-----------------------------------------------------------------------------
(* WakeInv is inductive: `running` and wake_fd are both set only where      *)
(* start() came after the write of an earlier stop().                       *)
LEMMA WakeStep == TypeOK /\ CallInv /\ LifeInv /\ WakeInv /\ [Next]_vars => WakeInv'
  <1> SUFFICES ASSUME TypeOK, CallInv, LifeInv, WakeInv, [Next]_vars PROVE WakeInv'
    OBVIOUS
  <1> USE DEF TypeOK, WakeInv, LeavesOnlyWhenStopped, Leaving, InLoop
  <1> USE DEF object, calls, thread, Fault, NoFault, Goto, Step, LocalStep, Keep, Forget
  <1>1. CASE StartSocket
    BY <1>1 DEF StartSocket, Raise, CallInv, GilFree
  <1>2. CASE OwnerStop
    BY <1>2 DEF OwnerStop, StopBy
  <1>3. CASE CallStep
    <2>1. CASE StartBind \/ StartListen
      BY <2>1 DEF StartBind, StartListen, Raise, Proceed
    <2>2. CASE StartRun
      <3>1. ~misused => \A t \in Threads : pc[t] = "none"
        BY <2>2 DEF StartRun, LifeInv, Live, Starting
      <3>2. PICK t \in Threads : Goto(t, "top")
        BY <2>2 DEF StartRun
      <3>3. ~misused => \A u \in Threads : pc'[u] \notin Leaving
        BY <3>1, <3>2
      <3>4. QED
        BY <2>2, <3>3 DEF StartRun
    <2>3. CASE StopWake
      BY <2>3 DEF StopWake, Proceed
    <2>4. CASE StopReturn \/ StopTimeout
      BY <2>4 DEF StopReturn, StopTimeout, StopEnds
    <2>5. QED
      BY <1>3, <2>1, <2>2, <2>3, <2>4 DEF CallStep
  <1>4. ASSUME NEW t \in Threads, PythonStep(t) PROVE WakeInv'
    <2>1. CASE CallbackReturn(t) \/ CallbackRaise(t)
      BY <2>1 DEF CallbackReturn, CallbackRaise
    <2>2. CASE CallbackStop(t)
      BY <2>2 DEF CallbackStop, StopBy
    <2>3. CASE Alert(t)
      BY <2>3 DEF Alert
    <2>4. QED
      BY <1>4, <2>1, <2>2, <2>3 DEF PythonStep
  <1>5. ASSUME NEW t \in Threads, NativeStep(t) PROVE WakeInv'
    <2>1. UNCHANGED <<running, calls, stale, misused>> /\ (wake' => wake)
      BY <1>5 DEF NativeStep, LoopTest, PollWake, PollClient, PollFail, Drain,
           AcceptClient, AcceptFail, Recv, Send, CloseClient, NoFallback, Fallback,
           NoSocket, CloseSocket, UnsetSocket
    <2>2. pc'[t] \in Leaving => pc[t] \in Leaving \/ ~running \/ wake
      BY <1>5 DEF NativeStep, LoopTest, PollWake, PollClient, PollFail, Drain,
           AcceptClient, AcceptFail, Recv, Send, CloseClient, NoFallback, Fallback,
           NoSocket, CloseSocket, UnsetSocket
    <2>3. \A u \in Threads : u # t => pc'[u] = pc[u]
      BY <1>5 DEF NativeStep, LoopTest, PollWake, PollClient, PollFail, Drain,
           AcceptClient, AcceptFail, Recv, Send, CloseClient, NoFallback, Fallback,
           NoSocket, CloseSocket, UnsetSocket
    <2>4. QED
      BY <2>1, <2>2, <2>3
  <1>6. ASSUME NEW c \in Clients, Connect(c) PROVE WakeInv'
    BY <1>6 DEF Connect
  <1>7. CASE OtherOpens \/ OtherCloses
    BY <1>7 DEF OtherOpens, OtherCloses, CloseFd, Lowest, Free, Foreign
  <1>8. CASE UNCHANGED vars
    BY <1>8 DEF vars
  <1>9. QED
    BY <1>1, <1>2, <1>3, <1>4, <1>5, <1>6, <1>7, <1>8 DEF Next

(* A thread leaves the loop only for a stop(), or for the wake-up that an   *)
(* earlier stop() had left when start() was called.                         *)
THEOREM ServerLeavesOnlyWhenStopped == Spec => []LeavesOnlyWhenStopped
  <1>1. Init => WakeInv
    BY DEF Init, WakeInv, LeavesOnlyWhenStopped, Leaving
  <1>2. WakeInv => LeavesOnlyWhenStopped
    BY DEF WakeInv
  <1>3. QED
    BY <1>1, <1>2, ServerTypes, CallInvariant, LifeInvariant, WakeStep, PTL DEF Spec

-----------------------------------------------------------------------------
(* DescriptorInv is inductive: as there is one receiver, nobody closes the  *)
(* socket it polls or the client it holds, and without misuse no start()    *)
(* takes a number while it lives.                                           *)
LEMMA DescriptorStep ==
    TypeOK /\ CallInv /\ ReceiverInv /\ LifeInv /\ DescriptorInv /\ [Next]_vars => DescriptorInv'
  <1> SUFFICES ASSUME TypeOK, CallInv, ReceiverInv, LifeInv, DescriptorInv, [Next]_vars
               PROVE DescriptorInv'
    OBVIOUS
  <1> USE FdsAssumption DEF TypeOK, DescriptorInv, NoClientLeak, Active, Listening, InLoop
  <1> USE DEF object, calls, thread, Fault, NoFault, Goto, Step, LocalStep, Keep, Forget
  <1>r. /\ \A t, u \in Threads : Active(t) /\ Active(u) => t = u
        /\ \A t \in Threads : Active(t) => Listening # {}
        /\ call = "run" => \A t \in Threads : ~Active(t)
        /\ \A t \in Threads : client[t] # NoFd =>
              pc[t] \in InLoop \ {"top", "poll", "drain", "accept"} /\ files[client[t]] # "listening"
    BY DEF ReceiverInv, OneReceiver, Serving
  <1>1. CASE StartSocket
    <2>1. pc' = pc /\ client' = client /\ pollFd' = pollFd /\ call' # "run"
      BY <1>1 DEF StartSocket, Raise
    <2>2. \/ files' = files
          \/ \E f \in Fds : files[f] = "closed" /\ files' = [files EXCEPT ![f] = "fresh"]
      BY <1>1 DEF StartSocket, Lowest, Free
    <2>3. \A f \in Fds : /\ files'[f] = "listening" <=> files[f] = "listening"
                         /\ files'[f] = "conn" <=> files[f] = "conn"
      BY <2>2
    <2>4. ~misused' => \A t \in Threads : client[t] = NoFd
      BY <1>1, <1>r DEF StartSocket, LifeInv, Live
    <2>5. \A t \in Threads : Active(t)' => pollFd' \in Listening' \cup {NoFd}
      BY <2>1, <2>3
    <2>6. NoClientLeak'
      BY <2>1, <2>3
    <2>7. \A t \in Threads : pc'[t] = "realert" /\ client'[t] # NoFd => files'[client'[t]] # "conn"
      <3> SUFFICES ASSUME NEW t \in Threads, pc[t] = "realert", client[t] # NoFd
                   PROVE files'[client[t]] # "conn"
        BY <2>1
      <3>1. client[t] \in Fds /\ files[client[t]] # "conn"
        OBVIOUS
      <3>2. QED
        BY <2>3, <3>1
    <2>8. QED
      BY <2>1, <2>4, <2>5, <2>6, <2>7
  <1>2. CASE OwnerStop
    BY <1>2 DEF OwnerStop, StopBy, CallInv, GilFree
  <1>3. CASE CallStep
    <2>1. CASE StartBind
      BY <2>1 DEF StartBind, Raise, Proceed
    <2>2. CASE StartListen
      <3>1. CASE UNCHANGED files /\ call' = "none"
        BY <2>2, <3>1 DEF StartListen
      <3>2. CASE Bindable /\ files' = [files EXCEPT ![sock] = "listening"]
        <4>1. \A t \in Threads : ~Active(t) /\ client[t] = NoFd
          BY <1>r, <3>2 DEF Bindable
        <4>2. \A f \in Fds : files'[f] = "conn" <=> files[f] = "conn"
          BY <3>2 DEF Bindable
        <4>3. sock' \in Listening'
          BY <2>2, <3>2 DEF StartListen, Bindable
        <4>4. QED
          BY <2>2, <4>1, <4>2, <4>3 DEF StartListen
      <3>3. QED
        BY <2>2, <3>1, <3>2 DEF StartListen, Raise, Proceed
    <2>3. CASE StartRun
      <3>1. \A t \in Threads : ~Active(t) /\ client[t] = NoFd
        BY <1>r, <2>3 DEF StartRun
      <3>2. QED
        BY <2>3, <3>1 DEF StartRun
    <2>4. CASE StopWake
      BY <2>4 DEF StopWake, Proceed
    <2>5. CASE StopReturn \/ StopTimeout
      BY <2>5 DEF StopReturn, StopTimeout, StopEnds, CallInv
    <2>6. QED
      BY <1>3, <2>1, <2>2, <2>3, <2>4, <2>5 DEF CallStep
  <1>4. ASSUME NEW t \in Threads, PythonStep(t) PROVE DescriptorInv'
    <2>1. CASE CallbackReturn(t) \/ CallbackRaise(t)
      BY <2>1 DEF CallbackReturn, CallbackRaise
    <2>2. CASE CallbackStop(t)
      BY <2>2 DEF CallbackStop, StopBy, CallInv, GilFree
    <2>3. CASE Alert(t)
      BY <2>3, <1>r DEF Alert
    <2>4. QED
      BY <1>4, <2>1, <2>2, <2>3 DEF PythonStep
  <1>5. ASSUME NEW t \in Threads, NativeStep(t) PROVE DescriptorInv'
    <2>1. CASE LoopTest(t) \/ PollWake(t) \/ PollClient(t) \/ PollFail(t) \/ Drain(t)
      BY <2>1, <1>r DEF LoopTest, PollWake, PollClient, PollFail, Drain
    <2>2. CASE AcceptClient(t)
      <3>1. PICK f \in Lowest :
              /\ files' = [files EXCEPT ![f] = "conn"]
              /\ client' = [client EXCEPT ![t] = f]
        BY <2>2 DEF AcceptClient
      <3>2. \A u \in Threads : u # t => client[u] = NoFd
        BY <2>2, <1>r DEF AcceptClient
      <3>3. pc' = [pc EXCEPT ![t] = "recv"] /\ pc[t] = "accept"
        BY <2>2 DEF AcceptClient
      <3>4. \A g \in Fds : files'[g] = "listening" <=> files[g] = "listening"
        BY <3>1 DEF Lowest, Free
      <3>5. NoClientLeak'
        BY <3>1, <3>2, <3>3, <1>r DEF Lowest, Free
      <3>6. QED
        BY <2>2, <3>1, <3>2, <3>3, <3>4, <3>5 DEF AcceptClient, Lowest, Free
    <2>3. CASE AcceptFail(t) \/ Recv(t)
      BY <2>3, <1>r DEF AcceptFail, Recv
    <2>4. CASE Send(t)
      BY <2>4 DEF Send
    <2>5. CASE CloseClient(t) \/ NoFallback(t) \/ Fallback(t)
      <3>1. Active(t) /\ Active(t)' = Active(t) /\ pc'[t] \in {"top", "alert", "realert"}
        BY <2>5 DEF CloseClient, NoFallback, Fallback
      <3>2. \A u \in Threads : u # t => client[u] = NoFd /\ client'[u] = NoFd /\ ~Active(u) /\ ~Active(u)'
        BY <2>5, <1>r, <3>1 DEF CloseClient, NoFallback, Fallback
      <3>3. UNCHANGED <<object, calls>>
        BY <2>5 DEF CloseClient, NoFallback, Fallback
      <3>4. \A f \in Fds : files'[f] = IF f = client[t] THEN "closed" ELSE files[f]
        BY <2>5 DEF CloseClient, NoFallback, Fallback, CloseFd
      <3>5. \A f \in Fds : files'[f] = "listening" <=> files[f] = "listening"
        BY <3>4, <1>r
      <3>6. \A f \in Fds : files'[f] # "conn"
        <4> SUFFICES ASSUME NEW f \in Fds, f # client[t] PROVE files[f] # "conn"
          BY <3>4
        <4>1. \A u \in Threads : client[u] # f
          BY <3>2 DEF NoFd
        <4>2. QED
          BY <4>1
      <3>7. client'[t] \in {NoFd, client[t]}
        BY <2>5 DEF CloseClient, NoFallback, Fallback, Forget
      <3>8. client[t] # NoFd => files'[client[t]] = "closed"
        <4>1. client[t] # NoFd => client[t] \in Fds
          OBVIOUS
        <4>2. QED
          BY <3>4, <4>1
      <3>9. Listening' = Listening
        BY <3>5 DEF Listening
      <3>10. ~misused => \A u \in Threads : client'[u] # NoFd => files'[client'[u]] # "fresh"
        BY <3>2, <3>7, <3>8
      <3>11. \A u \in Threads : client'[u] # NoFd => client'[u] \in Fds
        BY <3>2, <3>7
      <3>12. QED
        BY <3>1, <3>2, <3>3, <3>6, <3>9, <3>10, <3>11
    <2>6. CASE NoSocket(t) \/ UnsetSocket(t)
      BY <2>6, <1>r DEF NoSocket, UnsetSocket
    <2>7. CASE CloseSocket(t)
      <3>1. \A u \in Threads : ~Active(u)' /\ client'[u] = NoFd
        BY <2>7, <1>r DEF CloseSocket
      <3>2. call # "run" /\ UNCHANGED calls
        BY <2>7, <1>r DEF CloseSocket
      <3>3. \A f \in Fds : files'[f] # "conn"
        BY <2>7, <1>r DEF CloseSocket, CloseFd
      <3>4. QED
        BY <3>1, <3>2, <3>3
    <2>8. QED
      BY <1>5, <2>1, <2>2, <2>3, <2>4, <2>5, <2>6, <2>7 DEF NativeStep
  <1>6. ASSUME NEW c \in Clients, Connect(c) PROVE DescriptorInv'
    BY <1>6 DEF Connect
  <1>7. CASE OtherOpens \/ OtherCloses
    <2>1. UNCHANGED <<object, calls, pc, client>>
      BY <1>7 DEF OtherOpens, OtherCloses
    <2>2. \A f \in Fds : /\ files'[f] = "listening" <=> files[f] = "listening"
                         /\ files'[f] = "conn" <=> files[f] = "conn"
                         /\ files'[f] = "fresh" <=> files[f] = "fresh"
      BY <1>7 DEF OtherOpens, OtherCloses, CloseFd, Lowest, Free, Foreign
    <2>3. Listening' = Listening
      BY <2>2
    <2>4. NoClientLeak'
      BY <2>1, <2>2
    <2>5. \A t \in Threads : client[t] # NoFd => client[t] \in Fds
      OBVIOUS
    <2>6. \A t \in Threads : client'[t] # NoFd =>
              /\ pc'[t] = "realert" => files'[client'[t]] # "conn"
              /\ ~misused' => files'[client'[t]] # "fresh"
      <3> SUFFICES ASSUME NEW t \in Threads, client[t] # NoFd
                   PROVE  /\ pc[t] = "realert" => files'[client[t]] # "conn"
                          /\ ~misused => files'[client[t]] # "fresh"
        BY <2>1
      <3>1. /\ pc[t] = "realert" => files[client[t]] # "conn"
            /\ ~misused => files[client[t]] # "fresh"
        OBVIOUS
      <3>2. QED
        BY <2>2, <2>5, <3>1
    <2>7. QED
      BY <2>1, <2>3, <2>4, <2>6
  <1>8. CASE UNCHANGED vars
    BY <1>8 DEF vars
  <1>9. QED
    BY <1>1, <1>2, <1>3, <1>4, <1>5, <1>6, <1>7, <1>8 DEF Next

(* Every behaviour keeps the invariant on the descriptors.                  *)
LEMMA DescriptorInvariant == Spec => []DescriptorInv
  <1>1. Init => DescriptorInv
    BY DEF Init, DescriptorInv, NoClientLeak, Active, InLoop, Listening
  <1>2. QED
    BY <1>1, ServerTypes, CallInvariant, ReceiverInvariant, LifeInvariant, DescriptorStep,
       PTL DEF Spec

-----------------------------------------------------------------------------
(* ServedInv is inductive: there is one receiver, it sets `client` and the  *)
(* client's state together, and forgets none before it is answered or       *)
(* disconnected.                                                            *)
LEMMA ServedStep ==
          TypeOK /\ CallInv /\ ReceiverInv /\ ServedInv /\ [Next]_vars => ServedInv'
  <1> SUFFICES ASSUME TypeOK, CallInv, ReceiverInv, ServedInv, [Next]_vars PROVE ServedInv'
    OBVIOUS
  <1> USE ClientsAssumption, FdsAssumption DEF TypeOK, ServedInv, Serving, InLoop
  <1> USE DEF object, calls, thread, Fault, NoFault, Goto, Step, LocalStep, Keep, Forget
  <1>r. \A t, u \in Threads : Active(t) /\ Active(u) => t = u
    BY DEF ReceiverInv, OneReceiver
  <1>1. CASE StartSocket \/ OwnerStop
    BY <1>1 DEF StartSocket, Raise, OwnerStop, StopBy
  <1>2. CASE CallStep
    <2>1. CASE StartBind \/ StartListen \/ StopWake
      BY <2>1 DEF StartBind, StartListen, StopWake, Raise, Proceed
    <2>2. CASE StartRun
      BY <2>2 DEF StartRun
    <2>3. CASE StopReturn \/ StopTimeout
      BY <2>3 DEF StopReturn, StopTimeout, StopEnds, CallInv
    <2>4. QED
      BY <1>2, <2>1, <2>2, <2>3 DEF CallStep
  <1>3. ASSUME NEW t \in Threads, PythonStep(t) PROVE ServedInv'
    <2>1. CASE CallbackReturn(t) \/ CallbackRaise(t)
      BY <2>1 DEF CallbackReturn, CallbackRaise
    <2>2. CASE CallbackStop(t)
      BY <2>2 DEF CallbackStop, StopBy
    <2>3. CASE Alert(t)
      BY <2>3 DEF Alert
    <2>4. QED
      BY <1>3, <2>1, <2>2, <2>3 DEF PythonStep
  <1>4. ASSUME NEW t \in Threads, NativeStep(t) PROVE ServedInv'
    <2>1. CASE LoopTest(t) \/ PollWake(t) \/ PollClient(t) \/ PollFail(t) \/ Drain(t)
      BY <2>1 DEF LoopTest, PollWake, PollClient, PollFail, Drain
    <2>2. CASE AcceptClient(t)
      BY <2>2 DEF AcceptClient, Queued, Lowest, Free
    <2>3. CASE AcceptFail(t) \/ Recv(t)
      BY <2>3 DEF AcceptFail, Recv
    <2>4. CASE Send(t)
      BY <2>4, <1>r DEF Send, Active
    <2>5. CASE CloseClient(t)
      BY <2>5 DEF CloseClient
    <2>6. CASE NoFallback(t) \/ NoSocket(t) \/ UnsetSocket(t)
      BY <2>6 DEF NoFallback, NoSocket, UnsetSocket
    <2>7. CASE Fallback(t)
      BY <2>7, <1>r DEF Fallback, Active
    <2>8. CASE CloseSocket(t)
      BY <2>8 DEF CloseSocket, ResetQueueOf, Queued
    <2>9. QED
      BY <1>4, <2>1, <2>2, <2>3, <2>4, <2>5, <2>6, <2>7, <2>8 DEF NativeStep
  <1>5. ASSUME NEW c \in Clients, Connect(c) PROVE ServedInv'
    BY <1>5 DEF Connect
  <1>6. CASE OtherOpens \/ OtherCloses
    BY <1>6 DEF OtherOpens, OtherCloses, CloseFd, Lowest, Free, Foreign
  <1>7. CASE UNCHANGED vars
    BY <1>7 DEF vars
  <1>8. QED
    BY <1>1, <1>2, <1>3, <1>4, <1>5, <1>6, <1>7 DEF Next

(* Every behaviour keeps the invariant on the clients that are served.      *)
LEMMA ServedInvariant == Spec => []ServedInv
  <1>1. Init => ServedInv
    BY DEF Init, ServedInv
  <1>2. QED
    BY <1>1, ServerTypes, CallInvariant, ReceiverInvariant, ServedStep, PTL DEF Spec

(* HeldInv is inductive: only the one receiver closes a client, other code  *)
(* is given none but free numbers, and `client` keeps the number of a       *)
(* client that is closed only where close() reported an error.              *)
LEMMA HeldStep ==
    TypeOK /\ CallInv /\ ReceiverInv /\ ServedInv /\ HeldInv /\ [Next]_vars => HeldInv'
  <1> SUFFICES ASSUME TypeOK, CallInv, ReceiverInv, ServedInv, HeldInv, [Next]_vars,
                      NEW t \in Threads
               PROVE  Held(t)'
    BY DEF HeldInv
  <1> USE ClientsAssumption, FdsAssumption DEF TypeOK, InLoop
  <1> USE DEF object, calls, thread, Fault, NoFault, Goto, Step, LocalStep, Keep, Forget
  <1> DEFINE ConnsKept == \A f \in Fds : files'[f] = "conn" <=> files[f] = "conn"
  <1> DEFINE StatesKept ==
          \A c \in Clients : /\ status'[c] = "open" <=> status[c] = "open"
                             /\ status[c] = "answered" => status'[c] = "answered"
  <1> HIDE DEF ConnsKept, StatesKept
  <1>h. Held(t)
    BY DEF HeldInv
  <1>s. client[t] # NoFd <=> peer[t] # NoClient
    BY DEF ServedInv
  <1>k. ASSUME UNCHANGED <<pc, client, peer>>,
               ConnsKept, StatesKept
        PROVE  Held(t)'
    <2>1. CASE client[t] = NoFd
      BY <1>h, <1>k, <2>1 DEF Held
    <2>2. CASE client[t] # NoFd
      <3>1. client[t] \in Fds /\ peer[t] \in Clients
        BY <1>s, <2>2
      <3>2. /\ files'[client[t]] = "conn" <=> files[client[t]] = "conn"
            /\ status'[peer[t]] = "open" <=> status[peer[t]] = "open"
            /\ status[peer[t]] = "answered" => status'[peer[t]] = "answered"
        BY <1>k, <3>1 DEF ConnsKept, StatesKept
      <3>3. pc'[t] = pc[t] /\ client'[t] = client[t] /\ peer'[t] = peer[t]
        BY <1>k
      <3>4. QED
        BY <1>h, <2>2, <3>2, <3>3 DEF Held
    <2>3. QED
      BY <2>1, <2>2
  <1>l. ASSUME pc'[t] \notin {"recv", "callback", "reply", "send", "close", "alert", "fallback"}
        PROVE  Held(t)'
    BY <1>l DEF Held
  <1>m. ASSUME pc'[t] = pc[t], client'[t] = client[t], peer'[t] = peer[t],
               UNCHANGED <<files, status>>
        PROVE  Held(t)'
    BY <1>h, <1>m DEF Held
  <1>1. CASE StartSocket
    <2>1. UNCHANGED <<pc, client, peer, status>>
      BY <1>1 DEF StartSocket
    <2>2. ConnsKept
      BY <1>1 DEF ConnsKept, StartSocket, Lowest, Free
    <2>3. StatesKept
      BY <2>1 DEF StatesKept
    <2>4. QED
      BY <1>k, <2>1, <2>2, <2>3
  <1>2. CASE OwnerStop
    BY <1>2, <1>m DEF OwnerStop, StopBy
  <1>3. CASE CallStep
    <2>1. CASE StartBind \/ StopWake
      BY <2>1, <1>m DEF StartBind, StopWake
    <2>2. CASE StartListen
      <3>1. UNCHANGED <<pc, client, peer, status>>
        BY <2>2 DEF StartListen
      <3>2. ConnsKept
        BY <2>2 DEF ConnsKept, StartListen, Bindable
      <3>3. StatesKept
        BY <3>1 DEF StatesKept
      <3>4. QED
        BY <1>k, <3>1, <3>2, <3>3
    <2>3. CASE StartRun
      BY <2>3, <1>l, <1>m DEF StartRun
    <2>4. CASE StopReturn \/ StopTimeout
      <3>1. /\ UNCHANGED <<client, peer, files, status>>
            /\ pc'[t] # pc[t] => pc[t] = "callback" /\ pc'[t] \in {"reply", "alert"}
        BY <2>4 DEF StopReturn, StopTimeout, StopEnds, CallInv
      <3>2. pc[t] = "callback" => client[t] # NoFd /\ files[client[t]] = "conn"
                                    /\ status[peer[t]] = "open"
        BY <1>h DEF Held, ServedInv
      <3>3. CASE pc'[t] = pc[t]
        BY <1>m, <3>1, <3>3
      <3>4. CASE pc'[t] # pc[t]
        BY <3>1, <3>2, <3>4 DEF Held
      <3>5. QED
        BY <3>3, <3>4
    <2>5. QED
      BY <1>3, <2>1, <2>2, <2>3, <2>4 DEF CallStep
  <1>4. ASSUME NEW u \in Threads, PythonStep(u) PROVE Held(t)'
    <2>1. UNCHANGED <<files, status>> /\ (u # t => pc'[t] = pc[t] /\ client'[t] = client[t]
                                                     /\ peer'[t] = peer[t])
      BY <1>4 DEF PythonStep, CallbackReturn, CallbackRaise, CallbackStop, StopBy, Alert
    <2>2. pc[t] \in {"callback", "reply"} => client[t] # NoFd /\ files[client[t]] = "conn"
                                               /\ status[peer[t]] = "open"
      BY <1>h DEF Held, ServedInv
    <2>3. CASE u = t /\ (CallbackReturn(t) \/ CallbackRaise(t))
      BY <2>2, <2>3 DEF CallbackReturn, CallbackRaise, Held
    <2>4. CASE u = t /\ CallbackStop(t)
      BY <2>4, <1>m DEF CallbackStop, StopBy
    <2>5. CASE u = t /\ Alert(t)
      BY <2>5, <1>h DEF Alert, Held
    <2>6. QED
      BY <1>4, <2>1, <2>3, <2>4, <2>5, <1>m DEF PythonStep
  <1>5. ASSUME NEW u \in Threads, NativeStep(u), u # t PROVE Held(t)'
    <2>1. pc'[t] = pc[t] /\ client'[t] = client[t] /\ peer'[t] = peer[t]
      BY <1>5 DEF NativeStep, LoopTest, PollWake, PollClient, PollFail, Drain,
           AcceptClient, AcceptFail, Recv, Send, CloseClient, NoFallback, Fallback,
           NoSocket, CloseSocket, UnsetSocket
    <2>2. UNCHANGED <<files, status>> \/ Active(u)
      BY <1>5 DEF NativeStep, LoopTest, PollWake, PollClient, PollFail, Drain,
           AcceptClient, AcceptFail, Recv, Send, CloseClient, NoFallback, Fallback,
           NoSocket, CloseSocket, UnsetSocket, Active
    <2>3. CASE Active(u)
      <3>1. pc[t] \notin InLoop
        BY <1>5, <2>3 DEF ReceiverInv, OneReceiver, Active
      <3>2. QED
        BY <1>l, <2>1, <3>1
    <2>4. QED
      BY <1>m, <2>1, <2>2, <2>3
  <1>6. ASSUME NativeStep(t) PROVE Held(t)'
    <2>1. CASE LoopTest(t) \/ PollWake(t) \/ PollClient(t) \/ Drain(t)
      BY <2>1, <1>l DEF LoopTest, PollWake, PollClient, Drain
    <2>2. CASE PollFail(t) \/ AcceptFail(t)
      <3>1. pc[t] \in {"poll", "accept"} /\ UNCHANGED <<files, status, client>>
            /\ pc'[t] \in {"top", "alert"}
        BY <2>2 DEF PollFail, AcceptFail
      <3>2. client[t] = NoFd
        BY <3>1 DEF ReceiverInv, Serving
      <3>3. QED
        BY <3>1, <3>2 DEF Held
    <2>3. CASE AcceptClient(t)
      <3>1. PICK c \in Clients, f \in Fds :
              /\ files' = [files EXCEPT ![f] = "conn"]
              /\ client' = [client EXCEPT ![t] = f]
        BY <2>3 DEF AcceptClient, Queued, Lowest, Free
      <3>2. pc'[t] = "recv" /\ client'[t] = f /\ files'[f] = "conn"
        BY <2>3, <3>1 DEF AcceptClient
      <3>3. QED
        BY <3>2 DEF Held
    <2>4. CASE Recv(t) \/ Send(t)
      <3>1. /\ pc[t] \in {"recv", "send"} /\ UNCHANGED <<files, client, peer>>
            /\ \/ pc'[t] \in {"callback", "alert"} /\ status' = status
               \/ pc'[t] = "close" /\ status' = [status EXCEPT ![peer[t]] = "answered"]
        BY <2>4 DEF Recv, Send
      <3>2. /\ client[t] # NoFd /\ files[client[t]] = "conn"
            /\ peer[t] \in Clients /\ status[peer[t]] = "open"
        BY <1>h, <3>1 DEF Held, ServedInv
      <3>3. QED
        BY <3>1, <3>2 DEF Held
    <2>5. CASE CloseClient(t)
      <3>1. /\ pc[t] = "close" /\ status' = status /\ pc'[t] \in {"top", "alert"}
            /\ files' = [files EXCEPT ![client[t]] = "closed"]
            /\ pc'[t] = "alert" => client' = client /\ peer' = peer
        BY <2>5 DEF CloseClient, CloseFd
      <3>2. client[t] \in Fds /\ status[peer[t]] = "answered"
        BY <1>h, <3>1 DEF Held
      <3>3. CASE pc'[t] = "top"
        BY <1>l, <3>3
      <3>4. CASE pc'[t] = "alert"
        BY <3>1, <3>2, <3>4 DEF Held
      <3>5. QED
        BY <3>1, <3>3, <3>4
    <2>6. CASE \/ NoFallback(t) \/ NoSocket(t) \/ UnsetSocket(t) \/ Fallback(t)
               \/ CloseSocket(t)
      BY <2>6, <1>l DEF NoFallback, NoSocket, UnsetSocket, Fallback, CloseSocket
    <2>7. QED
      BY <1>6, <2>1, <2>2, <2>3, <2>4, <2>5, <2>6 DEF NativeStep
  <1>7. ASSUME NEW c \in Clients, Connect(c) PROVE Held(t)'
    <2>1. /\ UNCHANGED <<pc, client, peer, files>>
          /\ status[c] = "out" /\ status' = [status EXCEPT ![c] = "queued"]
      BY <1>7 DEF Connect
    <2>2. StatesKept
      BY <2>1 DEF StatesKept
    <2>3. ConnsKept
      BY <2>1 DEF ConnsKept
    <2>4. QED
      BY <1>k, <2>1, <2>2, <2>3
  <1>8. CASE OtherOpens \/ OtherCloses
    <2>1. UNCHANGED <<pc, client, peer, status>>
      BY <1>8 DEF OtherOpens, OtherCloses
    <2>2. ConnsKept
      BY <1>8 DEF ConnsKept, OtherOpens, OtherCloses, CloseFd, Lowest, Free, Foreign
    <2>3. StatesKept
      BY <2>1 DEF StatesKept
    <2>4. QED
      BY <1>k, <2>1, <2>2, <2>3
  <1>9. CASE UNCHANGED vars
    BY <1>9, <1>m DEF vars
  <1>10. QED
    BY <1>1, <1>2, <1>3, <1>4, <1>5, <1>6, <1>7, <1>8, <1>9 DEF Next

(* Every behaviour keeps the invariant on what the thread holds.            *)
LEMMA HeldInvariant == Spec => []HeldInv
  <1>1. Init => HeldInv
    BY DEF Init, HeldInv, Held
  <1>2. QED
    BY <1>1, ServerTypes, CallInvariant, ReceiverInvariant, ServedInvariant, HeldStep,
       PTL DEF Spec

(* Every number the server keeps refers to what it stands for, in whatever  *)
(* order numbers are given out again, to the server and to other code.  The *)
(* one close that may hit a file of other code is the fallback close of a   *)
(* client whose close() has reported an error.                              *)
THEOREM ServerDescriptorsKept == Spec => []DescriptorsKept
  <1>1. TypeOK /\ DescriptorInv => PollsTheListener /\ NoClientLeak
    BY DEF TypeOK, DescriptorInv, PollsTheListener, Active, InLoop
  <1>2. TypeOK /\ ReceiverInv /\ LifeInv /\ DescriptorInv /\ HeldInv => NoForeignClose
    <2> SUFFICES ASSUME TypeOK, ReceiverInv, LifeInv, DescriptorInv, HeldInv, NEW t \in Threads
                 PROVE
                   /\ pc[t] = "close" => files[client[t]] = "conn"
                   /\ pc[t] = "fallback" /\ client[t] # NoFd =>
                         IF status[peer[t]] = "open"
                         THEN files[client[t]] = "conn"
                         ELSE files[client[t]] \in {"closed", "foreign"} \cup
                                  (IF misused THEN {"fresh"} ELSE {})
                   /\ pc[t] = "closing" /\ sock # NoFd /\ ~misused =>
                         files[sock] = "listening"
      BY DEF NoForeignClose
    <2>1. pc[t] = "close" => files[client[t]] = "conn"
      BY DEF HeldInv, Held
    <2>2. pc[t] = "fallback" /\ client[t] # NoFd =>
             IF status[peer[t]] = "open"
             THEN files[client[t]] = "conn"
             ELSE files[client[t]] \in {"closed", "foreign", "fresh"}
      <3> SUFFICES ASSUME pc[t] = "fallback", client[t] # NoFd
                   PROVE  IF status[peer[t]] = "open"
                          THEN files[client[t]] = "conn"
                          ELSE files[client[t]] \in {"closed", "foreign", "fresh"}
        OBVIOUS
      <3>1. files[client[t]] \in {"closed", "fresh", "conn", "foreign"}
        BY DEF TypeOK, ReceiverInv
      <3>2. status[peer[t]] = "open" <=> files[client[t]] = "conn"
        BY DEF HeldInv, Held
      <3>3. QED
        BY <3>1, <3>2
    <2>3. ~misused /\ client[t] # NoFd => files[client[t]] # "fresh"
      BY DEF DescriptorInv
    <2>4. pc[t] = "closing" /\ ~misused => files[sock] = "listening"
      <3> SUFFICES ASSUME pc[t] = "closing", ~misused PROVE files[sock] = "listening"
        OBVIOUS
      <3>1. PICK f \in Fds : files[f] = "listening"
        BY DEF ReceiverInv, Active, Listening
      <3>2. sock = f
        BY <3>1 DEF LifeInv, NoOrphanListener, Listening
      <3>3. QED
        BY <3>1, <3>2
    <2>5. QED
      BY <2>1, <2>2, <2>3, <2>4
  <1>3. QED
    BY <1>1, <1>2, ServerTypes, ReceiverInvariant, LifeInvariant, DescriptorInvariant,
       HeldInvariant, PTL DEF DescriptorsKept

(* OnceInv is inductive: a single start() is the first call of all.         *)
LEMMA OnceStep ==
          TypeOK /\ CallInv /\ ReceiverInv /\ LifeInv /\ OnceInv /\ [Next]_vars => OnceInv'
  <1> SUFFICES ASSUME TypeOK, CallInv, ReceiverInv, LifeInv, OnceInv, [Next]_vars,
                      Discipline = "once"
               PROVE  OnceInv'
    BY DEF OnceInv
  <1> USE DEF TypeOK, CallInv, OnceInv, Starting, GilFree
  <1> USE DEF object, calls, thread, Fault, NoFault, Step, LocalStep, Raise, Proceed
  <1>1. CASE StartSocket
    BY <1>1 DEF StartSocket, MayStart
  <1>2. CASE OwnerStop
    BY <1>2 DEF OwnerStop, MayStop, StopBy
  <1>3. CASE CallStep
    <2>1. CASE StartBind \/ StartListen
      BY <2>1 DEF StartBind, StartListen
    <2>2. CASE StartRun
      <3>1. PICK f \in Fds : files[f] = "listening"
        BY <2>2 DEF StartRun, ReceiverInv, Listening
      <3>2. sock = f
        BY <3>1 DEF LifeInv, NoOrphanListener, Listening
      <3>3. sock # NoFd
        BY <3>2, FdsAssumption
      <3>4. QED
        BY <2>2, <3>3 DEF StartRun
    <2>3. CASE StopWake
      BY <2>3 DEF StopWake
    <2>4. CASE StopReturn \/ StopTimeout
      BY <2>4 DEF StopReturn, StopTimeout, StopEnds, LifeInv
    <2>5. QED
      BY <1>3, <2>1, <2>2, <2>3, <2>4 DEF CallStep
  <1>4. ASSUME NEW t \in Threads, PythonStep(t) PROVE OnceInv'
    <2>1. CASE CallbackStop(t)
      <3>1. phase # "new"
        BY <2>1 DEF CallbackStop, LifeInv, Live
      <3>2. QED
        BY <2>1, <3>1 DEF CallbackStop, StopBy
    <2>2. CASE CallbackReturn(t) \/ CallbackRaise(t) \/ Alert(t)
      BY <2>2 DEF CallbackReturn, CallbackRaise, Alert
    <2>3. QED
      BY <1>4, <2>1, <2>2 DEF PythonStep
  <1>5. ASSUME NEW t \in Threads, NativeStep(t) PROVE OnceInv'
    <2>1. UNCHANGED <<running, pollFd, stale, calls>> /\ (wake' => wake)
      BY <1>5 DEF NativeStep, LoopTest, PollWake, PollClient, PollFail, Drain,
           AcceptClient, AcceptFail, Recv, Send, CloseClient, NoFallback, Fallback,
           NoSocket, CloseSocket, UnsetSocket
    <2>2. QED
      BY <2>1
  <1>6. ASSUME NEW c \in Clients, Connect(c) PROVE OnceInv'
    BY <1>6 DEF Connect
  <1>7. CASE OtherOpens \/ OtherCloses
    BY <1>7 DEF OtherOpens, OtherCloses, CloseFd, Lowest, Free, Foreign
  <1>8. CASE UNCHANGED vars
    BY <1>8 DEF vars
  <1>9. QED
    BY <1>1, <1>2, <1>3, <1>4, <1>5, <1>6, <1>7, <1>8 DEF Next

(* Every behaviour keeps what the refinement rests on.                      *)
LEMMA RefinementInvariant == Spec => [](WakeInv /\ ServedInv /\ OnceInv)
  <1>1. Init => WakeInv /\ OnceInv
    BY DEF Init, WakeInv, LeavesOnlyWhenStopped, Leaving, OnceInv, Starting
  <1>2. QED
    BY <1>1, ServerTypes, CallInvariant, ReceiverInvariant, LifeInvariant, ServedInvariant,
       WakeStep, OnceStep, PTL DEF Spec

-----------------------------------------------------------------------------
(* The refinement, step by step *)

AllInv == /\ TypeOK /\ CallInv /\ ReceiverInv /\ LifeInv /\ WakeInv /\ ServedInv /\ OnceInv
          /\ Discipline = "once"
AbstractStep == [Abstract!Next]_(Abstract!vars)
PortKept == Port' = Port
Ending == phase # "new" /\ ~running
Over == phase = "stopped"

(* A step that changes nothing the promise speaks of is a stutter.          *)
LEMMA Stutter ==
    ASSUME PortKept, Ending' = Ending, Over' = Over, status' = status
    PROVE  AbstractStep
  BY DEF AbstractStep, PortKept, Ending, Over, Abstract!vars

(* A step that only brings the end closer is End or a stutter.              *)
LEMMA Ends ==
    ASSUME PortKept, Ending', Over' = Over, status' = status
    PROVE  AbstractStep
  BY DEF AbstractStep, PortKept, Ending, Over, Abstract!vars, Abstract!Next, Abstract!End

(* The calls of the owner: start() opens the port or ends the matter,       *)
(* stop() asks for the end and concludes.                                   *)
LEMMA CallRefines == AllInv /\ (StartSocket \/ OwnerStop \/ CallStep) => AbstractStep
  <1> SUFFICES ASSUME AllInv, StartSocket \/ OwnerStop \/ CallStep PROVE AbstractStep
    OBVIOUS
  <1> USE FdsAssumption DEF AllInv, object, calls, thread
  <1>1. CASE StartSocket
    <2>1. phase = "new" /\ ~running /\ status' = status /\ running' = running
      BY <1>1 DEF StartSocket, MayStart, OnceInv
    <2>2. PortKept
      <3>1. \A f \in Fds : files'[f] = "listening" <=> files[f] = "listening"
        BY <1>1 DEF StartSocket, Lowest, Free, TypeOK
      <3>2. pollFd' = pollFd
        BY <1>1 DEF StartSocket
      <3>3. QED
        BY <3>1, <3>2 DEF PortKept, Port, Listening
    <2>3. CASE phase' = phase
      BY <2>1, <2>2, <2>3, Stutter DEF Ending, Over
    <2>4. CASE phase' = "failed"
      BY <2>1, <2>2, <2>4, Ends DEF Ending, Over
    <2>5. QED
      BY <1>1, <2>3, <2>4 DEF StartSocket, Raise
  <1>2. CASE OwnerStop
    <2>1. phase # "new" /\ running' = FALSE /\ status' = status /\ phase' = phase
      BY <1>2 DEF OwnerStop, MayStop, StopBy
    <2>2. PortKept
      BY <1>2 DEF OwnerStop, StopBy, PortKept, Port, Listening
    <2>3. QED
      BY <2>1, <2>2, Ends DEF Ending, Over
  <1>3. CASE StartBind
    <2>1. phase = "new" /\ ~running /\ status' = status /\ running' = running
      BY <1>3 DEF StartBind, OnceInv, Starting
    <2>2. PortKept
      BY <1>3 DEF StartBind, PortKept, Port, Listening
    <2>3. CASE phase' = phase
      BY <2>1, <2>2, <2>3, Stutter DEF Ending, Over
    <2>4. CASE phase' = "failed"
      BY <2>1, <2>2, <2>4, Ends DEF Ending, Over
    <2>5. QED
      BY <1>3, <2>3, <2>4 DEF StartBind, Raise, Proceed
  <1>4. CASE StartListen
    <2>1. /\ phase = "new" /\ ~running /\ pollFd = NoFd
          /\ status' = status /\ running' = running /\ pollFd' = pollFd
      BY <1>4 DEF StartListen, OnceInv, Starting
    <2>2. CASE phase' = "failed"
      <3>1. files' = files
        BY <1>4, <2>1, <2>2 DEF StartListen, Proceed
      <3>2. PortKept
        BY <2>1, <3>1 DEF PortKept, Port, Listening
      <3>3. QED
        BY <2>1, <2>2, <3>2, Ends DEF Ending, Over
    <2>3. CASE phase' # "failed"
      <3>1. /\ Bindable /\ phase' = phase
            /\ files' = [files EXCEPT ![sock] = "listening"]
        BY <1>4, <2>3 DEF StartListen, Proceed, Raise
      <3>2. Listening = {} /\ sock \in Listening'
        BY <3>1 DEF Bindable, Listening, TypeOK
      <3>3. Port = "closed" /\ Port' = "open"
        BY <2>1, <3>2 DEF Port
      <3>4. Abstract!Open
        BY <2>1, <3>1, <3>3 DEF Abstract!Open
      <3>5. QED
        BY <3>4 DEF AbstractStep, Abstract!Next
    <2>4. QED
      BY <2>2, <2>3
  <1>5. CASE StartRun
    <2>1. phase = "new" /\ phase' = "started" /\ running' = TRUE /\ status' = status
      BY <1>5 DEF StartRun, OnceInv, Starting
    <2>2. Listening # {} /\ Listening' = Listening
      BY <1>5 DEF StartRun, ReceiverInv, Listening
    <2>3. PortKept
      BY <2>2 DEF PortKept, Port
    <2>4. QED
      BY <2>1, <2>3, Stutter DEF Ending, Over
  <1>6. CASE StopWake
    <2>1. PortKept
      BY <1>6 DEF StopWake, PortKept, Port, Listening
    <2>2. QED
      BY <1>6, <2>1, Stutter DEF StopWake, Proceed, Ending, Over
  <1>7. CASE StopReturn \/ StopTimeout
    <2>1. UNCHANGED <<object, files, status>> /\ call = "wait"
      BY <1>7 DEF StopReturn, StopTimeout, StopEnds
    <2>2. PortKept
      BY <2>1 DEF PortKept, Port, Listening
    <2>3. Ending
      BY <2>1 DEF OnceInv, WakeInv, Ending
    <2>4. phase' # "new"
      BY <1>7, <2>3 DEF StopReturn, StopTimeout, StopEnds, Ending
    <2>5. CASE StopTimeout
      <3>1. ~Over /\ ~Over'
        BY <2>5 DEF StopTimeout, StopEnds, LifeInv, OnceInv, Starting, Over
      <3>2. Ending'
        BY <2>1, <2>3, <2>4 DEF Ending
      <3>3. QED
        BY <2>1, <2>2, <3>1, <3>2, Ends DEF Over
    <2>6. CASE StopReturn
      <3>1. Listening = {}
        <4>1. sock = NoFd /\ \A f \in Listening : sock = f
          BY <2>6 DEF StopReturn, LifeInv, OnceInv, NoOrphanListener
        <4>2. \A f \in Listening : f # NoFd
          BY DEF Listening
        <4>3. QED
          BY <4>1, <4>2
      <3>2. gil \notin Threads
        BY <2>6 DEF StopReturn, LifeInv, OnceInv, CallInv, Live
      <3>3. phase' = "stopped"
        BY <2>6, <3>2 DEF StopReturn, StopEnds
      <3>4. Abstract!Conclude
        BY <2>1, <2>2, <2>3, <2>4, <3>1, <3>3 DEF Abstract!Conclude, PortKept, Port, Ending
      <3>5. QED
        BY <3>4 DEF AbstractStep, Abstract!Next
    <2>7. QED
      BY <1>7, <2>5, <2>6
  <1>8. QED
    BY <1>1, <1>2, <1>3, <1>4, <1>5, <1>6, <1>7 DEF CallStep

(* The steps of the thread: accept() serves a client, the response or the   *)
(* fallback close finishes it, close(sock) gives up the port.               *)
LEMMA NativeRefines == \A t \in Threads : AllInv /\ NativeStep(t) => AbstractStep
  <1> SUFFICES ASSUME NEW t \in Threads, AllInv, NativeStep(t) PROVE AbstractStep
    OBVIOUS
  <1> USE FdsAssumption, ClientsAssumption DEF AllInv, object, calls, thread, TypeOK
  <1> USE DEF Step, Goto, LocalStep
  <1>1. UNCHANGED <<pollFd, running, phase>>
    BY DEF NativeStep, LoopTest, PollWake, PollClient, PollFail, Drain, AcceptClient,
         AcceptFail, Recv, Send, CloseClient, NoFallback, Fallback, NoSocket,
         CloseSocket, UnsetSocket
  <1>2. ASSUME UNCHANGED <<files, status>> PROVE AbstractStep
    BY <1>1, <1>2, Stutter DEF PortKept, Port, Listening, Ending, Over
  <1>3. CASE \/ LoopTest(t) \/ PollWake(t) \/ PollClient(t) \/ PollFail(t) \/ Drain(t)
             \/ AcceptFail(t) \/ Recv(t) \/ NoFallback(t) \/ NoSocket(t) \/ UnsetSocket(t)
    BY <1>2, <1>3 DEF LoopTest, PollWake, PollClient, PollFail, Drain, AcceptFail, Recv,
         NoFallback, NoSocket, UnsetSocket
  <1>4. ASSUME \A f \in Fds : files'[f] = "listening" <=> files[f] = "listening"
        PROVE  PortKept
    BY <1>1, <1>4 DEF PortKept, Port, Listening
  <1>5. ASSUME Active(t) PROVE \A u \in Threads : Active(u) => u = t
    BY <1>5 DEF ReceiverInv, OneReceiver
  <1>6. CASE AcceptClient(t)
    <2>1. PICK c \in Clients, f \in Fds :
            /\ status[c] = "queued" /\ files[f] = "closed"
            /\ files' = [files EXCEPT ![f] = "conn"]
            /\ status' = [status EXCEPT ![c] = "open"]
      BY <1>6 DEF AcceptClient, Queued, Lowest, Free
    <2>2. PortKept
      BY <2>1, <1>4
    <2>3. \A d \in Clients : status[d] # "open"
      BY <1>6, <1>5 DEF AcceptClient, ServedInv, Serving, Active, InLoop
    <2>4. Abstract!Serve(c)
      BY <1>1, <2>1, <2>2, <2>3 DEF Abstract!Serve, PortKept
    <2>5. QED
      BY <2>4 DEF AbstractStep, Abstract!Next
  <1>7. ASSUME NEW c \in Clients, NEW end \in {"answered", "dropped"}, PortKept,
               status[c] = "open", status' = [status EXCEPT ![c] = end]
        PROVE  AbstractStep
    <2>1. Abstract!Finish(c)
      BY <1>1, <1>7 DEF Abstract!Finish, PortKept
    <2>2. QED
      BY <2>1 DEF AbstractStep, Abstract!Next
  <1>8. CASE Send(t)
    <2>1. PortKept
      BY <1>8, <1>1 DEF Send, PortKept, Port, Listening
    <2>2. CASE status' = status
      BY <1>8, <1>2, <2>2 DEF Send
    <2>3. CASE status' = [status EXCEPT ![peer[t]] = "answered"] /\ pc[t] = "send"
      <3>1. peer[t] \in Clients /\ status[peer[t]] = "open"
        BY <2>3 DEF ServedInv
      <3>2. QED
        BY <1>7, <2>1, <2>3, <3>1
    <2>4. QED
      BY <1>8, <2>2, <2>3 DEF Send
  <1>9. ASSUME client[t] # NoFd => files[client[t]] # "listening",
               files' = [files EXCEPT ![client[t]] = "closed"]
        PROVE  PortKept
    BY <1>4, <1>9
  <1>10. CASE CloseClient(t)
    <2>1. PortKept
      BY <1>9, <1>10 DEF CloseClient, CloseFd, ReceiverInv
    <2>2. QED
      BY <1>1, <1>10, <2>1, Stutter DEF CloseClient, Ending, Over
  <1>11. CASE Fallback(t)
    <2>1. PortKept
      BY <1>9, <1>11 DEF Fallback, CloseFd, ReceiverInv
    <2>2. peer[t] \in Clients
      BY <1>11 DEF Fallback, ServedInv
    <2>3. CASE status[peer[t]] = "open"
      BY <1>7, <1>11, <2>1, <2>2, <2>3 DEF Fallback
    <2>4. CASE status[peer[t]] # "open"
      <3>1. status' = status
        BY <1>11, <2>2, <2>4 DEF Fallback
      <3>2. QED
        BY <1>1, <2>1, <3>1, Stutter DEF Ending, Over
    <2>5. QED
      BY <2>3, <2>4
  <1>12. CASE CloseSocket(t)
    <2>1. sock \in Fds /\ files' = [files EXCEPT ![sock] = "closed"]
      BY <1>12 DEF CloseSocket, CloseFd
    <2>2. CASE files[sock] # "listening"
      <3>1. PortKept
        BY <1>4, <2>1, <2>2
      <3>2. status' = status
        BY <1>12, <2>2 DEF CloseSocket, ResetQueueOf
      <3>3. QED
        BY <1>1, <3>1, <3>2, Stutter DEF Ending, Over
    <2>3. CASE files[sock] = "listening"
      <3>1. Listening = {sock}
        BY <2>1, <2>3 DEF LifeInv, OnceInv, NoOrphanListener, Listening
      <3>2. Listening' = {}
        BY <2>1, <3>1 DEF Listening
      <3>3. phase \in {"started", "stuck"} /\ pollFd # NoFd
        BY <1>12 DEF CloseSocket, LifeInv, OnceInv, Live
      <3>4. Port = "open" /\ Port' = "closed"
        BY <1>1, <3>1, <3>2, <3>3 DEF Port
      <3>5. Ending
        BY <1>12, <3>3 DEF CloseSocket, WakeInv, OnceInv, LeavesOnlyWhenStopped, Leaving, Ending
      <3>6. \A c \in Clients : status[c] # "open"
        BY <1>12, <1>5 DEF CloseSocket, ServedInv, Serving, Active, InLoop
      <3>7. status' = [c \in Clients |-> IF status[c] = "queued" THEN "dropped" ELSE status[c]]
        BY <1>12, <2>3 DEF CloseSocket, ResetQueueOf, Queued
      <3>8. Abstract!Close
        BY <1>1, <3>4, <3>5, <3>6, <3>7 DEF Abstract!Close, Ending
      <3>9. QED
        BY <3>8 DEF AbstractStep, Abstract!Next
    <2>4. QED
      BY <2>2, <2>3
  <1>13. QED
    BY <1>3, <1>6, <1>8, <1>10, <1>11, <1>12 DEF NativeStep

(* Of what Python code does only stop() in a callback matters.              *)
LEMMA PythonRefines == \A t \in Threads : AllInv /\ PythonStep(t) => AbstractStep
  <1> SUFFICES ASSUME NEW t \in Threads, AllInv, PythonStep(t) PROVE AbstractStep
    OBVIOUS
  <1> USE DEF AllInv, object, calls, thread
  <1>1. UNCHANGED <<files, status, pollFd, phase>>
    BY DEF PythonStep, CallbackReturn, CallbackRaise, CallbackStop, StopBy, Alert, LocalStep
  <1>2. PortKept
    BY <1>1 DEF PortKept, Port, Listening
  <1>3. CASE running' = running
    BY <1>1, <1>2, <1>3, Stutter DEF Ending, Over
  <1>4. CASE CallbackStop(t)
    <2>1. phase # "new" /\ running' = FALSE
      BY <1>4 DEF CallbackStop, StopBy, LifeInv, OnceInv, Live
    <2>2. QED
      BY <1>1, <1>2, <2>1, Ends DEF Ending, Over
  <1>5. QED
    BY <1>3, <1>4 DEF PythonStep, CallbackReturn, CallbackRaise, Alert, LocalStep

(* Used as in echo_server.py, one start() and a stop() that is repeated     *)
(* while it throws, the server implements ServerPromise: it serves one      *)
(* client at a time, gives up the port only when it is asked to, and after  *)
(* a normal stop() it has.  This is the safety half of KeepsPromise.        *)
THEOREM ServerImplementsPromise ==
    ASSUME Discipline = "once"
    PROVE  Spec => Abstract!Spec
  <1>1. Init => Abstract!Init
    BY DEF Init, Abstract!Init, Port, Listening
  <1>2. ASSUME AllInv, NEW c \in Clients, Connect(c) PROVE AbstractStep
    <2>1. Abstract!Connect(c)
      BY <1>2 DEF Connect, Abstract!Connect, Port, Listening, object, calls
    <2>2. QED
      BY <2>1 DEF AbstractStep, Abstract!Next
  <1>3. ASSUME AllInv, OtherOpens \/ OtherCloses PROVE AbstractStep
    <2>1. \A f \in Fds : files'[f] = "listening" <=> files[f] = "listening"
      BY <1>3 DEF OtherOpens, OtherCloses, CloseFd, Lowest, Free, Foreign, AllInv, TypeOK
    <2>2. UNCHANGED <<object, calls, status>>
      BY <1>3 DEF OtherOpens, OtherCloses
    <2>3. PortKept
      BY <2>1, <2>2 DEF object, PortKept, Port, Listening
    <2>4. QED
      BY <2>2, <2>3, Stutter DEF object, calls, Ending, Over
  <1>4. ASSUME UNCHANGED vars PROVE AbstractStep
    BY <1>4, Stutter DEF vars, object, calls, PortKept, Port, Listening, Ending, Over
  <1>5. AllInv /\ [Next]_vars => AbstractStep
    BY <1>2, <1>3, <1>4, CallRefines, PythonRefines, NativeRefines DEF Next
  <1>6. TypeOK /\ CallInv /\ ReceiverInv /\ LifeInv /\ WakeInv /\ ServedInv /\ OnceInv => AllInv
    BY DEF AllInv
  <1>7. QED
    BY <1>1, <1>5, <1>6, ServerTypes, CallInvariant, ReceiverInvariant, LifeInvariant,
       RefinementInvariant, PTL DEF Spec, Abstract!Spec, AbstractStep
=============================================================================
