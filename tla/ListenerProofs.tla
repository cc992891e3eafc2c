--------------------------- MODULE ListenerProofs ---------------------------
(* Proofs about Listener, for any threads, bounds and discipline.           *)
EXTENDS Listener, SequenceTheorems, TLAPS

(* Every step keeps every variable in its type.                             *)
LEMMA TypeStep == TypeOK /\ [Next]_vars => TypeOK'
  <1> SUFFICES ASSUME TypeOK, [Next]_vars PROVE TypeOK'
    OBVIOUS
  <1> USE BoundsAssumption DEF TypeOK, owner, thread, network, Step, Goto, Fault, NoFault,
        LocalStep, StopEnds
  <1>1. CASE Start \/ Stop \/ CallStep \/ OtherOpens
    <2>1. CASE Start
      BY <2>1 DEF Start
    <2>2. CASE Stop
      BY <2>2 DEF Stop
    <2>3. CASE CallStep
      BY <2>3 DEF CallStep, StopReturn, StopTimeout
    <2>4. CASE OtherOpens
      BY <2>4 DEF OtherOpens
    <2>5. QED
      BY <1>1, <2>1, <2>2, <2>3, <2>4
  <1>2. CASE Destroy
    <2>1. buffer' \in Seq(Numbers)
      BY <1>2 DEF Destroy
    <2>2. QED
      BY <1>2, <2>1 DEF Destroy
  <1>3. CASE Arrive
    <2>1. arrived + 1 \in Numbers
      BY <1>3 DEF Arrive, Numbers
    <2>2. buffer' \in Seq(Numbers)
      BY <1>3, <2>1 DEF Arrive
    <2>3. QED
      BY <1>3, <2>2 DEF Arrive
  <1>4. ASSUME NEW t \in Threads, PythonStep(t) PROVE TypeOK'
    <2>1. CASE Callback(t)
      <3>1. held[t] \in Numbers
        BY <2>1 DEF Callback, Numbers
      <3>2. heard' \in Seq(Numbers)
        BY <2>1, <3>1 DEF Callback
      <3>3. faults' \in 0..MaxFaults
        <4>1. NoFault \/ Fault
          BY <2>1 DEF Callback
        <4>2. QED
          BY <4>1
      <3>4. pc' = [pc EXCEPT ![t] = "top"] \/ pc' = [pc EXCEPT ![t] = "alert"]
        BY <2>1 DEF Callback
      <3>5. held' = [held EXCEPT ![t] = 0]
        BY <2>1 DEF Callback
      <3>6. \A u \in Threads : pc'[u] = "callback" => held'[u] # 0
        BY <3>4, <3>5
      <3>7. held' \in [Threads -> 0..Datagrams]
        BY <3>5
      <3>8. pc' \in [Threads -> {"none", "top", "recv", "callback", "alert",
                                 "closing", "unset", "lastalert"}]
        BY <3>4
      <3>9. UNCHANGED <<sock, running, file, arrived, buffer, stopping, misused, phase, discipline,
                         dangling>>
        BY <2>1 DEF Callback
      <3>10. QED
        BY <3>2, <3>3, <3>6, <3>7, <3>8, <3>9
    <2>2. CASE Alert(t)
      BY <2>2 DEF Alert
    <2>3. QED
      BY <1>4, <2>1, <2>2 DEF PythonStep
  <1>5. ASSUME NEW t \in Threads, NativeStep(t) PROVE TypeOK'
    <2>1. CASE Recv(t)
      <3>1. Head(buffer) \in Numbers /\ buffer' \in Seq(Numbers)
        BY <2>1 DEF Recv
      <3>2. Head(buffer) \in 0..Datagrams /\ Head(buffer) # 0
        BY <3>1 DEF Numbers
      <3>3. QED
        BY <2>1, <3>1, <3>2 DEF Recv
    <2>2. CASE LoopTest(t) \/ RecvNothing(t) \/ NoSocket(t) \/ UnsetSocket(t)
      <3>1. /\ pc' \in [Threads -> {"none", "top", "recv", "callback", "alert",
                                    "closing", "unset", "lastalert"}]
            /\ \A u \in Threads : pc'[u] = "callback" => pc[u] = "callback"
        BY <2>2 DEF LoopTest, RecvNothing, NoSocket, UnsetSocket
      <3>2. /\ UNCHANGED <<running, file, arrived, buffer, heard, stopping, misused, phase,
                           discipline, held, dangling, faults>>
            /\ sock' \in BOOLEAN
        BY <2>2 DEF LoopTest, RecvNothing, NoSocket, UnsetSocket
      <3>3. QED
        BY <3>1, <3>2
    <2>3. CASE CloseSocket(t)
      <3>1. buffer' \in Seq(Numbers)
        BY <2>3 DEF CloseSocket
      <3>2. faults' \in 0..MaxFaults /\ dangling' \in {"no", "left", "reused"}
        BY <2>3 DEF CloseSocket
      <3>3. /\ pc' \in [Threads -> {"none", "top", "recv", "callback", "alert",
                                    "closing", "unset", "lastalert"}]
            /\ \A u \in Threads : pc'[u] = "callback" => pc[u] = "callback"
        BY <2>3 DEF CloseSocket
      <3>4. /\ UNCHANGED <<sock, running, arrived, heard, stopping, misused, phase,
                           discipline, held>>
            /\ file' = "free"
        BY <2>3 DEF CloseSocket
      <3>5. QED
        BY <3>1, <3>2, <3>3, <3>4
    <2>4. CASE RecvFail(t)
      <3>1. faults' \in 0..MaxFaults
        BY <2>4 DEF RecvFail
      <3>2. QED
        BY <2>4, <3>1 DEF RecvFail
    <2>5. QED
      BY <1>5, <2>1, <2>2, <2>3, <2>4 DEF NativeStep
  <1>6. CASE UNCHANGED vars
    BY <1>6 DEF vars
  <1>7. QED
    BY <1>1, <1>2, <1>3, <1>4, <1>5, <1>6 DEF Next

(* Type correctness of the listener.                                        *)
THEOREM ListenerTypes == Spec => []TypeOK
  <1>1. Init => TypeOK
    <2> SUFFICES ASSUME Init PROVE TypeOK
      OBVIOUS
    <2>1. buffer \in Seq(Numbers) /\ heard \in Seq(Numbers)
      BY DEF Init
    <2>2. arrived \in 0..Datagrams /\ faults \in 0..MaxFaults /\ 0 \in 0..Datagrams
      BY BoundsAssumption DEF Init
    <2>3. QED
      BY <2>1, <2>2 DEF Init, TypeOK
  <1>2. QED
    BY <1>1, TypeStep, PTL DEF Spec

-----------------------------------------------------------------------------
(* LifeInv is inductive: a thread that is alone with the socket leaves it   *)
(* only by closing it, and stop() is content only when it is gone.          *)
LEMMA LifeStep == TypeOK /\ LifeInv /\ [Next]_vars => LifeInv'
  <1> SUFFICES ASSUME TypeOK, LifeInv, [Next]_vars PROVE LifeInv'
    OBVIOUS
  <1> USE DEF TypeOK, LifeInv, Live, owner, thread, network, Step, Goto, LocalStep
  <1>1. CASE Start
    BY <1>1 DEF Start
  <1>2. CASE Stop \/ CallStep
    BY <1>2 DEF Stop, CallStep, StopReturn, StopTimeout, StopEnds
  <1>3. CASE Destroy
    BY <1>3 DEF Destroy, MayDestroy
  <1>4. CASE Arrive \/ OtherOpens
    BY <1>4 DEF Arrive, OtherOpens
  <1>5. ASSUME NEW t \in Threads, PythonStep(t) PROVE LifeInv'
    BY <1>5 DEF PythonStep, Callback, Alert
  <1>6. ASSUME NEW t \in Threads, NativeStep(t) PROVE LifeInv'
    <2>1. CASE LoopTest(t)
      BY <2>1, SMTT(60) DEF LoopTest
    <2>2. CASE RecvNothing(t)
      BY <2>2, SMTT(60) DEF RecvNothing
    <2>3. CASE RecvFail(t)
      BY <2>3, SMTT(60) DEF RecvFail
    <2>4. CASE NoSocket(t)
      BY <2>4, SMTT(60) DEF NoSocket
    <2>5. CASE Recv(t)
      BY <2>5, SMTT(60) DEF Recv
    <2>6. CASE CloseSocket(t)
      BY <2>6, SMTT(60) DEF CloseSocket
    <2>7. CASE UnsetSocket(t)
      BY <2>7, SMTT(60) DEF UnsetSocket
    <2>8. QED
      BY <1>6, <2>1, <2>2, <2>3, <2>4, <2>5, <2>6, <2>7 DEF NativeStep
  <1>7. CASE UNCHANGED vars
    BY <1>7 DEF vars
  <1>8. QED
    BY <1>1, <1>2, <1>3, <1>4, <1>5, <1>6, <1>7 DEF Next

LEMMA LifeInit == Init => LifeInv
  BY DEF Init, LifeInv, Live

LEMMA ListenerLife == Spec => [](TypeOK /\ LifeInv)
  BY LifeInit, LifeStep, ListenerTypes, PTL DEF Spec

(* Unless it is started twice a listener touches no descriptor but its own, *)
(* with any number of threads and restarts, or it is started again after    *)
(* its close() has reported an error.                                       *)
THEOREM ListenerNoForeignUse == Spec => []NoForeignUse
  <1>1. TypeOK /\ LifeInv => NoForeignUse
    <2> SUFFICES ASSUME TypeOK, LifeInv, ~misused, sock, file # "own" PROVE NoForeignUse
      BY DEF NoForeignUse
    <2>1. CASE dangling = "no"
      <3>1. PICK t \in Threads : pc[t] = "unset"
        BY <2>1 DEF LifeInv
      <3>2. \A u \in Threads : Live(u) => u = t
        BY <3>1 DEF LifeInv, Live
      <3>3. QED
        BY <2>1, <3>1, <3>2 DEF NoForeignUse
    <2>2. CASE dangling = "left"
      BY <2>2 DEF LifeInv, NoForeignUse
    <2>3. QED
      BY <2>1, <2>2 DEF TypeOK, NoForeignUse
  <1>2. QED
    BY <1>1, ListenerLife, PTL

(* After a normal stop() nothing is delivered, also after a restart.        *)
THEOREM ListenerSilentAfterStop == Spec => SilentAfterStop
  <1>1. TypeOK /\ LifeInv /\ [Next]_vars => [~misused /\ phase = "stopped" => heard' = heard]_vars
    <2> SUFFICES ASSUME LifeInv, [Next]_vars, ~misused, phase = "stopped" PROVE heard' = heard
      OBVIOUS
    <2>1. \A t \in Threads : ~Callback(t)
      BY DEF LifeInv, Callback, Step
    <2>2. QED
      BY <2>1 DEF Next, Start, Stop, Destroy, CallStep, StopReturn, StopTimeout, StopEnds,
         Arrive, OtherOpens, PythonStep, Alert, NativeStep, LoopTest, Recv, RecvNothing,
         RecvFail, NoSocket, CloseSocket, UnsetSocket, LocalStep, vars
  <1>2. QED
    BY <1>1, ListenerLife, PTL DEF Spec, SilentAfterStop

-----------------------------------------------------------------------------
(* A listener used once loses its thread and its socket together.           *)
LEMMA OnceStep == TypeOK /\ LifeInv /\ OnceInv /\ [Next]_vars => OnceInv'
  <1>0. ASSUME OnceInv, [Next]_vars
        PROVE  discipline' = discipline /\ (phase' = "gone" => discipline = "once")
    BY <1>0 DEF OnceInv, Next, Start, Stop, Destroy, MayDestroy, CallStep, StopReturn,
       StopTimeout, StopEnds, Arrive, OtherOpens, PythonStep, Callback, Alert, NativeStep,
       LoopTest, Recv, RecvNothing, RecvFail, NoSocket, CloseSocket, UnsetSocket, LocalStep,
       owner, vars
  <1> SUFFICES ASSUME TypeOK, LifeInv, OnceInv, [Next]_vars, discipline = "once"
               PROVE  ~misused' /\ \A t \in Threads : Live(t)' => sock'
    BY <1>0 DEF OnceInv
  <1> USE DEF TypeOK, LifeInv, OnceInv, Live, owner, thread, network, Step, Goto, LocalStep
  <1>1. CASE Start
    BY <1>1 DEF Start, MayStart
  <1>2. CASE Stop \/ CallStep
    BY <1>2 DEF Stop, CallStep, StopReturn, StopTimeout, StopEnds
  <1>3. CASE Destroy
    BY <1>3 DEF Destroy, MayDestroy
  <1>4. CASE Arrive \/ OtherOpens
    BY <1>4 DEF Arrive, OtherOpens
  <1>5. ASSUME NEW t \in Threads, PythonStep(t) PROVE ~misused' /\ \A u \in Threads : Live(u)' => sock'
    BY <1>5 DEF PythonStep, Callback, Alert
  <1>6. ASSUME NEW t \in Threads, NativeStep(t) PROVE ~misused' /\ \A u \in Threads : Live(u)' => sock'
    <2>1. CASE UnsetSocket(t)
      BY <2>1 DEF UnsetSocket
    <2>2. CASE ~UnsetSocket(t)
      BY <1>6, <2>2 DEF NativeStep, LoopTest, RecvNothing, RecvFail, NoSocket, Recv, CloseSocket
    <2>3. QED
      BY <2>1, <2>2
  <1>7. CASE UNCHANGED vars
    BY <1>7 DEF vars
  <1>8. QED
    BY <1>1, <1>2, <1>3, <1>4, <1>5, <1>6, <1>7 DEF Next

(* The thread of a listener that was dropped has ended.                     *)
THEOREM ListenerNoUseAfterDestroy == Spec => []NoUseAfterDestroy
  <1>1. Init => OnceInv
    BY DEF Init, OnceInv, Live
  <1>2. LifeInv /\ OnceInv => NoUseAfterDestroy
    BY DEF LifeInv, OnceInv, NoUseAfterDestroy
  <1>3. QED
    BY <1>1, <1>2, ListenerLife, OnceStep, PTL DEF Spec

-----------------------------------------------------------------------------
(* Appending a larger number, and dropping the first one, keep a sequence   *)
(* increasing.                                                              *)
LEMMA AppendIncreasing ==
    ASSUME NEW s \in Seq(Int), NEW e \in Int, Increasing(s),
           \A i \in DOMAIN s : s[i] < e
    PROVE  /\ Increasing(Append(s, e))
           /\ \A i \in DOMAIN Append(s, e) : (i \in DOMAIN s /\ Append(s, e)[i] = s[i])
                                             \/ Append(s, e)[i] = e
  <1>1. DOMAIN s = 1..Len(s) /\ DOMAIN Append(s, e) = 1..(Len(s) + 1) /\ Len(s) \in Nat
    OBVIOUS
  <1>2. \A i \in 1..Len(s) : Append(s, e)[i] = s[i]
    OBVIOUS
  <1>3. Append(s, e)[Len(s) + 1] = e
    OBVIOUS
  <1>4. QED
    BY <1>1, <1>2, <1>3 DEF Increasing

LEMMA TailIncreasing ==
    ASSUME NEW s \in Seq(Int), s # <<>>, Increasing(s)
    PROVE  /\ Increasing(Tail(s))
           /\ \A i \in DOMAIN Tail(s) : Head(s) < Tail(s)[i]
           /\ \A i \in DOMAIN Tail(s) : \E j \in DOMAIN s : Tail(s)[i] = s[j]
           /\ 1 \in DOMAIN s /\ Head(s) = s[1]
  <1>1. DOMAIN s = 1..Len(s) /\ DOMAIN Tail(s) = 1..(Len(s) - 1) /\ Len(s) \in Nat \ {0}
    OBVIOUS
  <1>2. \A i \in 1..(Len(s) - 1) : Tail(s)[i] = s[i + 1]
    OBVIOUS
  <1>3. Head(s) = s[1] /\ 1 \in DOMAIN s
    BY <1>1
  <1>4. \A i \in 1..(Len(s) - 1) : i + 1 \in 1..Len(s) /\ 1 < i + 1
    BY <1>1
  <1>5. Increasing(Tail(s))
    BY <1>1, <1>2, <1>4 DEF Increasing
  <1>6. \A i \in DOMAIN Tail(s) : Head(s) < Tail(s)[i]
    BY <1>1, <1>2, <1>3, <1>4 DEF Increasing
  <1>7. \A i \in DOMAIN Tail(s) : \E j \in DOMAIN s : Tail(s)[i] = s[j]
    BY <1>1, <1>2, <1>4
  <1>8. QED
    BY <1>3, <1>5, <1>6, <1>7

(* Appending a new element keeps a sequence free of repetitions.            *)
LEMMA AppendApart ==
    ASSUME NEW s \in Seq(Int), NEW e \in Int,
           \A i, j \in DOMAIN s : i < j => s[i] # s[j], \A i \in DOMAIN s : s[i] # e
    PROVE  /\ \A i, j \in DOMAIN Append(s, e) : i < j => Append(s, e)[i] # Append(s, e)[j]
           /\ \A i \in DOMAIN Append(s, e) : (i \in DOMAIN s /\ Append(s, e)[i] = s[i])
                                             \/ Append(s, e)[i] = e
  <1>1. DOMAIN s = 1..Len(s) /\ DOMAIN Append(s, e) = 1..(Len(s) + 1) /\ Len(s) \in Nat
    OBVIOUS
  <1>2. \A i \in 1..Len(s) : Append(s, e)[i] = s[i]
    OBVIOUS
  <1>3. Append(s, e)[Len(s) + 1] = e
    OBVIOUS
  <1>4. QED
    BY <1>1, <1>2, <1>3

(* What TypeOK says of the datagrams, as plain integers.                    *)
LEMMA DatagramTypes ==
    ASSUME TypeOK
    PROVE  /\ heard \in Seq(Int) /\ buffer \in Seq(Int) /\ arrived \in Int
           /\ \A t \in Threads : held[t] \in Int
           /\ heard \in Seq(Numbers) /\ buffer \in Seq(Numbers)
  BY BoundsAssumption DEF TypeOK, Numbers

(* ApartInv is inductive, with any number of threads: a datagram moves from *)
(* the end of the buffer to its head, to a thread, and to listenCallback.   *)
LEMMA ApartStep == TypeOK /\ ApartInv /\ [Next]_vars => ApartInv'
  <1> SUFFICES ASSUME TypeOK, ApartInv, [Next]_vars PROVE ApartInv'
    OBVIOUS
  <1>1. /\ heard \in Seq(Int) /\ buffer \in Seq(Int) /\ arrived \in Int
        /\ \A t \in Threads : held[t] \in Int
        /\ heard \in Seq(Numbers) /\ buffer \in Seq(Numbers)
    BY DatagramTypes
  <1>2. ASSUME UNCHANGED <<heard, buffer, arrived, held>>, \A t \in Threads : Held(t)' => Held(t)
        PROVE  ApartInv'
    BY <1>2 DEF ApartInv, Increasing
  <1>3. ASSUME buffer' = <<>>, UNCHANGED <<heard, arrived, held>>,
               \A t \in Threads : Held(t)' => Held(t)
        PROVE  ApartInv'
    BY <1>3 DEF ApartInv, Increasing
  <1> USE DEF TypeOK, owner, thread, network, Step, Goto, LocalStep, Held
  <1>4. CASE Start \/ Stop \/ CallStep \/ OtherOpens
    BY <1>2, <1>4 DEF Start, Stop, CallStep, StopReturn, StopTimeout, StopEnds, OtherOpens
  <1>5. CASE Destroy
    BY <1>2, <1>3, <1>5 DEF Destroy
  <1>6. CASE Arrive
    <2>1. CASE buffer' = buffer
      BY <1>1, <1>6, <2>1 DEF Arrive, ApartInv, Increasing
    <2>2. CASE buffer' = Append(buffer, arrived + 1)
      <3>1. /\ Increasing(buffer')
            /\ \A i \in DOMAIN buffer' : (i \in DOMAIN buffer /\ buffer'[i] = buffer[i])
                                         \/ buffer'[i] = arrived + 1
        <4>1. \A i \in DOMAIN buffer : buffer[i] < arrived + 1
          BY <1>1 DEF ApartInv
        <4>2. QED
          BY <1>1, <2>2, <4>1, AppendIncreasing DEF ApartInv
      <3>2. UNCHANGED <<heard, held, pc>> /\ arrived' = arrived + 1
        BY <1>6 DEF Arrive
      <3>3. \A j \in DOMAIN buffer' : buffer'[j] <= arrived'
        BY <1>1, <3>1, <3>2 DEF ApartInv
      <3>4. \A i \in DOMAIN heard : heard[i] \in Int /\ heard[i] <= arrived
        BY <1>1 DEF ApartInv
      <3>5. \A i \in DOMAIN heard', j \in DOMAIN buffer' : heard'[i] < buffer'[j]
        <4>1. \A i \in DOMAIN heard : heard[i] < arrived + 1
          BY <1>1, <3>4
        <4>2. \A i \in DOMAIN heard, j \in DOMAIN buffer : heard[i] < buffer[j]
          BY DEF ApartInv
        <4>3. QED
          BY <3>1, <3>2, <4>1, <4>2
      <3>6. \A u \in Threads : Held(u)' =>
               /\ held'[u] \in 1..arrived'
               /\ \A i \in DOMAIN heard' : heard'[i] # held'[u]
               /\ \A j \in DOMAIN buffer' : held'[u] < buffer'[j]
        <4> SUFFICES ASSUME NEW u \in Threads, Held(u)
                     PROVE  /\ held[u] \in 1..(arrived + 1)
                            /\ \A i \in DOMAIN heard : heard[i] # held[u]
                            /\ \A j \in DOMAIN buffer' : held[u] < buffer'[j]
          BY <3>2
        <4>1. /\ held[u] \in 1..arrived
              /\ \A i \in DOMAIN heard : heard[i] # held[u]
              /\ \A j \in DOMAIN buffer : held[u] < buffer[j]
          BY DEF ApartInv
        <4>2. held[u] < arrived + 1 /\ held[u] \in 1..(arrived + 1)
          BY <1>1, <4>1
        <4>3. QED
          BY <3>1, <4>1, <4>2
      <3>7. \A i \in DOMAIN heard' : heard'[i] <= arrived'
        BY <1>1, <3>2, <3>4
      <3>8. /\ \A i, j \in DOMAIN heard' : i < j => heard'[i] # heard'[j]
            /\ \A u, v \in Threads : Held(u)' /\ Held(v)' /\ held'[u] = held'[v] => u = v
        BY <3>2 DEF ApartInv
      <3>9. QED
        BY <3>1, <3>3, <3>5, <3>6, <3>7, <3>8 DEF ApartInv
    <2>3. QED
      BY <1>6, <2>1, <2>2 DEF Arrive
  <1>7. ASSUME NEW t \in Threads, PythonStep(t) PROVE ApartInv'
    <2>1. CASE Alert(t)
      BY <1>2, <2>1 DEF Alert
    <2>2. CASE Callback(t)
      <3>1. /\ UNCHANGED <<buffer, arrived>> /\ Held(t) /\ held[t] \in 1..arrived
            /\ \A u \in Threads : Held(u)' => u # t /\ Held(u) /\ held'[u] = held[u]
        BY <2>2 DEF Callback, ApartInv
      <3>2. /\ \A i, j \in DOMAIN heard' : i < j => heard'[i] # heard'[j]
            /\ \A i \in DOMAIN heard' : (i \in DOMAIN heard /\ heard'[i] = heard[i])
                                        \/ heard'[i] = held[t]
        BY <1>1, <2>2, <3>1, AppendApart DEF Callback, ApartInv
      <3>3. \A i \in DOMAIN heard' : heard'[i] <= arrived'
        BY <1>1, <3>1, <3>2 DEF ApartInv
      <3>4. \A i \in DOMAIN heard', j \in DOMAIN buffer' : heard'[i] < buffer'[j]
        BY <1>1, <3>1, <3>2 DEF ApartInv
      <3>5. Increasing(buffer') /\ \A j \in DOMAIN buffer' : buffer'[j] <= arrived'
        BY <3>1 DEF ApartInv, Increasing
      <3>6. \A u \in Threads : Held(u)' =>
               /\ held'[u] \in 1..arrived'
               /\ \A i \in DOMAIN heard' : heard'[i] # held'[u]
               /\ \A j \in DOMAIN buffer' : held'[u] < buffer'[j]
        BY <3>1, <3>2 DEF ApartInv
      <3>7. \A u, v \in Threads : Held(u)' /\ Held(v)' /\ held'[u] = held'[v] => u = v
        BY <3>1 DEF ApartInv
      <3>8. QED
        BY <3>2, <3>3, <3>4, <3>5, <3>6, <3>7 DEF ApartInv
    <2>3. QED
      BY <1>7, <2>1, <2>2 DEF PythonStep
  <1>8. ASSUME NEW t \in Threads, NativeStep(t) PROVE ApartInv'
    <2>1. CASE LoopTest(t) \/ RecvNothing(t) \/ RecvFail(t) \/ NoSocket(t) \/ UnsetSocket(t)
      BY <1>2, <2>1 DEF LoopTest, RecvNothing, RecvFail, NoSocket, UnsetSocket
    <2>2. CASE CloseSocket(t)
      BY <1>3, <2>2 DEF CloseSocket
    <2>3. CASE Recv(t)
      <3>1. UNCHANGED <<heard, arrived>> /\ ~Held(t)
            /\ \A u \in Threads \ {t} : (Held(u)' <=> Held(u)) /\ held'[u] = held[u]
        BY <2>3 DEF Recv
      <3>2. /\ Increasing(buffer') /\ \A i \in DOMAIN buffer' : held'[t] < buffer'[i]
            /\ \A i \in DOMAIN buffer' : \E j \in DOMAIN buffer : buffer'[i] = buffer[j]
            /\ \E j \in DOMAIN buffer : held'[t] = buffer[j]
        BY <1>1, <2>3, TailIncreasing DEF Recv, ApartInv
      <3>3. \A j \in DOMAIN buffer : buffer[j] \in 1..arrived
        <4>1. \A j \in DOMAIN buffer : buffer[j] \in Numbers /\ buffer[j] <= arrived
          BY <1>1 DEF ApartInv
        <4>2. QED
          BY <1>1, <4>1 DEF Numbers
      <3>4. held'[t] \in 1..arrived
        BY <3>2, <3>3
      <3>5. /\ \A i \in DOMAIN heard : heard[i] # held'[t] /\ heard[i] \in Int
            /\ \A u \in Threads : Held(u) => held[u] # held'[t]
        BY <1>1, <3>2 DEF ApartInv
      <3>6. \A u \in Threads : Held(u)' =>
               /\ held'[u] \in 1..arrived'
               /\ \A i \in DOMAIN heard' : heard'[i] # held'[u]
               /\ \A j \in DOMAIN buffer' : held'[u] < buffer'[j]
        <4>1. ASSUME NEW u \in Threads \ {t}, Held(u)
              PROVE  /\ held[u] \in 1..arrived
                     /\ \A i \in DOMAIN heard : heard[i] # held[u]
                     /\ \A j \in DOMAIN buffer : held[u] < buffer[j]
          BY <4>1 DEF ApartInv
        <4>2. ASSUME NEW u \in Threads \ {t}, Held(u)
              PROVE  \A j \in DOMAIN buffer' : held[u] < buffer'[j]
          BY <3>2, <4>1, <4>2
        <4>3. QED
          BY <3>1, <3>2, <3>4, <3>5, <4>1, <4>2
      <3>7. \A u, v \in Threads : Held(u)' /\ Held(v)' /\ held'[u] = held'[v] => u = v
        BY <3>1, <3>5 DEF ApartInv
      <3>8. /\ \A i \in DOMAIN heard' : heard'[i] <= arrived'
            /\ \A j \in DOMAIN buffer' : buffer'[j] <= arrived'
            /\ \A i \in DOMAIN heard', j \in DOMAIN buffer' : heard'[i] < buffer'[j]
            /\ \A i, j \in DOMAIN heard' : i < j => heard'[i] # heard'[j]
        BY <3>1, <3>2 DEF ApartInv
      <3>9. QED
        BY <3>2, <3>6, <3>7, <3>8 DEF ApartInv
    <2>4. QED
      BY <1>8, <2>1, <2>2, <2>3 DEF NativeStep
  <1>9. CASE UNCHANGED vars
    BY <1>2, <1>9 DEF vars
  <1>10. QED
    BY <1>4, <1>5, <1>6, <1>7, <1>8, <1>9 DEF Next

(* OrderInv is inductive: where at most one thread lives, the datagram it   *)
(* holds is later than all that were heard.                                 *)
LEMMA OrderStep == TypeOK /\ LifeInv /\ ApartInv /\ OrderInv /\ [Next]_vars => OrderInv'
  <1> SUFFICES ASSUME TypeOK, LifeInv, ApartInv, OrderInv, [Next]_vars, ~misused'
               PROVE OrderInv'
    BY DEF OrderInv
  <1>0. ~misused
    BY DEF Next, Start, Stop, Destroy, CallStep, StopReturn, StopTimeout, StopEnds,
       Arrive, OtherOpens, PythonStep, Callback, Alert, NativeStep, LoopTest, Recv,
       RecvNothing, RecvFail, NoSocket, CloseSocket, UnsetSocket, LocalStep, owner, vars
  <1>1. /\ heard \in Seq(Int) /\ buffer \in Seq(Int)
        /\ \A t \in Threads : held[t] \in Int
    BY DatagramTypes
  <1>2. ASSUME UNCHANGED <<heard, held>>, \A t \in Threads : Held(t)' => Held(t)
        PROVE  OrderInv'
    BY <1>0, <1>2 DEF OrderInv, Increasing
  <1> USE DEF TypeOK, owner, thread, network, Step, Goto, LocalStep, Held
  <1>3. CASE Start \/ Stop \/ CallStep \/ Destroy \/ Arrive \/ OtherOpens
    BY <1>2, <1>3 DEF Start, Stop, CallStep, StopReturn, StopTimeout, StopEnds, Destroy,
       Arrive, OtherOpens
  <1>4. ASSUME NEW t \in Threads, PythonStep(t) PROVE OrderInv'
    <2>1. CASE Alert(t)
      BY <1>2, <2>1 DEF Alert
    <2>2. CASE Callback(t)
      <3>1. pc[t] = "callback" /\ \A u \in Threads : ~Held(u)'
        BY <1>0, <2>2 DEF Callback, LifeInv, Live
      <3>2. Increasing(heard')
        BY <1>0, <1>1, <2>2, <3>1, AppendIncreasing DEF Callback, OrderInv
      <3>3. QED
        BY <3>1, <3>2 DEF OrderInv
    <2>3. QED
      BY <1>4, <2>1, <2>2 DEF PythonStep
  <1>5. ASSUME NEW t \in Threads, NativeStep(t) PROVE OrderInv'
    <2>1. CASE LoopTest(t) \/ RecvNothing(t) \/ RecvFail(t) \/ NoSocket(t)
               \/ CloseSocket(t) \/ UnsetSocket(t)
      BY <1>2, <2>1 DEF LoopTest, RecvNothing, RecvFail, NoSocket, CloseSocket, UnsetSocket
    <2>2. CASE Recv(t)
      <3>1. \A u \in Threads : Held(u)' => u = t
        BY <1>0, <2>2 DEF Recv, LifeInv, Live
      <3>2. heard' = heard /\ \E j \in DOMAIN buffer : held'[t] = buffer[j]
        BY <1>1, <2>2, TailIncreasing DEF Recv, ApartInv
      <3>3. \A i \in DOMAIN heard : heard[i] < held'[t]
        BY <3>2 DEF ApartInv
      <3>4. QED
        BY <1>0, <3>1, <3>2, <3>3 DEF OrderInv, Increasing
    <2>3. QED
      BY <1>5, <2>1, <2>2 DEF NativeStep
  <1>6. CASE UNCHANGED vars
    BY <1>2, <1>6 DEF vars
  <1>7. QED
    BY <1>3, <1>4, <1>5, <1>6 DEF Next

(* listenCallback gets each datagram at most once, and in the order of      *)
(* arrival where the listener was not started twice, for any buffer, any    *)
(* faults and any number of restarts.                                       *)
THEOREM ListenerHeardInOrder == Spec => []HeardInOrder
  <1>1. Init => ApartInv /\ OrderInv
    BY DEF Init, ApartInv, OrderInv, Increasing, Held
  <1>2. ApartInv /\ OrderInv => HeardInOrder
    BY DEF ApartInv, OrderInv, HeardInOrder, Increasing
  <1>3. QED
    BY <1>1, <1>2, ListenerLife, ApartStep, OrderStep, PTL DEF Spec
=============================================================================
