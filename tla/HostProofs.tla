----------------------------- MODULE HostProofs -----------------------------
(* Proofs about the classes that have no thread in common with a server, as *)
(* MCHost puts them side by side: ClientPool, for any requests, endpoints,  *)
(* descriptors and bounds, and Broadcaster (B!), for any peers and bounds,  *)
(* each on Linux and on Windows; and the three NetUtils, M! for any         *)
(* services and interfaces, W! for any adapters and configurations, L! for  *)
(* any interfaces, addresses and routing tables.                            *)
EXTENDS MCHost, SequenceTheorems, FiniteSetTheorems, WellFoundedInduction, TLAPS

-----------------------------------------------------------------------------
(* ClientPool *)

(* What Call() makes of the callbacks so far.                               *)
LEMMA AppendCallback ==
    ASSUME NEW S, NEW a \in S, NEW b \in S, NEW e \in S
    PROVE  /\ Append(<<>>, e) = <<e>>
           /\ Append(<<a>>, e) = <<a, e>>
           /\ Append(<<a, b>>, e) = <<a, b, e>>
  <1>1. Append(<<>>, e) = <<e>>
    OBVIOUS
  <1>2. Append(<<a>>, e) = <<a, e>>
    <2> DEFINE s == Append(<<a>>, e)
               t == <<a, e>>
    <2>1. s \in Seq(S) /\ t \in Seq(S) /\ Len(s) = 2 /\ Len(t) = 2
      OBVIOUS
    <2>2. s[1] = t[1] /\ s[2] = t[2]
      OBVIOUS
    <2>3. \A i \in 1..Len(s) : s[i] = t[i]
      <3> HIDE DEF s, t
      <3> QED BY <2>1, <2>2
    <2> HIDE DEF s, t
    <2>4. s = t
      BY <2>1, <2>3, SeqEqual, Zenon
    <2> QED
      BY <2>4 DEF s, t
  <1>3. Append(<<a, b>>, e) = <<a, b, e>>
    <2> DEFINE s == Append(<<a, b>>, e)
               t == <<a, b, e>>
    <2>1. s \in Seq(S) /\ t \in Seq(S) /\ Len(s) = 3 /\ Len(t) = 3
      OBVIOUS
    <2>2. s[1] = t[1] /\ s[2] = t[2] /\ s[3] = t[3]
      OBVIOUS
    <2>3. \A i \in 1..Len(s) : s[i] = t[i]
      <3> HIDE DEF s, t
      <3> QED BY <2>1, <2>2
    <2> HIDE DEF s, t
    <2>4. s = t
      BY <2>1, <2>3, SeqEqual, Zenon
    <2> QED
      BY <2>4 DEF s, t
  <1>4. QED
    BY <1>1, <1>2, <1>3

(* The first state of a pool is of its types.                               *)
LEMMA TypeInit == BoundsAssumption /\ Init => TypeOK
  <1> SUFFICES ASSUME BoundsAssumption, Init PROVE TypeOK
    OBVIOUS
  <1>1. got \in [Requests -> 0..Chunks] /\ faults \in 0..MaxFaults
    BY DEF BoundsAssumption, Init
  <1>2. calls \in [Requests -> Seq({"error", "answer"})]
    BY DEF Init
  <1>3. QED
    BY <1>1, <1>2, Zenon DEF Init, TypeOK

(* Every variable stays in its type under every step.                       *)
LEMMA TypeStep == BoundsAssumption /\ TypeOK /\ [Next]_vars => TypeOK'
  <1> DEFINE Same == TypeOK /\ UNCHANGED system
  <1> USE DEF TypeOK, Step, Goto, Local, Call, NoFault
  <1>1. BoundsAssumption /\ TypeOK /\ Fault => faults' \in 0..MaxFaults
    BY DEF Fault, BoundsAssumption
  <1>2. Same /\ SetEndpoint => TypeOK'
    BY Zenon DEF SetEndpoint
  <1>3. ASSUME NEW r \in Requests PROVE Same /\ Transmit(r) => TypeOK'
    BY Zenon DEF Transmit
  <1>4. ASSUME NEW r \in Requests PROVE Same /\ Open(r) => TypeOK'
    BY DEF Open, Free
  <1>5. ASSUME NEW r \in Requests PROVE BoundsAssumption /\ Same /\ OpenFail(r) => TypeOK'
    BY <1>1, Zenon DEF OpenFail
  <1>6. ASSUME NEW r \in Requests PROVE Same /\ (Connect(r) \/ Send(r)) => TypeOK'
    BY Zenon DEF Connect, Send
  <1>7. ASSUME NEW r \in Requests PROVE BoundsAssumption /\ Same /\ Throw(r) => TypeOK'
    BY <1>1, Zenon DEF Throw
  <1>8. ASSUME NEW r \in Requests PROVE BoundsAssumption /\ Same /\ Recv(r) => TypeOK'
    <2>1. BoundsAssumption /\ TypeOK /\ Recv(r) => got' \in [Requests -> 0..Chunks]
      BY DEF Recv, BoundsAssumption
    <2>2. QED
      BY <2>1, Zenon DEF Recv
  <1>9. ASSUME NEW r \in Requests PROVE Same /\ RecvEnd(r) => TypeOK'
    BY Zenon DEF RecvEnd
  <1>10. ASSUME NEW r \in Requests, NEW c \in {"error", "answer"}
         PROVE  TypeOK /\ Call(r, c) => calls' \in [Requests -> Seq({"error", "answer"})]
    OBVIOUS
  <1>11. ASSUME NEW r \in Requests
         PROVE  Same /\ (CatchPosix(r) \/ CatchWindows(r) \/ CloseCatch(r) \/ Callback(r))
                    => TypeOK'
    BY <1>10 DEF CatchPosix, CatchWindows, CloseCatch, Callback
  <1>12. ASSUME NEW r \in Requests PROVE BoundsAssumption /\ Same /\ Close(r) => TypeOK'
    <2>1. TypeOK /\ Close(r) => owner' \in [Fds -> Requests \cup {NoFd}]
      BY DEF Close, Released
    <2>2. QED
      BY <1>1, <2>1, Zenon DEF Close
  <1>13. TypeOK /\ UNCHANGED vars => TypeOK'
    BY Zenon DEF vars
  <1> HIDE DEF TypeOK, Step, Goto, Local, Call, NoFault
  <1>14. QED
    BY <1>2, <1>3, <1>4, <1>5, <1>6, <1>7, <1>8, <1>9, <1>11, <1>12, <1>13 DEF Next, Run

(* Only Transmit() sets a target, and setEndpoint() leaves it alone.        *)
LEMMA MeantStep == TypeOK /\ GoesWhereMeant /\ [Next]_vars => GoesWhereMeant'
  <1> SUFFICES ASSUME TypeOK, GoesWhereMeant, [Next]_vars,
                      NEW r \in Requests, pc'[r] # "none"
               PROVE target'[r] = intended'[r]
    BY DEF GoesWhereMeant
  <1> USE DEF GoesWhereMeant, TypeOK, Step, Goto, Local
  <1>1. CASE SetEndpoint
    BY <1>1 DEF SetEndpoint
  <1>2. ASSUME NEW q \in Requests, Transmit(q) PROVE target'[r] = intended'[r]
    BY <1>2 DEF Transmit
  <1>3. ASSUME NEW q \in Requests, Run(q) PROVE target'[r] = intended'[r]
    <2>1. CASE Open(q) \/ OpenFail(q) \/ Connect(q) \/ Send(q) \/ Throw(q) \/ Recv(q)
      BY <2>1 DEF Open, OpenFail, Connect, Send, Throw, Recv
    <2>2. CASE RecvEnd(q) \/ CatchPosix(q) \/ CatchWindows(q) \/ CloseCatch(q) \/ Callback(q)
      BY <2>2 DEF RecvEnd, CatchPosix, CatchWindows, CloseCatch, Callback
    <2>3. CASE Close(q)
      BY <2>3 DEF Close
    <2>4. QED
      BY <1>3, <2>1, <2>2, <2>3 DEF Run
  <1>4. CASE UNCHANGED vars
    BY <1>4 DEF vars
  <1>5. QED
    BY <1>1, <1>2, <1>3, <1>4 DEF Next

(* A request's own steps move its callbacks on, and nobody else's do.       *)
LEMMA CallsStep == TypeOK /\ SockInv /\ CallsInv /\ [Next]_vars => CallsInv'
  <1> SUFFICES ASSUME TypeOK, SockInv, CallsInv, [Next]_vars, NEW r \in Requests
               PROVE CallsKept(r)'
    BY DEF CallsInv
  <1>s. Windows' = Windows
    BY DEF Windows, Next, vars
  <1> USE <1>s DEF CallsKept, TypeOK, Done, Step, Goto, Local
  <1>0. CallsKept(r) /\ SockKept(r)
    BY DEF CallsInv, SockInv
  <1>1. ASSUME NEW c \in {"error", "answer"}
        PROVE  /\ Append(<<>>, c) = <<c>>
               /\ Append(<<"error">>, c) = <<"error", c>>
               /\ Append(<<"error", "error">>, c) = <<"error", "error", c>>
    BY AppendCallback, Zenon
  <1>2. ASSUME NEW q \in Requests, q # r, NEW c, Call(q, c) PROVE calls'[r] = calls[r]
    BY <1>2 DEF Call
  <1>3. ASSUME NEW c, Call(r, c) PROVE calls'[r] = Append(calls[r], c)
    BY <1>3 DEF Call
  <1>4. CASE SetEndpoint
    BY <1>0, <1>4 DEF SetEndpoint
  <1>5. ASSUME NEW q \in Requests, Transmit(q) PROVE CallsKept(r)'
    BY <1>0, <1>5 DEF Transmit
  <1>6. ASSUME NEW q \in Requests, Open(q) \/ OpenFail(q) PROVE CallsKept(r)'
    BY <1>0, <1>6 DEF Open, OpenFail
  <1>7. ASSUME NEW q \in Requests, Connect(q) \/ Send(q) \/ Throw(q) \/ Recv(q) \/ RecvEnd(q)
        PROVE CallsKept(r)'
    BY <1>0, <1>7 DEF Connect, Send, Throw, Recv, RecvEnd
  <1>8. ASSUME NEW q \in Requests, q # r,
               CatchPosix(q) \/ CatchWindows(q) \/ CloseCatch(q) \/ Callback(q)
        PROVE CallsKept(r)'
    BY <1>0, <1>2, <1>8 DEF CatchPosix, CatchWindows, CloseCatch, Callback
  <1>9. ASSUME CatchPosix(r) \/ CatchWindows(r) PROVE CallsKept(r)'
    BY <1>0, <1>1, <1>3, <1>9 DEF CatchPosix, CatchWindows
  <1>10. ASSUME CloseCatch(r) PROVE CallsKept(r)'
    BY <1>0, <1>1, <1>3, <1>10 DEF CloseCatch, SockKept
  <1>11. ASSUME Callback(r) PROVE CallsKept(r)'
    <2>1. calls'[r] = Append(calls[r], "answer") /\ pc'[r] = "done" /\ ended'[r] = ended[r]
      BY <1>3, <1>11 DEF Callback
    <2>2. CASE calls[r] = <<>> /\ ended[r]
      BY <1>1, <2>1, <2>2
    <2>3. CASE Windows /\ calls[r] \in {<<"error">>, <<"error", "error">>}
      BY <1>1, <2>1, <2>3
    <2>4. QED
      BY <1>0, <1>11, <2>2, <2>3 DEF Callback
  <1>12. ASSUME NEW q \in Requests, Close(q) PROVE CallsKept(r)'
    BY <1>0, <1>12 DEF Close
  <1>13. CASE UNCHANGED vars
    BY <1>0, <1>13 DEF vars
  <1> HIDE DEF CallsKept, TypeOK, Done, Step, Goto, Local
  <1>14. QED
    BY <1>4, <1>5, <1>6, <1>7, <1>8, <1>9, <1>10, <1>11, <1>12, <1>13 DEF Next, Run

(* A request works on the descriptor that it opened: Open() gives it a free *)
(* one, and only its own Close() frees that again.                          *)
LEMMA SockStep ==
    NoFdAssumption /\ TypeOK /\ SockInv /\ OwnerInv /\ [Next]_vars => SockInv'
  <1> SUFFICES ASSUME NoFdAssumption, TypeOK, SockInv, OwnerInv, [Next]_vars,
                      NEW r \in Requests
               PROVE SockKept(r)'
    BY DEF SockInv
  <1>s. Windows' = Windows
    BY DEF Windows, Next, vars
  <1> USE <1>s DEF SockKept, TypeOK, Step, Goto, Local
  <1>0. SockKept(r)
    BY DEF SockInv
  <1>1. CASE SetEndpoint
    BY <1>0, <1>1 DEF SetEndpoint
  <1>2. ASSUME NEW q \in Requests, Transmit(q) PROVE SockKept(r)'
    BY <1>0, <1>2 DEF Transmit
  <1>3. ASSUME NEW q \in Requests, Open(q) PROVE SockKept(r)'
    BY <1>0, <1>3 DEF Open, Free, NoFdAssumption
  <1>4. ASSUME NEW q \in Requests, OpenFail(q) PROVE SockKept(r)'
    BY <1>0, <1>4 DEF OpenFail
  <1>5. ASSUME NEW q \in Requests, Connect(q) \/ Send(q) \/ Throw(q) \/ Recv(q) \/ RecvEnd(q)
        PROVE SockKept(r)'
    BY <1>0, <1>5 DEF Connect, Send, Throw, Recv, RecvEnd
  <1>6. ASSUME NEW q \in Requests,
               CatchPosix(q) \/ CatchWindows(q) \/ CloseCatch(q) \/ Callback(q)
        PROVE SockKept(r)'
    BY <1>0, <1>6 DEF CatchPosix, CatchWindows, CloseCatch, Callback
  <1>7. ASSUME NEW q \in Requests, Close(q) PROVE SockKept(r)'
    <2>1. CASE q = r
      BY <1>0, <1>7, <2>1 DEF Close
    <2>2. CASE q # r /\ sock[r] # NoFd /\ pc[r] \in {"connect", "send", "recv", "catch", "close"}
      <3>1. owner[sock[r]] = r /\ sock[r] \in Fds
        BY <1>0, <2>2
      <3>2. sock[q] # sock[r]
        BY <1>7, <2>2, <3>1 DEF Close, SockInv
      <3>3. owner'[sock[r]] = r
        BY <1>7, <3>1, <3>2 DEF Close, Released
      <3>4. QED
        BY <1>0, <1>7, <2>2, <3>3 DEF Close
    <2>3. CASE q # r /\ ~(sock[r] # NoFd /\ pc[r] \in {"connect", "send", "recv", "catch", "close"})
      BY <1>0, <1>7, <2>3 DEF Close
    <2>4. QED
      BY <2>1, <2>2, <2>3
  <1>8. CASE UNCHANGED vars
    BY <1>0, <1>8 DEF vars
  <1> HIDE DEF SockKept, TypeOK, Step, Goto, Local
  <1>9. QED
    BY <1>1, <1>2, <1>3, <1>4, <1>5, <1>6, <1>7, <1>8 DEF Next, Run

(* A descriptor stays with its request: nobody else opens or closes it, and *)
(* the request gives it up in Close(), or keeps it in CatchPosix().         *)
LEMMA OwnerStep ==
    NoFdAssumption /\ TypeOK /\ CallsInv /\ SockInv /\ OwnerInv /\ [Next]_vars => OwnerInv'
  <1> SUFFICES ASSUME NoFdAssumption, TypeOK, CallsInv, SockInv, OwnerInv, [Next]_vars,
                      NEW f \in Fds, NEW r \in Requests
               PROVE OwnerKept(f, r)'
    BY DEF OwnerInv
  <1>s. Windows' = Windows
    BY DEF Windows, Next, vars
  <1> USE <1>s DEF OwnerKept, TypeOK, Done, Step, Goto, Local
  <1>0. OwnerKept(f, r) /\ CallsKept(r) /\ SockKept(r)
    BY DEF OwnerInv, CallsInv, SockInv
  <1>1. CASE SetEndpoint
    BY <1>0, <1>1 DEF SetEndpoint
  <1>2. ASSUME NEW q \in Requests, Transmit(q) PROVE OwnerKept(f, r)'
    BY <1>0, <1>2 DEF Transmit
  <1>3. ASSUME NEW q \in Requests, Open(q) PROVE OwnerKept(f, r)'
    BY <1>0, <1>3 DEF Open, Free, NoFdAssumption
  <1>4. ASSUME NEW q \in Requests, OpenFail(q) PROVE OwnerKept(f, r)'
    BY <1>0, <1>4 DEF OpenFail
  <1>5. ASSUME NEW q \in Requests, Connect(q) \/ Send(q) \/ Throw(q) \/ Recv(q) \/ RecvEnd(q)
        PROVE OwnerKept(f, r)'
    BY <1>0, <1>5 DEF Connect, Send, Throw, Recv, RecvEnd
  <1>6. ASSUME NEW q \in Requests, CatchPosix(q) PROVE OwnerKept(f, r)'
    <2>1. CASE q # r
      BY <1>0, <1>6, <2>1 DEF CatchPosix, Call
    <2>2. CASE q = r
      <3>1. calls'[r] = Append(<<>>, "error")
        BY <1>0, <1>6, <2>2 DEF CatchPosix, Call, CallsKept
      <3>2. calls'[r] = <<"error">>
        BY <3>1, AppendCallback
      <3>3. owner[f] = r => r \in failed
        BY <1>0, <1>6, <2>2 DEF CatchPosix, SockKept, NoFdAssumption
      <3>4. QED
        BY <1>0, <1>6, <2>2, <3>2, <3>3 DEF CatchPosix
    <2>3. QED
      BY <2>1, <2>2
  <1>7. ASSUME NEW q \in Requests, CatchWindows(q) \/ CloseCatch(q) \/ Callback(q)
        PROVE OwnerKept(f, r)'
    BY <1>0, <1>7 DEF CatchWindows, CloseCatch, Callback, Call
  <1>8. ASSUME NEW q \in Requests, Close(q) PROVE OwnerKept(f, r)'
    BY <1>0, <1>8 DEF Close, Released, NoFdAssumption
  <1>9. CASE UNCHANGED vars
    BY <1>0, <1>9 DEF vars
  <1> HIDE DEF OwnerKept, TypeOK, Done, Step, Goto, Local
  <1>10. QED
    BY <1>1, <1>2, <1>3, <1>4, <1>5, <1>6, <1>7, <1>8, <1>9 DEF Next, Run

(* The first state of a pool satisfies the whole invariant.                 *)
LEMMA InvInit == NoFdAssumption /\ BoundsAssumption /\ Init => IInv
  <1> SUFFICES ASSUME NoFdAssumption, BoundsAssumption, Init PROVE IInv
    OBVIOUS
  <1>1. TypeOK
    BY TypeInit
  <1>2. GoesWhereMeant
    BY DEF Init, GoesWhereMeant
  <1>3. CallsInv /\ SockInv
    BY DEF Init, CallsInv, CallsKept, SockInv, SockKept, Done
  <1>4. OwnerInv
    BY DEF Init, OwnerInv, OwnerKept, NoFdAssumption
  <1>5. QED
    BY <1>1, <1>2, <1>3, <1>4 DEF IInv

(* What the runs check follows from the invariant. *)
LEMMA Kept == NoFdAssumption /\ IInv => ClientsKept
  <1> SUFFICES ASSUME NoFdAssumption, IInv PROVE ClientsKept
    OBVIOUS
  <1> USE DEF IInv
  <1>1. CallsBack
    <2> SUFFICES ASSUME NEW r \in Requests, Done(r)
                 PROVE IF Windows THEN Len(calls[r]) \in 1..3 /\ calls[r][Len(calls[r])] = "answer"
                                  ELSE calls[r] \in {<<"error">>, <<"answer">>}
      BY DEF CallsBack
    <2>1. CallsKept(r)
      BY DEF CallsInv
    <2>2. CASE Windows
      <3>1. calls[r] \in {<<"answer">>, <<"error", "answer">>, <<"error", "error", "answer">>}
        BY <2>1, <2>2 DEF CallsKept
      <3>2. CASE calls[r] = <<"answer">>
        BY <2>2, <3>2
      <3>3. CASE calls[r] = <<"error", "answer">>
        BY <2>2, <3>3
      <3>4. CASE calls[r] = <<"error", "error", "answer">>
        BY <2>2, <3>4
      <3>5. QED
        BY <3>1, <3>2, <3>3, <3>4
    <2>3. CASE ~Windows
      BY <2>1, <2>3 DEF CallsKept
    <2>4. QED
      BY <2>2, <2>3
  <1>2. AnswerIsWhole
    <2> SUFFICES ASSUME NEW r \in Requests, calls[r] = <<"answer">> PROVE ended[r]
      BY DEF AnswerIsWhole
    <2>1. CallsKept(r)
      BY DEF CallsInv
    <2>2. /\ <<"answer">> # <<>> /\ <<"answer">> # <<"error">>
          /\ <<"answer">> # <<"error", "error">> /\ <<"answer">> # <<"error", "answer">>
          /\ <<"answer">> # <<"error", "error", "answer">>
      OBVIOUS
    <2>3. QED
      BY <2>1, <2>2 DEF CallsKept, TypeOK, Done
  <1>3. OwnDescriptor
    BY DEF OwnDescriptor, Live, SockInv, SockKept, TypeOK
  <1>4. LostByFailureOnly
    <2> SUFFICES ASSUME NEW f \in Held
                 PROVE  LET r == owner[f]
                        IN  Live(r) \/ (~Windows /\ r \in failed /\ calls[r] = <<"error">>)
      BY DEF LostByFailureOnly
    <2>1. f \in Fds /\ owner[f] \in Requests /\ f # NoFd
      BY DEF Held, Free, TypeOK, NoFdAssumption
    <2>2. OwnerKept(f, owner[f])
      BY <2>1 DEF OwnerInv
    <2>3. QED
      BY <2>1, <2>2 DEF OwnerKept, Live
  <1>5. NothingLostOnWindows
    <2> SUFFICES ASSUME Windows, \A r \in Requests : pc[r] \in {"none", "done"}, NEW f \in Held
                 PROVE FALSE
      BY DEF NothingLostOnWindows
    <2>1. f \in Fds /\ owner[f] \in Requests
      BY DEF Held, Free, TypeOK
    <2>2. OwnerKept(f, owner[f])
      BY <2>1 DEF OwnerInv
    <2>3. QED
      BY <2>1, <2>2 DEF OwnerKept
  <1>6. QED
    BY <1>1, <1>2, <1>3, <1>4, <1>5 DEF ClientsKept

(* Type correctness of the requests, whatever they are and however many.    *)
THEOREM ClientTypes == ASSUME BoundsAssumption PROVE Spec => []TypeOK
  BY TypeInit, TypeStep, PTL DEF Spec

(* For any number of requests and descriptors, on Linux and on Windows: a   *)
(* request goes where the object pointed to, calls back at its end, gives   *)
(* the whole response unless it has reported an error, works on no          *)
(* descriptor but its own, and loses one by a failure on Linux only.        *)
THEOREM ClientPoolKept ==
    ASSUME NoFdAssumption, BoundsAssumption PROVE Spec => []ClientsKept
  <1>1. IInv /\ [Next]_vars => IInv'
    BY TypeStep, MeantStep, CallsStep, SockStep, OwnerStep DEF IInv
  <1>2. IInv => ClientsKept
    BY Kept
  <1>3. QED
    BY <1>1, <1>2, InvInit, PTL DEF Spec

-----------------------------------------------------------------------------
(* Broadcaster *)

(* A step of the host is one of the object's, or leaves it alone.           *)
LEMMA BroadcasterStep == [PartStep]_everything => [B!Next]_B!vars
  BY Zenon DEF PartStep, everything, datagrams, vars, Next, B!vars

(* The composition starts with the first state of a broadcaster.            *)
LEMMA BroadcasterInit == Whole => B!Init
  BY DEF Whole, Begin

(* Datagrams go to the end of the output, and the output to the end of what *)
(* was returned.                                                            *)
LEMMA AppendToOutput ==
    ASSUME NEW d \in B!Datagram,
           returned \in Seq(B!Datagram), output \in Seq(B!Datagram)
    PROVE  Append(returned \o output, d) = returned \o Append(output, d)
  <1> DEFINE D == B!Datagram
             u == <<d>>
  <1>1. u \in Seq(D)
    OBVIOUS
  <1>2. Append(returned \o output, d) = (returned \o output) \o u
    BY ConcatProperties, AppendIsConcat
  <1>3. returned \o Append(output, d) = returned \o (output \o u)
    BY AppendIsConcat
  <1> HIDE DEF D, u
  <1>4. (returned \o output) \o u = returned \o (output \o u)
    BY <1>1, ConcatAssociative DEF D
  <1>5. QED
    BY <1>2, <1>3, <1>4, Zenon

(* What recvfrom() takes is a datagram, and what it leaves are.             *)
LEMMA HeadOfInbox ==
    ASSUME NEW S, NEW s \in Seq(S), s # <<>>
    PROVE  Head(s) \in S /\ Tail(s) \in Seq(S)
  BY HeadTailProperties

(* The first state of a broadcaster is of its types.                        *)
LEMMA BroadcasterTypeInit == B!BoundsAssumption /\ B!Init => B!TypeOK
  <1> SUFFICES ASSUME B!BoundsAssumption, B!Init PROVE B!TypeOK
    OBVIOUS
  <1>1. /\ option \in 0..B!Options /\ leaked \in 0..MaxErrors /\ dropped \in Nat
        /\ sends \in 0..MaxSends /\ errors \in 0..MaxErrors
    BY DEF B!BoundsAssumption, B!Init, B!Options
  <1>2. <<>> \in Seq(B!Datagram)
    OBVIOUS
  <1>3. QED
    BY <1>1, <1>2, Zenon DEF B!Init, B!TypeOK

(* Every variable of the object stays in its type under every step.         *)
LEMMA BroadcasterTypeStep ==
    B!BoundsAssumption /\ B!TypeOK /\ B!LostByFault /\ [B!Next]_B!vars
      => B!TypeOK' /\ B!LostByFault'
  <1> SUFFICES ASSUME B!BoundsAssumption, B!TypeOK, B!LostByFault, [B!Next]_B!vars
               PROVE  B!TypeOK' /\ B!LostByFault'
    OBVIOUS
  <1> DEFINE Numbers == /\ option' \in 0..B!Options /\ leaked' \in 0..MaxErrors
                        /\ sends' \in 0..MaxSends /\ errors' \in 0..MaxErrors
                        /\ leaked' <= errors'
             Peer == /\ broadcast_address' \in B!Peers \cup {Group}
                     /\ asked' \subseteq B!Peers
             Queues == /\ inbox' \in Seq(B!Datagram) /\ output' \in Seq(B!Datagram)
                       /\ texts' \in Seq(B!Datagram) /\ returned' \in Seq(B!Datagram)
                       /\ dropped' \in Nat
  <1>0. /\ system' = system /\ B!Options' = B!Options
        /\ [B!Step]_B!vars
    BY DEF B!Next, B!vars, B!Options, B!Windows
  <1>1. Numbers
    <2>0. /\ B!Options \in Nat /\ MaxSends \in Nat /\ MaxErrors \in Nat
          /\ option \in 0..B!Options /\ leaked \in 0..MaxErrors /\ leaked <= errors
          /\ sends \in 0..MaxSends /\ errors \in 0..MaxErrors
      BY DEF B!TypeOK, B!LostByFault, B!BoundsAssumption, B!Options
    <2>1. /\ \/ option' = option
             \/ option' = 0
             \/ option' = option + 1 /\ option < B!Options
          /\ sends' = sends \/ (sends' = sends + 1 /\ sends < MaxSends)
          /\ \/ errors' = errors /\ leaked' = leaked
             \/ errors' = errors + 1 /\ errors < MaxErrors /\ leaked' \in {leaked, leaked + 1}
      <3> USE DEF B!Fault, B!object
      <3>1. CASE B!Construct \/ B!SocketFails \/ B!SetOption \/ B!OptionFails
                 \/ B!Constructed \/ B!Destroy
        BY <3>1, Zenon DEF B!Construct, B!SocketFails, B!SetOption, B!OptionFails,
                           B!Constructed, B!Destroy
      <3>2. CASE B!Send \/ B!SendFails \/ B!EnableLoopback \/ \E p \in B!Peers : B!Answer(p)
        BY <3>2, Zenon DEF B!Send, B!SendFails, B!EnableLoopback, B!Answer
      <3>3. CASE B!Call
        BY <3>3, Zenon DEF B!Call, B!Recv, B!RecvText, B!RecvEmpty, B!RecvTimeout, B!RecvFails,
                           B!Take
      <3>4. CASE UNCHANGED B!vars
        BY <3>4, Zenon DEF B!vars
      <3>5. QED
        BY <1>0, <3>1, <3>2, <3>3, <3>4, Zenon DEF B!Step
    <2>2. QED
      BY <1>0, <2>0, <2>1
  <1>2. ASSUME inbox # <<>> PROVE Head(inbox) \in B!Datagram /\ Tail(inbox) \in Seq(B!Datagram)
    BY <1>2, HeadOfInbox DEF B!TypeOK
  <1>3. Peer
    <2> USE DEF B!TypeOK, B!object, B!network, B!history
    <2>1. CASE B!Construct \/ B!SocketFails \/ B!SetOption \/ B!OptionFails
               \/ B!Constructed \/ B!Destroy
      BY <2>1 DEF B!Construct, B!SocketFails, B!SetOption, B!OptionFails,
                  B!Constructed, B!Destroy
    <2>2. CASE B!Send \/ B!SendFails \/ B!EnableLoopback \/ \E p \in B!Peers : B!Answer(p)
      BY <2>2 DEF B!Send, B!SendFails, B!EnableLoopback, B!Answer, B!Hear, B!Peers
    <2>3. CASE B!Recv \/ B!RecvTimeout \/ B!RecvFails
      BY <2>3 DEF B!Recv, B!RecvTimeout, B!RecvFails
    <2>4. CASE B!RecvText \/ B!RecvEmpty
      BY <1>2, <2>4 DEF B!RecvText, B!RecvEmpty, B!Take, B!Datagram
    <2>5. CASE UNCHANGED B!vars
      BY <2>5 DEF B!vars
    <2>6. QED
      BY <1>0, <2>1, <2>2, <2>3, <2>4, <2>5 DEF B!Step, B!Call
  <1>4. Queues
    <2> DEFINE D == Seq(B!Datagram)
    <2>1. /\ inbox \in D /\ output \in D /\ texts \in D /\ returned \in D
          /\ dropped \in Nat /\ Len(output) \in Nat /\ <<>> \in D
      BY DEF B!TypeOK
    <2>2. \A d \in B!Datagram : /\ Append(inbox, d) \in D /\ Append(output, d) \in D
                               /\ Append(texts, d) \in D
      BY <2>1
    <2>3. returned \o output \in D
      BY <2>1, ConcatProperties
    <2>4. dropped + Len(output) \in Nat
      BY <2>1
    <2> USE DEF B!object, B!network, B!history
    <2> HIDE DEF D
    <2>5. CASE \/ B!Construct \/ B!SocketFails \/ B!SetOption \/ B!OptionFails
               \/ B!Constructed \/ B!Destroy
      BY <2>1, <2>5, Zenon DEF B!Construct, B!SocketFails, B!SetOption, B!OptionFails,
                               B!Constructed, B!Destroy, D
    <2>6. CASE B!Send \/ B!SendFails \/ B!EnableLoopback \/ B!Recv
      BY <2>1, <2>6, Zenon DEF B!Send, B!SendFails, B!EnableLoopback, B!Recv, D
    <2>7. ASSUME NEW p \in B!Peers, B!Answer(p) PROVE Queues
      <3>1. PICK t \in BOOLEAN : inbox' = Append(inbox, [from |-> p, text |-> t])
        BY <2>7, Zenon DEF B!Answer
      <3>2. [from |-> p, text |-> t] \in B!Datagram
        BY DEF B!Datagram
      <3>3. inbox' \in D
        BY <2>2, <3>1, <3>2, Zenon
      <3>4. QED
        BY <2>1, <2>7, <3>3, Zenon DEF B!Answer, D
    <2>8. CASE B!RecvTimeout \/ B!RecvFails
      BY <2>1, <2>3, <2>4, <2>8, Zenon DEF B!RecvTimeout, B!RecvFails, D
    <2>9. CASE B!RecvText \/ B!RecvEmpty
      <3>1. Head(inbox) \in B!Datagram /\ Tail(inbox) \in D
        BY <1>2, <2>9 DEF B!RecvText, B!RecvEmpty, B!Take, D
      <3>2. texts' \in {texts, Append(texts, Head(inbox))}
        BY <2>9, Zenon DEF B!RecvText, B!RecvEmpty, B!Take
      <3>3. texts' \in D
        BY <2>1, <2>2, <3>1, <3>2, Zenon
      <3>4. QED
        BY <2>1, <2>2, <2>3, <2>9, <3>1, <3>3, Zenon DEF B!RecvText, B!RecvEmpty, B!Take, D
    <2>10. CASE UNCHANGED B!vars
      BY <2>1, <2>10, Zenon DEF B!vars, D
    <2>11. QED
      BY <1>0, <2>5, <2>6, <2>7, <2>8, <2>9, <2>10, Zenon DEF B!Step, B!Call
  <1>5. sending' \in {"none", "ctor", "live", "recv"}
    <2> USE DEF B!TypeOK
    <2>1. CASE \/ B!Construct \/ B!SocketFails \/ B!SetOption \/ B!OptionFails
               \/ B!Constructed \/ B!Destroy
      BY <2>1, Zenon DEF B!Construct, B!SocketFails, B!SetOption, B!OptionFails,
                         B!Constructed, B!Destroy
    <2>2. CASE B!Send \/ B!SendFails \/ B!EnableLoopback \/ \E p \in B!Peers : B!Answer(p)
      BY <2>2, Zenon DEF B!Send, B!SendFails, B!EnableLoopback, B!Answer
    <2>3. CASE B!Call
      BY <2>3, Zenon DEF B!Call, B!Recv, B!RecvText, B!RecvEmpty, B!RecvTimeout, B!RecvFails
    <2>4. CASE UNCHANGED B!vars
      BY <2>4, Zenon DEF B!vars
    <2>5. QED
      BY <1>0, <2>1, <2>2, <2>3, <2>4 DEF B!Step
  <1>6. loopback' \in BOOLEAN /\ looped' \in BOOLEAN
    <2> USE DEF B!TypeOK, B!object, B!history
    <2>1. CASE B!SetOption
      <3>1. loopback' = (option' < B!Options) /\ looped' = looped
        BY <2>1, Zenon DEF B!SetOption
      <3>2. (option' < B!Options) \in BOOLEAN
        OBVIOUS
      <3>3. QED
        BY <3>1, <3>2, Zenon
    <2>2. CASE \/ B!Construct \/ B!SocketFails \/ B!OptionFails
               \/ B!Constructed \/ B!Destroy
      BY <2>2, Zenon DEF B!Construct, B!SocketFails, B!OptionFails, B!Constructed, B!Destroy
    <2>3. CASE B!Send \/ B!SendFails \/ B!EnableLoopback \/ \E p \in B!Peers : B!Answer(p)
      BY <2>3, Zenon DEF B!Send, B!SendFails, B!EnableLoopback, B!Answer
    <2>4. CASE B!Call
      BY <2>4, Zenon DEF B!Call, B!Recv, B!RecvText, B!RecvEmpty, B!RecvTimeout,
                         B!RecvFails, B!Take
    <2>5. CASE UNCHANGED B!vars
      BY <2>5, Zenon DEF B!vars
    <2>6. QED
      BY <1>0, <2>1, <2>2, <2>3, <2>4, <2>5 DEF B!Step
  <1>7. QED
    BY <1>0, <1>1, <1>3, <1>4, <1>5, <1>6, Zenon DEF B!TypeOK, B!LostByFault

(* What was taken with text is what was returned and what recv() holds: on  *)
(* Linux in full, on Windows but for the number that recv() threw away.     *)
LEMMA NothingLostStep ==
    B!TypeOK /\ B!TypeOK' /\ B!NothingLostOnLinux /\ B!LostOnlyByThrowing /\ [B!Next]_B!vars
      => B!NothingLostOnLinux' /\ B!LostOnlyByThrowing'
  <1> SUFFICES ASSUME B!TypeOK, B!TypeOK', B!NothingLostOnLinux, B!LostOnlyByThrowing,
                      [B!Next]_B!vars
               PROVE  B!NothingLostOnLinux' /\ B!LostOnlyByThrowing'
    OBVIOUS
  <1>0. /\ system' = system /\ B!Windows' = B!Windows
        /\ [B!Step]_B!vars
    BY DEF B!Next, B!vars, B!Windows
  <1> USE <1>0 DEF B!NothingLostOnLinux, B!LostOnlyByThrowing
  <1>t. /\ texts \in Seq(B!Datagram) /\ returned \in Seq(B!Datagram)
        /\ output \in Seq(B!Datagram) /\ dropped \in Nat
    BY DEF B!TypeOK
  <1>e. returned \o <<>> = returned /\ (returned \o output) \o <<>> = returned \o output
    BY <1>t, ConcatEmptySeq, ConcatProperties
  <1>l. /\ Len(returned \o output) = Len(returned) + Len(output)
        /\ Len(output) \in Nat /\ Len(returned) \in Nat /\ Len(<<>>) = 0
    BY <1>t, ConcatProperties, LenProperties
  <1>1. CASE \/ B!Construct \/ B!SocketFails \/ B!SetOption \/ B!OptionFails
             \/ B!Constructed \/ B!Destroy
    BY <1>1 DEF B!Construct, B!SocketFails, B!SetOption, B!OptionFails,
                B!Constructed, B!Destroy, B!history
  <1>2. CASE B!Send \/ B!SendFails \/ B!EnableLoopback \/ \E p \in B!Peers : B!Answer(p)
    BY <1>2 DEF B!Send, B!SendFails, B!EnableLoopback, B!Answer, B!history
  <1>3. CASE B!Recv
    BY <1>3 DEF B!Recv, B!history
  <1>4. CASE B!RecvText
    <2>1. Head(inbox) \in B!Datagram
      BY <1>4, HeadOfInbox DEF B!RecvText, B!Take, B!TypeOK
    <2>2. /\ sending = "recv" /\ sending' = "recv" /\ returned' = returned
          /\ dropped' = dropped
          /\ texts' = Append(texts, Head(inbox)) /\ output' = Append(output, Head(inbox))
      BY <1>4 DEF B!RecvText, B!Take
    <2>3. Append(returned \o output, Head(inbox)) = returned \o Append(output, Head(inbox))
      BY <1>t, <2>1, AppendToOutput, Zenon
    <2>4. Len(texts') = Len(texts) + 1 /\ Len(output') = Len(output) + 1
      BY <1>t, <2>1, <2>2, AppendProperties
    <2>5. B!NothingLostOnLinux'
      BY <2>2, <2>3, Zenon
    <2>6. Len(texts) = Len(returned) + dropped + Len(output)
      BY <2>2
    <2>7. Len(texts') = Len(returned') + dropped' + Len(output')
      BY <1>l, <1>t, <2>2, <2>4, <2>6
    <2>8. QED
      BY <2>2, <2>5, <2>7
  <1>5. CASE B!RecvEmpty \/ B!RecvTimeout
    <2>1. /\ sending = "recv" /\ sending' = "live" /\ returned' = returned \o output
          /\ dropped' = dropped /\ texts' = texts
      BY <1>5, Zenon DEF B!RecvEmpty, B!RecvTimeout, B!Take
    <2>2. B!NothingLostOnLinux'
      BY <1>e, <2>1, Zenon
    <2>3. Len(texts') = Len(returned \o output) + dropped'
      BY <1>t, <1>l, <2>1
    <2>4. QED
      BY <1>t, <1>l, <2>1, <2>2, <2>3
  <1>6. CASE B!RecvFails
    <2>1. sending = "recv" /\ sending' = "live" /\ texts' = texts
      BY <1>6, Zenon DEF B!RecvFails
    <2>2. CASE B!Windows
      <3>1. returned' = returned /\ dropped' = dropped + Len(output)
        BY <1>6, <2>2, Zenon DEF B!RecvFails
      <3>2. QED
        BY <1>t, <1>l, <2>1, <2>2, <3>1
    <2>3. CASE ~B!Windows
      <3>1. returned' = returned \o output /\ dropped' = dropped
        BY <1>6, <2>3, Zenon DEF B!RecvFails
      <3>2. B!NothingLostOnLinux'
        BY <1>e, <2>1, <3>1, Zenon
      <3>3. Len(texts') = Len(returned \o output) + dropped'
        BY <1>t, <1>l, <2>1, <3>1
      <3>4. QED
        BY <1>t, <1>l, <2>1, <3>1, <3>2, <3>3
    <2>4. QED
      BY <2>2, <2>3
  <1>7. CASE UNCHANGED B!vars
    BY <1>7 DEF B!vars
  <1>8. QED
    BY <1>0, <1>1, <1>2, <1>3, <1>4, <1>5, <1>6, <1>7 DEF B!Step, B!Call

(* What is taken from the buffer came from a sender, and the senders of     *)
(* what is left were senders before.                                        *)
LEMMA SendersOfTail ==
    ASSUME inbox \in Seq(B!Datagram), inbox # <<>>
    PROVE  /\ Head(inbox).from \in B!Senders
           /\ {Tail(inbox)[i].from : i \in DOMAIN Tail(inbox)} \subseteq B!Senders
  <1>1. /\ Len(inbox) \in Nat \ {0} /\ DOMAIN inbox = 1..Len(inbox) /\ Head(inbox) = inbox[1]
        /\ DOMAIN Tail(inbox) = 1..(Len(inbox) - 1)
        /\ \A i \in 1..(Len(inbox) - 1) : Tail(inbox)[i] = inbox[i + 1]
    BY HeadTailProperties, EmptySeq, LenProperties
  <1>2. 1 \in DOMAIN inbox /\ \A i \in 1..(Len(inbox) - 1) : i + 1 \in DOMAIN inbox
    BY <1>1
  <1>3. QED
    BY <1>1, <1>2 DEF B!Senders

(* An answer's sender is the peer that was asked.                           *)
LEMMA SendersOfAppend ==
    ASSUME inbox \in Seq(B!Datagram), NEW d \in B!Datagram
    PROVE  {Append(inbox, d)[i].from : i \in DOMAIN Append(inbox, d)}
             \subseteq B!Senders \cup {d.from}
  <1>1. /\ Len(inbox) \in Nat /\ DOMAIN inbox = 1..Len(inbox)
        /\ DOMAIN Append(inbox, d) = 1..(Len(inbox) + 1)
        /\ \A i \in 1..Len(inbox) : Append(inbox, d)[i] = inbox[i]
        /\ Append(inbox, d)[Len(inbox) + 1] = d
    BY AppendProperties, LenProperties
  <1>2. ASSUME NEW i \in DOMAIN Append(inbox, d)
        PROVE  Append(inbox, d)[i].from \in B!Senders \cup {d.from}
    <2>1. CASE i \in 1..Len(inbox)
      BY <1>1, <2>1 DEF B!Senders
    <2>2. CASE i = Len(inbox) + 1
      BY <1>1, <2>2
    <2>3. QED
      BY <1>1, <1>2, <2>1, <2>2
  <1>3. QED
    BY <1>2

(* The party of an object grows only by the group it is sending to: by      *)
(* construction of the object, or by a send() before anybody has answered.  *)
LEMMA PartyStep ==
    ASSUME B!TypeOK, B!Step
    PROVE  \/ B!Construct
           \/ B!Send /\ broadcast_address = Group /\ B!Party' \subseteq B!Party \cup B!Hear(Group)
           \/ B!Party' \subseteq B!Party
  <1> USE DEF B!object, B!network
  <1>1. /\ inbox \in Seq(B!Datagram)
        /\ (UNCHANGED inbox => B!Senders' = B!Senders)
        /\ B!Party = asked \cup B!Senders \cup {broadcast_address}
        /\ B!Party' = asked' \cup B!Senders' \cup {broadcast_address'}
    BY DEF B!TypeOK, B!Senders, B!Party
  <1>2. CASE B!Send
    <2>1. /\ asked' = asked \cup B!Hear(broadcast_address)
          /\ broadcast_address' = broadcast_address /\ B!Senders' = B!Senders
      BY <1>1, <1>2, Zenon DEF B!Send
    <2>2. CASE broadcast_address = Group
      BY <1>1, <1>2, <2>1, <2>2, Zenon
    <2>3. CASE broadcast_address # Group
      <3>1. B!Hear(broadcast_address) = {broadcast_address}
        BY <2>3, Zenon DEF B!Hear
      <3>2. B!Party' \subseteq B!Party
        BY <1>1, <2>1, <3>1, Zenon
      <3>3. QED
        BY <3>2, Zenon
    <2>4. QED
      BY <2>2, <2>3, Zenon
  <1>3. CASE \/ B!SocketFails \/ B!SetOption \/ B!OptionFails \/ B!Constructed
             \/ B!SendFails \/ B!EnableLoopback \/ B!Recv \/ B!RecvTimeout \/ B!RecvFails
    <2>1. UNCHANGED <<asked, inbox, broadcast_address>>
      BY <1>3, Zenon DEF B!SocketFails, B!SetOption, B!OptionFails, B!Constructed, B!SendFails,
                         B!EnableLoopback, B!Recv, B!RecvTimeout, B!RecvFails
    <2>2. B!Party' \subseteq B!Party
      BY <1>1, <2>1, Zenon
    <2>3. QED
      BY <2>2, Zenon
  <1>4. CASE B!Destroy
    <2>1. inbox' = <<>> /\ asked' = {} /\ UNCHANGED broadcast_address
      BY <1>4, Zenon DEF B!Destroy
    <2>2. B!Senders' = {}
      BY <2>1 DEF B!Senders
    <2>3. B!Party' \subseteq B!Party
      BY <1>1, <2>1, <2>2, Zenon
    <2>4. QED
      BY <2>3, Zenon
  <1>5. CASE B!RecvText \/ B!RecvEmpty
    <2>1. /\ inbox # <<>> /\ inbox' = Tail(inbox) /\ asked' = asked
          /\ broadcast_address' = Head(inbox).from
      BY <1>5, Zenon DEF B!RecvText, B!RecvEmpty, B!Take
    <2>2. B!Senders' \subseteq B!Senders /\ broadcast_address' \in B!Senders
      BY <1>1, <2>1, SendersOfTail DEF B!Senders
    <2>3. B!Party' \subseteq B!Party
      BY <1>1, <2>1, <2>2, Zenon
    <2>4. QED
      BY <2>3, Zenon
  <1>6. ASSUME NEW p \in B!Peers, B!Answer(p)
        PROVE  B!Party' \subseteq B!Party
    <2>1. PICK t \in BOOLEAN : inbox' = Append(inbox, [from |-> p, text |-> t])
      BY <1>6, Zenon DEF B!Answer
    <2>2. /\ [from |-> p, text |-> t] \in B!Datagram /\ [from |-> p, text |-> t].from = p
      BY DEF B!Datagram
    <2>3. B!Senders' \subseteq B!Senders \cup {p}
      BY <1>1, <2>1, <2>2, SendersOfAppend DEF B!Senders
    <2>4. p \in asked /\ asked' = asked \ {p} /\ UNCHANGED broadcast_address
      BY <1>6, Zenon DEF B!Answer
    <2>5. QED
      BY <1>1, <2>3, <2>4, Zenon
  <1>7. QED
    BY <1>2, <1>3, <1>4, <1>5, <1>6, Zenon DEF B!Step, B!Call

(* Once constructed an object has the option on only when it was asked for. *)
LEMMA LoopbackStep ==
    B!TypeOK /\ B!LoopbackIsAsked /\ [B!Next]_B!vars => B!LoopbackIsAsked'
  <1> SUFFICES ASSUME B!TypeOK, B!LoopbackIsAsked, [B!Next]_B!vars PROVE B!LoopbackIsAsked'
    OBVIOUS
  <1>0. /\ B!Options' = B!Options /\ B!Options \in Nat \ {0}
        /\ loopback \in BOOLEAN /\ looped \in BOOLEAN /\ option \in 0..B!Options
        /\ [B!Step]_B!vars
    BY DEF B!TypeOK, B!Next, B!vars, B!Options, B!Windows
  <1> USE DEF B!LoopbackIsAsked, B!object, B!history
  <1>1. CASE B!SetOption
    <2>1. /\ sending = "ctor" /\ option' = option + 1 /\ loopback' = (option' < B!Options)
          /\ UNCHANGED <<sending, looped>>
      BY <1>1, Zenon DEF B!SetOption
    <2>2. loopback' => sending' = "ctor" /\ option' < B!Options
      BY <2>1, Zenon
    <2>3. QED
      BY <1>0, <2>2
  <1>2. CASE B!Construct
    <2>1. sending' = "ctor" /\ option' = 0
      BY <1>2, Zenon DEF B!Construct
    <2>2. QED
      BY <1>0, <2>1
  <1>3. CASE B!OptionFails \/ B!Destroy
    BY <1>3, Zenon DEF B!OptionFails, B!Destroy
  <1>4. CASE B!Constructed
    <2>1. sending = "ctor" /\ option = B!Options /\ UNCHANGED <<loopback, looped>>
      BY <1>4, Zenon DEF B!Constructed
    <2>2. loopback => looped
      BY <1>0, <2>1
    <2>3. QED
      BY <2>1, <2>2, Zenon
  <1>5. CASE B!EnableLoopback
    BY <1>5, Zenon DEF B!EnableLoopback
  <1>6. CASE B!Send \/ B!Call \/ B!SocketFails \/ B!SendFails \/ \E p \in B!Peers : B!Answer(p)
    <2>1. UNCHANGED <<loopback, looped>> /\ (sending' = "none" <=> sending = "none")
      BY <1>6, Zenon DEF B!Send, B!SocketFails, B!SendFails, B!Answer, B!Call, B!Recv, B!RecvText,
                         B!RecvEmpty, B!RecvTimeout, B!RecvFails, B!Take
    <2>2. sending # "ctor" \/ UNCHANGED <<sending, option>>
      BY <1>6, Zenon DEF B!Send, B!SocketFails, B!SendFails, B!Answer, B!Call, B!Recv, B!RecvText,
                         B!RecvEmpty, B!RecvTimeout, B!RecvFails, B!Take
    <2>3. QED
      BY <1>0, <2>1, <2>2
  <1>7. CASE UNCHANGED B!vars
    BY <1>0, <1>7, Zenon DEF B!vars
  <1>8. QED
    BY <1>0, <1>1, <1>2, <1>3, <1>4, <1>5, <1>6, <1>7, Zenon DEF B!Step

(* Nobody is asked, and nothing comes, before the constructor has ended.    *)
LEMMA NobodyStep == B!NobodyYet /\ [B!Next]_B!vars => B!NobodyYet'
  <1> SUFFICES ASSUME B!NobodyYet, [B!Next]_B!vars PROVE B!NobodyYet'
    OBVIOUS
  <1> USE DEF B!NobodyYet, B!network
  <1>1. CASE \/ B!Construct \/ B!SocketFails \/ B!SetOption \/ B!OptionFails
             \/ B!Constructed \/ B!Destroy
    BY <1>1 DEF B!Construct, B!SocketFails, B!SetOption, B!OptionFails,
                B!Constructed, B!Destroy
  <1>2. CASE B!Send \/ B!SendFails \/ B!EnableLoopback
    BY <1>2 DEF B!Send, B!SendFails, B!EnableLoopback
  <1>3. CASE \E p \in B!Peers : B!Answer(p)
    BY <1>3, Zenon DEF B!Answer, B!object
  <1>4. CASE B!Call
    BY <1>4 DEF B!Call, B!Recv, B!RecvText, B!RecvEmpty, B!RecvTimeout, B!RecvFails, B!Take
  <1>5. CASE UNCHANGED B!vars
    BY <1>5 DEF B!vars
  <1>6. QED
    BY <1>1, <1>2, <1>3, <1>4, <1>5 DEF B!Next, B!Step

(* This machine joins the party of an object on POSIX only by a send() to   *)
(* the group with loopback on, which is on only when it was asked for.      *)
LEMMA SilentStep ==
    ASSUME B!GroupAssumption, B!TypeOK, B!LoopbackIsAsked, B!NobodyYet,
           B!SilentWithoutLoopback, [B!Next]_B!vars
    PROVE  B!SilentWithoutLoopback'
  <1> SUFFICES ASSUME ~B!Windows', ~looped' PROVE B!Party' \cap Members = {}
    BY DEF B!SilentWithoutLoopback
  <1>0. ~B!Windows /\ [B!Step]_B!vars
    BY DEF B!Next, B!vars, B!Windows
  <1>1. CASE B!Construct
    <2>1. /\ asked = {} /\ inbox = <<>> /\ asked' = asked /\ inbox' = inbox
          /\ broadcast_address' = Group
      BY <1>1 DEF B!Construct, B!NobodyYet, B!network
    <2>2. B!Party' = {Group}
      BY <2>1 DEF B!Party, B!Senders
    <2>3. QED
      BY <2>2 DEF B!GroupAssumption
  <1>2. CASE UNCHANGED B!vars
    <2>1. B!Party' = B!Party /\ ~looped
      BY <1>2 DEF B!vars, B!Party, B!Senders
    <2>2. QED
      BY <1>0, <2>1 DEF B!SilentWithoutLoopback
  <1>3. CASE ~B!Construct /\ B!Step
    <2>1. ~looped
      <3> USE DEF B!history
      <3>1. CASE B!SocketFails \/ B!SetOption \/ B!OptionFails \/ B!Constructed \/ B!Destroy
        BY <3>1, Zenon DEF B!SocketFails, B!SetOption, B!OptionFails, B!Constructed, B!Destroy
      <3>2. CASE B!Send \/ B!SendFails \/ B!EnableLoopback \/ \E p \in B!Peers : B!Answer(p)
        BY <3>2, Zenon DEF B!Send, B!SendFails, B!EnableLoopback, B!Answer
      <3>3. CASE B!Call
        BY <3>3, Zenon DEF B!Call, B!Recv, B!RecvText, B!RecvEmpty, B!RecvTimeout,
                           B!RecvFails, B!Take
      <3>4. QED
        BY <1>3, <3>1, <3>2, <3>3, Zenon DEF B!Step
    <2>2. B!Party \cap Members = {}
      BY <1>0, <2>1 DEF B!SilentWithoutLoopback
    <2>3. CASE B!Party' \subseteq B!Party
      BY <2>2, <2>3
    <2>4. CASE B!Send /\ B!Party' \subseteq B!Party \cup B!Hear(Group)
      <3>1. ~loopback
        BY <2>1, <2>4 DEF B!Send, B!LoopbackIsAsked
      <3>2. B!Hear(Group) = Hosts
        BY <1>0, <3>1 DEF B!Hear
      <3>3. QED
        BY <2>2, <2>4, <3>2 DEF B!GroupAssumption
    <2>5. QED
      BY <1>3, <2>3, <2>4, PartyStep
  <1>4. QED
    BY <1>0, <1>1, <1>2, <1>3

(* The invariant of the broadcaster holds throughout the composition.       *)
LEMMA BroadcasterInv ==
    ASSUME B!GroupAssumption, B!BoundsAssumption PROVE Whole => []B!IInv
  <1>1. Whole => B!IInv
    <2>1. Whole => B!TypeOK
      BY BroadcasterInit, BroadcasterTypeInit
    <2>2. ASSUME B!Init
          PROVE  /\ B!NothingLostOnLinux /\ B!LostOnlyByThrowing /\ B!LostByFault
                 /\ B!SilentWithoutLoopback /\ B!LoopbackIsAsked /\ B!NobodyYet
      <3>1. <<>> \o <<>> = <<>>
        OBVIOUS
      <3>2. B!NothingLostOnLinux /\ B!LostOnlyByThrowing /\ B!LostByFault
        BY <2>2, <3>1 DEF B!Init, B!NothingLostOnLinux, B!LostOnlyByThrowing, B!LostByFault
      <3>3. B!LoopbackIsAsked /\ B!NobodyYet
        BY <2>2 DEF B!Init, B!LoopbackIsAsked, B!NobodyYet
      <3>4. B!Party = {Group}
        BY <2>2 DEF B!Init, B!Party, B!Senders
      <3>5. B!SilentWithoutLoopback
        BY <3>4 DEF B!SilentWithoutLoopback, B!GroupAssumption
      <3>6. QED
        BY <3>2, <3>3, <3>5
    <2>3. QED
      BY <2>1, <2>2, BroadcasterInit DEF B!IInv, B!NothingLost
  <1>2. B!IInv /\ [PartStep]_everything => B!IInv'
    BY BroadcasterStep, BroadcasterTypeStep, NothingLostStep, LoopbackStep, NobodyStep,
       SilentStep, Zenon
       DEF B!IInv, B!NothingLost
  <1>3. Whole => [][PartStep]_everything
    BY DEF Whole
  <1>4. QED
    BY <1>1, <1>2, <1>3, PTL

(* For any peers and bounds, on Linux and on Windows: every datagram with   *)
(* text that recv() took is returned, once and in the order it came, but    *)
(* for those that a recv() which threw on Windows held.                     *)
THEOREM BroadcasterNothingLost ==
    ASSUME B!GroupAssumption, B!BoundsAssumption PROVE Whole => []NothingLost
  <1>1. B!IInv => NothingLost
    BY DEF B!IInv, NothingLost
  <1>2. QED
    BY <1>1, BroadcasterInv, PTL

(* For any peers and bounds: once a peer has answered, nobody who is not    *)
(* already part of the conversation ever hears the object again, and on     *)
(* POSIX nobody of this machine is part of it without enableLoopback(true). *)
THEOREM BroadcasterWhoHears ==
    ASSUME B!GroupAssumption, B!BoundsAssumption PROVE Whole => WhoHears
  <1> DEFINE NoMore == broadcast_address # Group /\ sending # "none" => B!Party' \subseteq B!Party
  <1>1. B!IInv /\ [B!Next]_B!vars => [NoMore]_B!vars
    <2> SUFFICES ASSUME B!IInv, B!Step, broadcast_address # Group, sending # "none"
                 PROVE  B!Party' \subseteq B!Party
      BY DEF B!Next
    <2>1. B!TypeOK
      BY DEF B!IInv, B!NothingLost
    <2>2. ~B!Construct
      BY DEF B!Construct
    <2>3. QED
      BY <2>1, <2>2, PartyStep
  <1>2. Whole => [][PartStep]_everything
    BY DEF Whole
  <1>3. B!IInv => B!SilentWithoutLoopback
    BY DEF B!IInv
  <1>4. Whole => [][NoMore]_B!vars /\ []B!SilentWithoutLoopback
    BY <1>1, <1>2, <1>3, BroadcasterInv, BroadcasterStep, PTL
  <1>5. QED
    BY <1>4, PTL DEF WhoHears, B!WhoHears, B!NobodyNewHears

-----------------------------------------------------------------------------
(* NetUtil on macOS *)

(* A set of naturals that is not empty has a least member.                  *)
LEMMA LeastNatural ==
    ASSUME NEW T, T \subseteq Nat, T # {} PROVE \E x \in T : \A y \in T : x <= y
  <1> DEFINE R == OpToRel(<, Nat)
  <1>1. IsWellFoundedOn(R, Nat)
    BY NatLessThanWellFounded
  <1>2. \A x, y \in Nat : y < x => <<y, x>> \in R
    BY DEF OpToRel
  <1> HIDE DEF R
  <1>3. PICK x \in T : \A y \in T : ~ (<<y, x>> \in R)
    BY <1>1, WFMin
  <1>4. ASSUME NEW y \in T PROVE x <= y
    <2>1. x \in Nat /\ y \in Nat
      OBVIOUS
    <2>2. ~ (y < x)
      BY <1>2, <1>3, <2>1, Zenon
    <2>3. QED
      BY <2>1, <2>2
  <1>5. QED
    BY <1>4

(* Places in a sequence have a first and a last one.                        *)
LEMMA FirstAndLast ==
    ASSUME NEW n \in Nat, NEW T, T \subseteq 1..n, T # {}
    PROVE  /\ M!Min(T) \in T
           /\ M!Max(T) \in T /\ \A y \in T : y <= M!Max(T)
  <1>1. T \subseteq Nat
    OBVIOUS
  <1>2. M!Min(T) \in T
    <2>1. \E x \in T : \A y \in T : x <= y
      BY <1>1, LeastNatural
    <2>2. QED
      BY <2>1, Zenon DEF M!Min
  <1> DEFINE U == {n - x : x \in T}
  <1>3. U \subseteq Nat /\ U # {}
    <2>1. \A x \in T : n - x \in Nat
      OBVIOUS
    <2>2. QED
      BY <2>1
  <1>4. PICK u \in U : \A v \in U : u <= v
    BY <1>3, LeastNatural, Zenon
  <1>5. PICK m \in T : u = n - m
    OBVIOUS
  <1>6. ASSUME NEW y \in T PROVE m >= y
    <2>1. n - y \in U
      OBVIOUS
    <2>2. u <= n - y
      BY <1>4, <2>1
    <2>3. QED
      BY <1>5, <2>2
  <1>7. M!Max(T) \in T /\ \A y \in T : M!Max(T) >= y
    <2>1. \E x \in T : \A y \in T : x >= y
      BY <1>6
    <2>2. QED
      BY <2>1, Zenon DEF M!Max
  <1>8. QED
    BY <1>2, <1>7

(* LongestTable, which bounds the loop over the services, is a bound of     *)
(* every table.                                                             *)
LEMMA LongestIs ==
    ASSUME M!ListsAssumption
    PROVE  M!LongestTable \in Nat /\ \A t \in ServiceTables : Len(t) <= M!LongestTable
  <1> DEFINE T == {Len(t) : t \in ServiceTables}
  <1>1. \A t \in ServiceTables : Len(t) \in Nat
    BY LenProperties DEF M!ListsAssumption
  <1>2. PICK t \in ServiceTables : \A s \in ServiceTables : Len(s) <= Len(t)
    BY DEF M!ListsAssumption
  <1>3. \E x \in T : \A y \in T : x >= y
    <2>1. Len(t) \in T /\ \A y \in T : Len(t) >= y
      BY <1>1, <1>2
    <2>2. QED
      BY <2>1
  <1>4. M!Max(T) \in T /\ \A y \in T : M!Max(T) >= y
    BY <1>3, Zenon DEF M!Max
  <1>5. M!LongestTable = M!Max(T)
    BY DEF M!LongestTable
  <1> HIDE DEF T
  <1>6. \A s \in ServiceTables : Len(s) \in T
    BY DEF T
  <1>7. M!Max(T) \in Nat
    BY <1>1, <1>4 DEF T
  <1>8. ASSUME NEW s \in ServiceTables PROVE Len(s) <= M!Max(T)
    BY <1>1, <1>4, <1>6, <1>7
  <1>9. QED
    BY <1>5, <1>7, <1>8

(* What the functions find in the tables of the system.                     *)
LEMMA Found ==
    ASSUME M!ListsAssumption, M!TypeOK, NEW name
    PROVE  /\ M!Position(name) \in Int
           /\ M!Position(name) # -1 =>
                 /\ M!Position(name) + 1 \in DOMAIN services
                 /\ services[M!Position(name) + 1].iface = name
                 /\ \A k \in M!Position(name) + 2..Len(services) : services[k].iface # name
           /\ M!ServiceOf(name) \in M!Identifiers \cup {None}
           /\ M!ServiceOf(name) # None => \E j \in DOMAIN services :
                 /\ services[j] = [id |-> M!ServiceOf(name), iface |-> name]
                 /\ \A k \in j + 1..Len(services) : services[k].iface # name
           /\ M!FirstRoute(name) \in M!Gateways \cup {None}
           /\ M!FirstRoute(name) # None => \E j \in DOMAIN routes :
                 /\ routes[j] = [gateway |-> M!FirstRoute(name), iface |-> routes[j].iface]
                 /\ M!Greps(routes[j].iface, name)
  <1> DEFINE all == {i \in DOMAIN services : services[i].iface = name}
             fits == {i \in DOMAIN routes : M!Greps(routes[i].iface, name)}
  <1>1. /\ services \in ServiceTables /\ routes \in Routes
        /\ Len(services) \in Nat /\ DOMAIN services = 1..Len(services)
        /\ Len(routes) \in Nat /\ DOMAIN routes = 1..Len(routes)
    BY LenProperties DEF M!TypeOK, M!ListsAssumption
  <1>2. ASSUME all # {}
        PROVE  /\ M!Max(all) \in 1..Len(services) /\ services[M!Max(all)].iface = name
               /\ \A k \in M!Max(all) + 1..Len(services) : services[k].iface # name
    <2>1. M!Max(all) \in all /\ \A y \in all : y <= M!Max(all)
      BY <1>1, <1>2, FirstAndLast
    <2>2. ASSUME NEW k \in M!Max(all) + 1..Len(services) PROVE services[k].iface # name
      <3>1. k \in DOMAIN services /\ ~ (k <= M!Max(all))
        BY <1>1, <2>1
      <3>2. QED
        BY <2>1, <3>1
    <2>3. QED
      BY <1>1, <2>1, <2>2
  <1>3. ASSUME fits # {} PROVE M!Min(fits) \in fits
    BY <1>1, <1>3, FirstAndLast
  <1>4. M!Position(name) = IF all = {} THEN -1 ELSE M!Max(all) - 1
    BY DEF M!Position
  <1>5. M!ServiceOf(name) = IF all = {} THEN None ELSE services[M!Max(all)].id
    BY DEF M!ServiceOf
  <1>6. M!FirstRoute(name) = IF fits = {} THEN None ELSE routes[M!Min(fits)].gateway
    BY DEF M!FirstRoute
  <1>7. /\ \A i \in DOMAIN services : /\ services[i] = [id |-> services[i].id, iface |-> services[i].iface]
                                      /\ services[i].id \in M!Identifiers
        /\ \A i \in DOMAIN routes : /\ routes[i] = [gateway |-> routes[i].gateway, iface |-> routes[i].iface]
                                    /\ routes[i].gateway \in M!Gateways
    BY <1>1 DEF M!ListsAssumption, M!Identifiers, M!Gateways
  <1>8. /\ M!FirstRoute(name) \in M!Gateways \cup {None}
        /\ M!FirstRoute(name) # None => \E j \in DOMAIN routes :
              /\ routes[j] = [gateway |-> M!FirstRoute(name), iface |-> routes[j].iface]
              /\ M!Greps(routes[j].iface, name)
    <2>1. CASE fits = {}
      BY <1>6, <2>1
    <2>2. CASE fits # {}
      <3> DEFINE j == M!Min(fits)
      <3>1. j \in fits /\ M!FirstRoute(name) = routes[j].gateway
        BY <1>3, <1>6, <2>2
      <3> HIDE DEF j
      <3>2. j \in DOMAIN routes /\ M!Greps(routes[j].iface, name)
        BY <3>1
      <3>3. /\ routes[j] = [gateway |-> M!FirstRoute(name), iface |-> routes[j].iface]
            /\ M!FirstRoute(name) \in M!Gateways
        BY <1>7, <3>1, <3>2
      <3>4. QED
        BY <3>2, <3>3, Zenon
    <2>3. QED
      BY <2>1, <2>2
  <1> HIDE DEF all
  <1>9. CASE all = {}
    <2>1. M!Position(name) = -1 /\ M!ServiceOf(name) = None
      BY <1>4, <1>5, <1>9
    <2>2. QED
      BY <1>8, <2>1
  <1>10. CASE all # {}
    <2> DEFINE m == M!Max(all)
    <2>1. /\ m \in 1..Len(services) /\ services[m].iface = name
          /\ \A k \in m + 1..Len(services) : services[k].iface # name
      BY <1>2, <1>10
    <2>2. M!Position(name) = m - 1 /\ M!ServiceOf(name) = services[m].id
      BY <1>4, <1>5, <1>10
    <2> HIDE DEF m
    <2>3. /\ M!Position(name) \in Int /\ M!Position(name) + 1 = m /\ M!Position(name) + 2 = m + 1
      BY <2>1, <2>2
    <2>4. /\ services[m] = [id |-> M!ServiceOf(name), iface |-> name]
          /\ M!ServiceOf(name) \in M!Identifiers
      BY <1>1, <1>7, <2>1, <2>2
    <2>5. QED
      BY <1>1, <1>8, <2>1, <2>3, <2>4
  <1>11. QED
    BY <1>9, <1>10

(* One action for one part of an adapter: types and places of every step.   *)
LEMMA MacTypeInit == M!ListsAssumption /\ M!Init => M!TypeOK
  <1> SUFFICES ASSUME M!ListsAssumption, M!Init PROVE M!TypeOK
    OBVIOUS
  <1>1. M!Blank \in M!Adapter
    BY DEF M!Blank, M!Adapter, M!Lists
  <1>2. owned \in [M!Kinds -> Int]
    BY DEF M!Init
  <1>3. function # "done" => 1 <= Len(Interfaces)
    BY DEF M!Init, M!ListsAssumption
  <1>4. result = <<>> /\ Len(result) = 0 /\ result \in Seq(M!Adapter) /\ item = 1
    BY DEF M!Init
  <1>5. /\ services \in seen /\ seen \subseteq ServiceTables
        /\ store \in [M!Names -> States] /\ routes \in Routes /\ adapter = M!Blank
        /\ function \in {"done", "priority"}
    BY DEF M!Init
  <1>6. QED
    BY <1>1, <1>2, <1>3, <1>4, <1>5 DEF M!TypeOK

(* The interface whose turn it is.                                          *)
LEMMA NameIs ==
    M!ListsAssumption /\ M!TypeOK /\ function # "done" =>
        M!Name \in M!Names /\ item \in 1..Len(Interfaces)
  <1> SUFFICES ASSUME M!ListsAssumption, M!TypeOK, function # "done"
               PROVE  M!Name \in M!Names /\ item \in 1..Len(Interfaces)
    OBVIOUS
  <1>1. Interfaces \in Seq(M!Names) /\ Len(Interfaces) \in Nat
    BY LenProperties DEF M!ListsAssumption
  <1>2. item \in 1..Len(Interfaces)
    BY <1>1 DEF M!TypeOK
  <1>3. QED
    BY <1>1, <1>2, ElementOfSeq DEF M!Name

(* Every step leaves an adapter under way that is of its type.              *)
LEMMA MacAdapterType ==
    M!ListsAssumption /\ M!TypeOK /\ [M!Next]_M!vars => adapter' \in M!Adapter
  <1> SUFFICES ASSUME M!ListsAssumption, M!TypeOK, [M!Next]_M!vars PROVE adapter' \in M!Adapter
    OBVIOUS
  <1> USE DEF M!Adapter, M!Goto
  <1>0. adapter \in M!Adapter /\ M!Blank \in M!Adapter
    BY DEF M!TypeOK, M!Blank, M!Lists
  <1>1. CASE M!Change \/ M!Link \/ M!Push
    BY <1>0, <1>1 DEF M!Change, M!Link, M!Push
  <1>2. CASE M!Priority
    <2>1. M!Position(M!Name) \in Int
      BY Found
    <2>2. M!Name \in M!Names
      BY <1>2, NameIs DEF M!Priority
    <2>3. \A n \in M!Names, q \in Int : /\ [M!Blank EXCEPT !.name = n, !.priority = q] \in M!Adapter
                                      /\ [M!Blank EXCEPT !.name = n] \in M!Adapter
      BY <1>0
    <2>4. QED
      BY <1>2, <2>1, <2>2, <2>3, Zenon DEF M!Priority
  <1>3. CASE M!Service
    <2>1. M!ServiceOf(M!Name) \in M!Identifiers \cup {None}
      BY Found
    <2>2. QED
      BY <1>0, <1>3, <2>1 DEF M!Service
  <1>4. CASE M!Dhcp \/ M!Dns
    BY <1>0, <1>4 DEF M!Dhcp, M!Dns
  <1>5. CASE M!Gateway
    <2>1. M!FirstRoute(M!Name) \in M!Gateways \cup {None}
      BY Found
    <2>2. QED
      BY <1>0, <1>5, <2>1 DEF M!Gateway
  <1>6. CASE M!IpV4
    <2>1. \A lists : M!Readable(lists) \in SUBSET M!Lists
      BY DEF M!Readable, M!Lists
    <2>2. QED
      BY <1>0, <1>6, <2>1 DEF M!IpV4
  <1>7. CASE UNCHANGED M!vars
    BY <1>0, <1>7 DEF M!vars
  <1>8. QED
    BY <1>1, <1>2, <1>3, <1>4, <1>5, <1>6, <1>7 DEF M!Next

(* Every step of the macOS module keeps its types.                          *)
LEMMA MacTypeStep == M!ListsAssumption /\ M!TypeOK /\ [M!Next]_M!vars => M!TypeOK'
  <1> SUFFICES ASSUME M!ListsAssumption, M!TypeOK, [M!Next]_M!vars PROVE M!TypeOK'
    OBVIOUS
  <1>1. adapter' \in M!Adapter
    BY MacAdapterType
  <1>2. owned' \in [M!Kinds -> Int]
    <2>1. owned \in [M!Kinds -> Int]
      BY DEF M!TypeOK
    <2>2. ASSUME NEW lost, \A k \in DOMAIN lost : lost[k] \in Int, M!Keep(lost)
          PROVE owned' \in [M!Kinds -> Int]
      BY <2>1, <2>2 DEF M!Keep
    <2>3. M!Nothing => owned' \in [M!Kinds -> Int]
      BY <2>2 DEF M!Nothing
    <2>4. Len(services) \in Nat
      BY LenProperties DEF M!TypeOK, M!ListsAssumption
    <2>5. CASE M!Priority
      BY <2>2, <2>3, <2>4, <2>5 DEF M!Priority
    <2>6. CASE M!Dhcp
      BY <2>2, <2>3, <2>6 DEF M!Dhcp
    <2>7. CASE M!Dns
      BY <2>2, <2>3, <2>7 DEF M!Dns
    <2>8. CASE M!Service \/ M!Link \/ M!Gateway \/ M!IpV4
      BY <2>3, <2>8, Zenon DEF M!Service, M!Link, M!Gateway, M!IpV4
    <2>9. CASE M!Change \/ M!Push \/ UNCHANGED M!vars
      BY <2>1, <2>9, Zenon DEF M!Change, M!Push, M!vars
    <2>10. QED
      BY <2>5, <2>6, <2>7, <2>8, <2>9, Zenon DEF M!Next
  <1>3. CASE M!Push
    <2>1. adapter \in M!Adapter /\ result \in Seq(M!Adapter) /\ Len(result) = item - 1
      BY DEF M!TypeOK
    <2>a. /\ result' = Append(result, adapter) /\ item' = item + 1 /\ item \in 1..Len(Interfaces)
          /\ function' # "done" => item # Len(Interfaces)
      BY <1>3, NameIs DEF M!Push
    <2>2. result' \in Seq(M!Adapter) /\ Len(result') = item' - 1
      BY <2>1, <2>a, AppendProperties
    <2>3. item' \in Nat \ {0} /\ (function' # "done" => item' <= Len(Interfaces))
      BY <2>a
    <2>4. function' \in {"priority", "done"}
      BY <1>3 DEF M!Push
    <2>5. UNCHANGED <<services, store, routes, seen>>
      BY <1>3, Zenon DEF M!Push, M!system
    <2>6. QED
      BY <1>1, <1>2, <2>2, <2>3, <2>4, <2>5, Zenon DEF M!TypeOK
  <1>4. CASE M!Change
    <2>1. services' \in seen' /\ seen' \subseteq ServiceTables
      BY <1>4 DEF M!Change, M!TypeOK
    <2>2. QED
      BY <1>1, <1>2, <1>4, <2>1, Zenon DEF M!Change, M!TypeOK
  <1>5. ASSUME NEW from, NEW to \in {"service", "dhcp", "link", "gateway", "ipv4", "dns", "push", "crashed"},
               from # "done", M!Goto(from, to)
        PROVE M!TypeOK'
    <2>1. function' # "done" => item' <= Len(Interfaces)
      BY <1>5 DEF M!Goto, M!TypeOK
    <2>2. QED
      BY <1>1, <1>2, <1>5, <2>1, Zenon DEF M!Goto, M!system, M!TypeOK
  <1>6. CASE M!Priority \/ M!Service \/ M!Dhcp \/ M!Link \/ M!Gateway \/ M!IpV4 \/ M!Dns
    BY <1>5, <1>6 DEF M!Priority, M!Service, M!Dhcp, M!Link, M!Gateway, M!IpV4, M!Dns
  <1>7. CASE UNCHANGED M!vars
    BY <1>7, Zenon DEF M!vars, M!system, M!TypeOK
  <1>8. QED
    BY <1>3, <1>4, <1>6, <1>7, Zenon DEF M!Next

(* A service table that has been seen stays seen.                           *)
LEMMA StaysTrue ==
    ASSUME NEW a, M!AsItWas(a), seen \subseteq seen', routes' = routes
    PROVE  M!AsItWas(a)'
  BY DEF M!AsItWas, M!OfSomeMoment, M!OfService, M!OwnGateway, M!Nested

(* A moment once seen stays seen; the routing table of the machine does not *)
(* change.                                                                  *)
LEMMA MacSeen == [M!Next]_M!vars => seen \subseteq seen' /\ routes' = routes
  BY DEF M!Next, M!Change, M!Priority, M!Service, M!Dhcp, M!Link, M!Gateway, M!IpV4, M!Dns,
         M!Push, M!Goto, M!system, M!vars

(* Each function leaves what the others found, and finds what there is.     *)
LEMMA MacAdapterStep ==
    M!ListsAssumption /\ M!TypeOK /\ M!AdapterInv /\ [M!Next]_M!vars => M!AdapterInv'
  <1> SUFFICES ASSUME M!ListsAssumption, M!TypeOK, M!AdapterInv, [M!Next]_M!vars,
                      function' \in {"service", "dhcp", "link", "gateway", "ipv4", "dns", "push"}
               PROVE  /\ (adapter.name = M!Name /\ M!AsItWas(adapter))'
                      /\ function' = "service" => ~adapter'.dhcp /\ ~adapter'.dns
    BY DEF M!AdapterInv
  <1>0. seen \subseteq seen' /\ routes' = routes
    BY MacSeen
  <1>1. adapter \in M!Adapter
    BY DEF M!TypeOK
  <1>2. CASE M!Priority
    <2>1. /\ function' = "service" /\ M!Name' = M!Name /\ seen' = seen /\ routes' = routes
          /\ \/ adapter' = [M!Blank EXCEPT !.name = M!Name, !.priority = M!Position(M!Name)]
             \/ adapter' = [M!Blank EXCEPT !.name = M!Name]
      BY <1>2, Zenon DEF M!Priority, M!Goto, M!Name, M!system
    <2>2. /\ adapter'.name = M!Name /\ adapter'.service = None /\ ~adapter'.dhcp /\ ~adapter'.dns
          /\ adapter'.gateway = None /\ adapter'.address = {}
          /\ adapter'.priority \in {-1, M!Position(M!Name)}
      BY <2>1 DEF M!Blank
    <2>3. adapter'.priority # -1 => \E t \in seen :
             /\ adapter'.priority + 1 \in DOMAIN t /\ t[adapter'.priority + 1].iface = M!Name
             /\ \A k \in adapter'.priority + 2..Len(t) : t[k].iface # M!Name
      <3>1. services \in seen
        BY DEF M!TypeOK
      <3>2. M!Position(M!Name) # -1 =>
                 /\ M!Position(M!Name) + 1 \in DOMAIN services
                 /\ services[M!Position(M!Name) + 1].iface = M!Name
                 /\ \A k \in M!Position(M!Name) + 2..Len(services) : services[k].iface # M!Name
        BY Found
      <3>3. QED
        BY <2>2, <3>1, <3>2
    <2>4. QED
      BY <2>1, <2>2, <2>3 DEF M!AsItWas, M!OfSomeMoment, M!OfService, M!OwnGateway, M!Nested
  <1>3. CASE M!Service \/ M!Dhcp \/ M!Link \/ M!Gateway \/ M!IpV4 \/ M!Dns
    <2>0. /\ M!Name' = M!Name /\ seen' = seen /\ routes' = routes
          /\ adapter.name = M!Name /\ M!AsItWas(adapter)
          /\ function = "service" => ~adapter.dhcp /\ ~adapter.dns
          /\ function' # "service"
      BY <1>3 DEF M!Service, M!Dhcp, M!Link, M!Gateway, M!IpV4, M!Dns, M!Goto, M!Name,
                  M!AdapterInv, M!system
    <2> USE DEF M!AsItWas, M!OfSomeMoment, M!OfService, M!OwnGateway, M!Nested, M!Adapter
    <2>1. CASE M!Service
      <3>1. PICK id \in {M!ServiceOf(M!Name), None} : adapter' = [adapter EXCEPT !.service = id]
        BY <2>1, Zenon DEF M!Service
      <3>2. id # None => \E t \in seen : \E j \in DOMAIN t :
                 /\ t[j] = [id |-> id, iface |-> M!Name]
                 /\ \A k \in j + 1..Len(t) : t[k].iface # M!Name
        <4>1. services \in seen
          BY DEF M!TypeOK
        <4>2. M!ServiceOf(M!Name) # None => \E j \in DOMAIN services :
                 /\ services[j] = [id |-> M!ServiceOf(M!Name), iface |-> M!Name]
                 /\ \A k \in j + 1..Len(services) : services[k].iface # M!Name
          BY Found
        <4>3. QED
          BY <3>1, <4>1, <4>2, Zenon
      <3>3. function = "service"
        BY <2>1 DEF M!Service, M!Goto
      <3>4. /\ adapter'.name = adapter.name /\ adapter'.service = id
            /\ adapter'.priority = adapter.priority /\ adapter'.gateway = adapter.gateway
            /\ adapter'.address = adapter.address
            /\ adapter'.dhcp = adapter.dhcp /\ adapter'.dns = adapter.dns
        BY <1>1, <3>1
      <3>5. QED
        BY <2>0, <3>2, <3>3, <3>4
    <2>2. CASE M!Dhcp \/ M!Dns
      <3>1. /\ adapter'.name = adapter.name /\ adapter'.service = adapter.service
            /\ adapter'.priority = adapter.priority /\ adapter'.gateway = adapter.gateway
            /\ adapter'.address = adapter.address
            /\ \/ adapter.service # None
               \/ adapter'.dhcp = adapter.dhcp /\ adapter'.dns = adapter.dns
        BY <1>1, <2>2 DEF M!Dhcp, M!Dns
      <3>2. QED
        BY <2>0, <3>1
    <2>3. CASE M!Link
      BY <2>0, <2>3 DEF M!Link
    <2>4. CASE M!Gateway
      <3>1. PICK g \in {M!FirstRoute(M!Name), None} : adapter' = [adapter EXCEPT !.gateway = g]
        BY <2>4, Zenon DEF M!Gateway
      <3>2. g # None => \E j \in DOMAIN routes :
                 /\ routes[j] = [gateway |-> g, iface |-> routes[j].iface]
                 /\ M!Greps(routes[j].iface, M!Name)
        BY <3>1, Found
      <3>3. /\ adapter'.name = adapter.name /\ adapter'.service = adapter.service
            /\ adapter'.priority = adapter.priority /\ adapter'.gateway = g
            /\ adapter'.address = adapter.address
            /\ adapter'.dhcp = adapter.dhcp /\ adapter'.dns = adapter.dns
        BY <1>1, <3>1
      <3>4. (M!OwnGateway(adapter))'
        BY <2>0, <3>2, <3>3 DEF M!Greps
      <3>5. QED
        BY <2>0, <3>3, <3>4
    <2>5. CASE M!IpV4
      <3>1. /\ adapter'.name = adapter.name /\ adapter'.service = adapter.service
            /\ adapter'.priority = adapter.priority /\ adapter'.gateway = adapter.gateway
            /\ adapter'.dhcp = adapter.dhcp /\ adapter'.dns = adapter.dns
            /\ \/ adapter'.address = adapter.address
               \/ \E lists : adapter'.address = M!Readable(lists)
        BY <1>1, <2>5 DEF M!IpV4
      <3>2. \A lists : M!Readable(lists) \in {{}, {"Address"}, {"Address", "SubnetMask"}, M!Lists}
        BY DEF M!Readable, M!Lists
      <3>3. (M!Nested(adapter))'
        BY <2>0, <3>1, <3>2
      <3>4. QED
        BY <2>0, <3>1, <3>3
    <2>6. QED
      BY <1>3, <2>1, <2>2, <2>3, <2>4, <2>5
  <1>4. CASE M!Change \/ UNCHANGED M!vars
    <2>1. UNCHANGED <<function, adapter, item>>
      BY <1>4, Zenon DEF M!Change, M!vars
    <2>2. (M!AsItWas(adapter))'
      <3>1. M!AsItWas(adapter)
        BY <2>1 DEF M!AdapterInv
      <3>2. QED
        BY <1>0, <2>1, <3>1
           DEF M!AsItWas, M!OfSomeMoment, M!OfService, M!OwnGateway, M!Nested
    <2>3. QED
      BY <2>1, <2>2 DEF M!AdapterInv, M!Name
  <1>5. CASE M!Push
    BY <1>5 DEF M!Push
  <1>6. QED
    BY <1>2, <1>3, <1>4, <1>5 DEF M!Next

(* Every adapter of the result was under way before.                        *)
LEMMA MacResultStep ==
    /\ M!TypeOK /\ M!AdapterInv /\ [M!Next]_M!vars
    /\ \A i \in DOMAIN result : M!AsItWas(result[i])
    => (\A i \in DOMAIN result : M!AsItWas(result[i]))'
  <1> SUFFICES ASSUME M!TypeOK, M!AdapterInv, [M!Next]_M!vars,
                      \A i \in DOMAIN result : M!AsItWas(result[i]),
                      NEW i \in DOMAIN result'
               PROVE  M!AsItWas(result[i])'
    OBVIOUS
  <1>0. seen \subseteq seen' /\ routes' = routes
    BY MacSeen
  <1> USE DEF M!AsItWas, M!OfSomeMoment, M!OfService, M!OwnGateway, M!Nested
  <1>1. CASE M!Push
    <2>1. /\ result \in Seq(M!Adapter) /\ adapter \in M!Adapter
          /\ result' = Append(result, adapter) /\ M!AsItWas(adapter)
      BY <1>1 DEF M!Push, M!TypeOK, M!AdapterInv
    <2>2. /\ Len(result') = Len(result) + 1 /\ DOMAIN result = 1..Len(result)
          /\ DOMAIN result' = 1..Len(result') /\ Len(result) \in Nat
          /\ result'[Len(result) + 1] = adapter
          /\ \A k \in 1..Len(result) : result'[k] = result[k]
      <3> HIDE DEF M!AsItWas, M!OfSomeMoment, M!OfService, M!OwnGateway, M!Nested
      <3> QED BY <2>1, AppendProperties, LenProperties
    <2>3. PICK a : a = result'[i] /\ M!AsItWas(a)
      <3> HIDE DEF M!AsItWas
      <3>1. CASE i \in 1..Len(result)
        BY <2>2, <3>1
      <3>2. CASE i = Len(result) + 1
        BY <2>1, <2>2, <3>2
      <3>3. QED
        BY <2>2, <3>1, <3>2
    <2>4. QED
      BY <1>0, <2>3
  <1>2. CASE result' = result
    <2>1. M!AsItWas(result[i])
      BY <1>2
    <2>2. QED
      BY <1>0, <1>2, <2>1
  <1>3. M!Push \/ result' = result
    BY DEF M!Next, M!Change, M!Priority, M!Service, M!Dhcp, M!Link, M!Gateway, M!IpV4, M!Dns,
           M!Goto, M!vars
  <1>4. QED
    BY <1>1, <1>2, <1>3

(* Service, string and dnsKey are what a call loses, at one place each but  *)
(* for the string, and the order of the services is released once too often.*)
LEMMA MacLossStep ==
    M!ListsAssumption /\ M!TypeOK /\ M!LossInv /\ [M!Next]_M!vars => M!LossInv'
  <1> SUFFICES ASSUME M!ListsAssumption, M!TypeOK, M!LossInv, [M!Next]_M!vars PROVE M!LossInv'
    OBVIOUS
  <1> DEFINE N == M!LongestTable
             Losable == {"ifs", "service", "string", "dnsKey", "order"}
  <1>0. /\ N \in Nat /\ Len(services) \in Nat /\ Len(services) <= N
        /\ item \in Nat /\ N' = N
        /\ owned \in [M!Kinds -> Int] /\ owned' \in [M!Kinds -> Int]
    <2>1. services \in ServiceTables
      BY DEF M!TypeOK
    <2>2. owned' \in [M!Kinds -> Int]
      BY MacTypeStep DEF M!TypeOK
    <2>3. Len(services) \in Nat
      BY <2>1, LenProperties DEF M!ListsAssumption
    <2>4. N' = N
      BY DEF M!LongestTable
    <2>5. QED
      BY <2>1, <2>2, <2>3, <2>4, LongestIs DEF M!TypeOK
  <1>1. /\ "service" \in M!Kinds /\ "string" \in M!Kinds /\ "dnsKey" \in M!Kinds
        /\ "order" \in M!Kinds
    BY DEF M!Kinds
  <1>2. (item - 1) * N + N = item * N /\ (item - 1) * N <= item * N
    BY <1>0
  <1> HIDE DEF N
  <1>3. /\ \A k \in M!Kinds \ {"order"} : owned[k] >= 0
        /\ \A k \in M!Kinds \ Losable : owned[k] = 0
        /\ owned["dnsKey"] <= M!Behind({"priority", "service", "dhcp", "link", "gateway", "ipv4", "dns", "done"})
        /\ owned["string"] <= M!Behind({"priority", "service", "dhcp", "done"})
              + M!Behind({"priority", "service", "dhcp", "link", "gateway", "ipv4", "dns", "done"})
        /\ owned["service"] <= M!Behind({"priority", "done"}) * N
    BY DEF M!LossInv, N
  <1>4. ASSUME /\ \A k \in M!Kinds \ {"order"} : owned'[k] >= 0
               /\ \A k \in M!Kinds \ Losable : owned'[k] = 0
               /\ owned'["dnsKey"] <= M!Behind({"priority", "service", "dhcp", "link", "gateway", "ipv4", "dns", "done"})'
               /\ owned'["string"] <= M!Behind({"priority", "service", "dhcp", "done"})'
                     + M!Behind({"priority", "service", "dhcp", "link", "gateway", "ipv4", "dns", "done"})'
               /\ owned'["service"] <= M!Behind({"priority", "done"})' * N
        PROVE  M!LossInv'
    BY <1>0, <1>4 DEF M!LossInv, N
  <1>k. ASSUME \A k \in M!Kinds \ Losable : owned'[k] = owned[k],
               \A k \in M!Kinds \ {"order"} : owned'[k] >= owned[k]
        PROVE  /\ \A k \in M!Kinds \ {"order"} : owned'[k] >= 0
               /\ \A k \in M!Kinds \ Losable : owned'[k] = 0
    <2>1. ASSUME NEW k \in M!Kinds \ {"order"} PROVE owned'[k] >= 0
      <3>1. owned[k] >= 0 /\ owned[k] \in Int /\ owned'[k] \in Int /\ owned'[k] >= owned[k]
        BY <1>0, <1>3, <1>k
      <3>2. QED
        BY <3>1
    <2>2. QED
      BY <1>3, <1>k, <2>1
  <1> USE DEF M!Behind
  <1>5. M!Nothing => owned' = owned
    <2>1. ASSUME M!Nothing PROVE owned' = [k \in M!Kinds |-> owned[k] + 0]
      BY <2>1 DEF M!Nothing, M!Keep
    <2>2. ASSUME NEW k \in M!Kinds PROVE owned[k] + 0 = owned[k]
      BY <1>0
    <2>3. QED
      BY <1>0, <2>1, <2>2
  <1>6. CASE M!Priority
    <2>1. function = "priority" /\ function' = "service" /\ item' = item
      BY <1>6, Zenon DEF M!Priority, M!Goto
    <2>2. CASE M!Nothing
      <3>1. owned' = owned /\ owned["service"] <= (item - 1) * N
        BY <1>3, <1>5, <2>1, <2>2
      <3>2. owned["service"] <= item * N
        BY <1>0, <1>1, <1>2, <3>1
      <3>3. QED
        BY <1>0, <1>1, <1>3, <1>4, <2>1, <3>1, <3>2
    <2>3. CASE M!Keep([service |-> Len(services), order |-> -1])
      <3>1. /\ owned'["service"] = owned["service"] + Len(services)
            /\ owned'["order"] = owned["order"] - 1
            /\ \A k \in M!Kinds \ {"service", "order"} : owned'[k] = owned[k]
        BY <1>0, <1>1, <2>3 DEF M!Keep
      <3>2. owned["service"] <= (item - 1) * N /\ owned'["service"] <= item * N
        BY <1>0, <1>1, <1>2, <1>3, <2>1, <3>1
      <3>3. /\ \A k \in M!Kinds \ {"order"} : owned'[k] >= 0
            /\ \A k \in M!Kinds \ Losable : owned'[k] = 0
        <4>1. \A k \in M!Kinds \ Losable : owned'[k] = owned[k]
          BY <3>1
        <4>2. ASSUME NEW k \in M!Kinds \ {"order"} PROVE owned'[k] >= owned[k]
          BY <1>0, <3>1
        <4>3. QED
          BY <1>k, <4>1, <4>2
      <3>4. /\ owned'["dnsKey"] <= item - 1
            /\ owned'["string"] <= (item - 1) + (item - 1)
        BY <1>1, <1>3, <2>1, <3>1
      <3>5. QED
        BY <1>4, <2>1, <3>2, <3>3, <3>4
    <2>4. QED
      BY <1>6, <2>2, <2>3 DEF M!Priority
  <1>7. CASE M!Service \/ M!Link \/ M!Gateway \/ M!IpV4
    <2>1. /\ owned' = owned /\ item' = item
          /\ \/ function = "service" /\ function' = "dhcp"
             \/ function = "link" /\ function' = "gateway"
             \/ function = "gateway" /\ function' = "ipv4"
             \/ function = "ipv4" /\ function' \in {"dns", "crashed"}
      BY <1>5, <1>7 DEF M!Service, M!Link, M!Gateway, M!IpV4, M!Goto
    <2>2. QED
      BY <1>0, <1>1, <1>3, <1>4, <2>1
  <1>8. CASE M!Dhcp
    <2>1. function = "dhcp" /\ function' = "link" /\ item' = item
      BY <1>8 DEF M!Dhcp, M!Goto
    <2>2. CASE M!Nothing
      <3>1. /\ owned' = owned /\ owned["dnsKey"] <= item - 1
            /\ owned["string"] <= (item - 1) + (item - 1) /\ owned["service"] <= item * N
        BY <1>3, <1>5, <2>1, <2>2
      <3>2. owned["string"] <= item + (item - 1)
        BY <1>0, <1>1, <3>1
      <3>3. QED
        BY <1>3, <1>4, <2>1, <3>1, <3>2
    <2>3. CASE M!Keep([string |-> 1])
      <3>1. /\ owned'["string"] = owned["string"] + 1
            /\ \A k \in M!Kinds \ {"string"} : owned'[k] = owned[k]
        BY <1>0, <1>1, <2>3 DEF M!Keep
      <3>2. /\ \A k \in M!Kinds \ {"order"} : owned'[k] >= 0
            /\ \A k \in M!Kinds \ Losable : owned'[k] = 0
        <4>1. \A k \in M!Kinds \ Losable : owned'[k] = owned[k]
          BY <3>1
        <4>2. ASSUME NEW k \in M!Kinds \ {"order"} PROVE owned'[k] >= owned[k]
          BY <1>0, <3>1
        <4>3. QED
          BY <1>k, <4>1, <4>2
      <3>3. /\ owned'["dnsKey"] <= item - 1 /\ owned["string"] <= (item - 1) + (item - 1)
            /\ owned'["service"] <= item * N
        BY <1>1, <1>3, <2>1, <3>1
      <3>4. owned'["string"] <= item + (item - 1)
        BY <1>0, <1>1, <3>1, <3>3
      <3>5. QED
        BY <1>4, <2>1, <3>2, <3>3, <3>4
    <2>4. QED
      BY <1>8, <2>2, <2>3 DEF M!Dhcp
  <1>9. CASE M!Dns
    <2>1. function = "dns" /\ function' = "push" /\ item' = item
      BY <1>9 DEF M!Dns, M!Goto
    <2>2. CASE M!Nothing
      <3>1. /\ owned' = owned /\ owned["dnsKey"] <= item - 1
            /\ owned["string"] <= item + (item - 1) /\ owned["service"] <= item * N
        BY <1>3, <1>5, <2>1, <2>2
      <3>2. owned["dnsKey"] <= item /\ owned["string"] <= item + item
        BY <1>0, <1>1, <3>1
      <3>3. QED
        BY <1>3, <1>4, <2>1, <3>1, <3>2
    <2>3. CASE M!Keep([dnsKey |-> 1, string |-> 1])
      <3>1. /\ owned'["string"] = owned["string"] + 1
            /\ owned'["dnsKey"] = owned["dnsKey"] + 1
            /\ \A k \in M!Kinds \ {"string", "dnsKey"} : owned'[k] = owned[k]
        BY <1>0, <1>1, <2>3 DEF M!Keep
      <3>2. /\ \A k \in M!Kinds \ {"order"} : owned'[k] >= 0
            /\ \A k \in M!Kinds \ Losable : owned'[k] = 0
        <4>1. \A k \in M!Kinds \ Losable : owned'[k] = owned[k]
          BY <3>1
        <4>2. ASSUME NEW k \in M!Kinds \ {"order"} PROVE owned'[k] >= owned[k]
          BY <1>0, <3>1
        <4>3. QED
          BY <1>k, <4>1, <4>2
      <3>3. /\ owned["dnsKey"] <= item - 1 /\ owned["string"] <= item + (item - 1)
            /\ owned'["service"] <= item * N
        BY <1>1, <1>3, <2>1, <3>1
      <3>4. owned'["dnsKey"] <= item /\ owned'["string"] <= item + item
        BY <1>0, <1>1, <3>1, <3>3
      <3>5. QED
        BY <1>4, <2>1, <3>2, <3>3, <3>4
    <2>4. QED
      BY <1>9, <2>2, <2>3 DEF M!Dns
  <1>10. CASE M!Push
    <2>1. /\ owned' = owned /\ item' = item + 1
          /\ function = "push" /\ function' \in {"priority", "done"}
      BY <1>10 DEF M!Push
    <2>2. QED
      BY <1>0, <1>1, <1>3, <1>4, <2>1
  <1>11. CASE M!Change \/ UNCHANGED M!vars
    <2>1. owned' = owned /\ item' = item /\ function' = function
      BY <1>11 DEF M!Change, M!vars
    <2>2. QED
      BY <1>0, <1>1, <1>3, <1>4, <2>1
  <1>12. QED
    BY <1>6, <1>7, <1>8, <1>9, <1>10, <1>11 DEF M!Next

(* What the places of the losses say, they say of the whole call.           *)
LEMMA MacLosses == M!ListsAssumption /\ M!TypeOK /\ M!LossInv => M!OnlyKnownLosses
  <1> SUFFICES ASSUME M!ListsAssumption, M!TypeOK, M!LossInv PROVE M!OnlyKnownLosses
    OBVIOUS
  <1>1. M!LongestTable \in Nat /\ item \in Nat \ {0}
    BY LongestIs DEF M!TypeOK
  <1>2. (item - 1) * M!LongestTable <= item * M!LongestTable
    BY <1>1
  <1>3. /\ owned["service"] \in Int /\ owned["string"] \in Int /\ owned["dnsKey"] \in Int
        /\ item * M!LongestTable \in Int /\ (item - 1) * M!LongestTable \in Int
    BY <1>1 DEF M!TypeOK, M!Kinds
  <1>4. QED
    BY <1>1, <1>2, <1>3 DEF M!LossInv, M!OnlyKnownLosses, M!Behind

(* On macOS, for any interfaces, service tables, addresses and routes, and  *)
(* however often the preferences change during the call: what the adapters  *)
(* say is what the machine had, and only what is known to be lost is.       *)
THEOREM MacAdaptersAreTrue ==
    ASSUME M!ListsAssumption PROVE M!Spec => []M!AdaptersAreTrue
  <1> DEFINE Results == \A i \in DOMAIN result : M!AsItWas(result[i])
             Inv == M!TypeOK /\ M!AdapterInv /\ M!LossInv /\ Results
  <1>1. M!Init => Inv
    <2> SUFFICES ASSUME M!Init PROVE Inv
      OBVIOUS
    <2>1. M!TypeOK
      BY MacTypeInit
    <2>2. M!AdapterInv /\ Results
      BY DEF M!Init, M!AdapterInv
    <2>3. M!LossInv
      <3>1. M!LongestTable \in Nat
        BY LongestIs
      <3>2. /\ item = 1 /\ function \in {"done", "priority"}
            /\ owned = [k \in M!Kinds |-> IF k = "ifs" THEN 1 ELSE 0]
        BY DEF M!Init
      <3>3. 0 <= (item - 1) * M!LongestTable
        BY <3>1, <3>2
      <3>4. /\ owned["service"] = 0 /\ owned["string"] = 0 /\ owned["dnsKey"] = 0
        BY <3>2 DEF M!Kinds
      <3>5. QED
        BY <3>2, <3>3, <3>4 DEF M!LossInv, M!Behind
    <2>4. QED
      BY <2>1, <2>2, <2>3
  <1>2. Inv /\ [M!Next]_M!vars => Inv'
    BY MacTypeStep, MacAdapterStep, MacLossStep, MacResultStep
  <1>3. Inv => M!AdaptersAreTrue
    BY MacLosses DEF M!AdaptersAreTrue, M!AsItWas, M!ServiceOfSomeMoment, M!NoServiceNoDhcp,
                     M!GatewayIsOwn, M!AddressesNest
  <1>4. QED
    BY <1>1, <1>2, <1>3, PTL DEF M!Spec

-----------------------------------------------------------------------------
(* NetUtil on Windows *)

(* The adapters are finitely many, and their list has each of them once.    *)
LEMMA PresentIs ==
    ASSUME W!IndexesAssumption, W!WidthAssumption
    PROVE  /\ W!Cardinality(W!Present) \in Nat
           /\ W!Cardinality(W!Present) = 0 <=> W!Present = {}
           /\ W!ListOf(W!Present) \in [1..W!Cardinality(W!Present) -> W!Present]
  <1>1. W!Cardinality(W!Present) = Cardinality(W!Present) /\ IsFiniteSet(Indexes)
    BY DEF W!Cardinality, Cardinality, W!IsFiniteSet, IsFiniteSet, W!IndexesAssumption
  <1>2. IsFiniteSet(W!Present)
    BY <1>1, FS_Subset DEF W!Present
  <1> DEFINE P == W!Present
             n == Cardinality(P)
  <1>3. n \in Nat /\ ExistsBijection(1..n, P)
    BY <1>2, FS_CardinalityType
  <1>4. \E f \in [1..n -> P] : W!IsInjective(f)
    BY <1>3 DEF ExistsBijection, Bijection, Injection, IsInjective, W!IsInjective
  <1>5. W!SetToSeq(P) \in [1..n -> P]
    BY <1>1, <1>4, Zenon DEF W!SetToSeq
  <1>6. n = 0 <=> P = {}
    BY <1>2, FS_EmptySet
  <1>7. QED
    BY <1>1, <1>3, <1>5, <1>6 DEF W!ListOf

(* The adapters present are no more than the bound of the model's counters. *)
LEMMA PresentIsBounded ==
    ASSUME W!IndexesAssumption, W!WidthAssumption
    PROVE  LET most == W!Max({W!Cardinality(Indexes), FirstSize}) IN
           /\ most \in Nat /\ FirstSize \in 1..most
           /\ W!Cardinality(W!Present) <= most
  <1>1. /\ W!Cardinality(W!Present) = Cardinality(W!Present) /\ IsFiniteSet(Indexes)
        /\ W!Cardinality(Indexes) = Cardinality(Indexes)
    BY DEF W!Cardinality, Cardinality, W!IsFiniteSet, IsFiniteSet, W!IndexesAssumption
  <1>2. /\ Cardinality(W!Present) <= Cardinality(Indexes)
        /\ Cardinality(Indexes) \in Nat /\ Cardinality(W!Present) \in Nat
    BY <1>1, FS_Subset, FS_CardinalityType DEF W!Present
  <1> DEFINE T == {W!Cardinality(Indexes), FirstSize}
  <1>3. \E x \in T : \A y \in T : x >= y
    <2>1. W!Cardinality(Indexes) \in Nat /\ FirstSize \in Nat
      BY <1>1, <1>2 DEF W!WidthAssumption
    <2>2. CASE W!Cardinality(Indexes) >= FirstSize
      BY <2>1, <2>2
    <2>3. CASE FirstSize >= W!Cardinality(Indexes)
      BY <2>1, <2>3
    <2>4. QED
      BY <2>1, <2>2, <2>3
  <1>4. W!Max(T) \in T /\ \A y \in T : W!Max(T) >= y
    BY <1>3, Zenon DEF W!Max
  <1>5. /\ W!Max(T) \in Nat /\ W!Max(T) >= FirstSize /\ W!Max(T) >= W!Cardinality(Indexes)
    <2>1. FirstSize \in T /\ W!Cardinality(Indexes) \in T
      OBVIOUS
    <2>2. W!Max(T) >= FirstSize /\ W!Max(T) >= W!Cardinality(Indexes)
      BY <1>4, <2>1, Zenon
    <2>3. W!Max(T) \in Nat
      BY <1>1, <1>2, <1>4 DEF W!WidthAssumption
    <2>4. QED
      BY <2>2, <2>3
  <1>6. QED
    BY <1>1, <1>2, <1>5 DEF W!WidthAssumption

(* The first state of the Windows module is of its types.                   *)
LEMMA WinTypeInit ==
    W!IndexesAssumption /\ W!WidthAssumption /\ W!Init => W!TypeOK
  <1> SUFFICES ASSUME W!IndexesAssumption, W!WidthAssumption, W!Init PROVE W!TypeOK
    OBVIOUS
  <1>1. size \in 1..W!Max({W!Cardinality(Indexes), FirstSize})
    <2> DEFINE most == W!Max({W!Cardinality(Indexes), FirstSize})
    <2>1. most \in Nat /\ FirstSize \in 1..most /\ size = 1
      BY PresentIsBounded DEF W!Init
    <2> HIDE DEF most
    <2>2. QED
      BY <2>1 DEF most
  <1>2. tries \in 0..W!MaxTries /\ changes \in 0..MaxChanges
    <2>1. tries = 0 /\ changes = 0
      BY Zenon DEF W!Init
    <2>2. QED
      BY <2>1 DEF W!MaxTries, W!WidthAssumption
  <1>3. DOMAIN table \subseteq Indexes
    <2>1. table = <<>>
      BY Zenon DEF W!Init
    <2>2. QED
      BY <2>1
  <1>4. QED
    BY <1>1, <1>2, <1>3, Zenon DEF W!Init, W!TypeOK

(* Every variable stays in its type under every step.                       *)
LEMMA WinTypeStep ==
    /\ W!IndexesAssumption /\ W!WidthAssumption /\ W!TypeOK /\ W!TriesInv
    /\ [W!Next]_W!vars
    => W!TypeOK'
  <1> SUFFICES ASSUME W!IndexesAssumption, W!WidthAssumption, W!TypeOK, W!TriesInv,
                      [W!Next]_W!vars
               PROVE  W!TypeOK'
    OBVIOUS
  <1> DEFINE most == W!Max({W!Cardinality(Indexes), FirstSize})
  <1>0. /\ W!Cardinality(W!Present) \in Nat /\ W!Cardinality(W!Present) <= most
        /\ most \in Nat /\ FirstSize \in 1..most
    BY PresentIs, PresentIsBounded
  <1>1. size' \in 1..most /\ tries' \in 0..W!MaxTries /\ changes' \in 0..MaxChanges
    <2>0. size \in 1..most /\ tries \in 0..W!MaxTries /\ changes \in 0..MaxChanges
          /\ (at = "addresses" => tries < W!MaxTries)
      BY DEF W!TypeOK, W!TriesInv
    <2> HIDE DEF most
    <2> USE DEF W!MaxTries, W!WidthAssumption
    <2>1. CASE W!Change
      BY <2>0, <2>1 DEF W!Change
    <2>2. CASE W!InfoSize
      <3>1. /\ tries' = tries /\ changes' = changes
            /\ size' \in {W!Cardinality(W!Present), size}
            /\ W!Cardinality(W!Present) > size \/ size' = size
        BY <2>2 DEF W!InfoSize
      <3>2. size' \in 1..most
        BY <1>0, <2>0, <3>1
      <3>3. QED
        BY <2>0, <3>1, <3>2, Zenon
    <2>3. CASE W!Info \/ W!InfoFails \/ W!InfoOverflow
      BY <1>0, <2>0, <2>3 DEF W!Info, W!InfoFails, W!InfoOverflow, W!InfoError, W!AddressesBuffer
    <2>4. CASE W!Overflow
      <3>1. /\ tries' = tries + 1 /\ size' = W!Cardinality(W!Present) /\ changes' = changes
            /\ W!Cardinality(W!Present) > size /\ at = "addresses"
        BY <2>4 DEF W!Overflow
      <3>2. QED
        BY <1>0, <2>0, <3>1
    <2>5. CASE W!AddressesFail \/ W!Addresses \/ UNCHANGED W!vars
      BY <2>0, <2>5 DEF W!AddressesFail, W!Addresses, W!vars
    <2>6. QED
      BY <2>1, <2>2, <2>3, <2>4, <2>5 DEF W!Next
  <1>2. adapters' \in [Indexes -> Configs \cup {None}]
    BY DEF W!TypeOK, W!Next, W!Change, W!InfoSize, W!Info, W!InfoFails, W!InfoOverflow,
           W!InfoError, W!Overflow, W!AddressesFail, W!Addresses, W!vars
  <1>3. DOMAIN table' \subseteq Indexes
    BY DEF W!TypeOK, W!Next, W!Change, W!InfoSize, W!Info, W!InfoFails, W!InfoOverflow,
           W!InfoError, W!Overflow, W!AddressesFail, W!Addresses, W!vars, W!Present
  <1>4. /\ at' \in {"info size", "info", "addresses", "done"}
        /\ heap' \subseteq {"info", "addresses"}
    BY DEF W!TypeOK, W!Next, W!Change, W!InfoSize, W!Info, W!InfoFails, W!InfoOverflow,
           W!InfoError, W!Overflow, W!AddressesFail, W!Addresses, W!vars, W!AddressesBuffer
  <1>5. broken' \in BOOLEAN
    BY Zenon
       DEF W!TypeOK, W!Next, W!Change, W!InfoSize, W!Info, W!InfoFails, W!InfoOverflow,
           W!InfoError, W!Overflow, W!AddressesFail, W!Addresses, W!vars
  <1>6. QED
    BY <1>1, <1>2, <1>3, <1>4, <1>5, Zenon DEF W!TypeOK

(* A try finds the configuration larger than its buffer, which is as large  *)
(* as the one before found it, only if there was a change in between.       *)
LEMMA TriesStep ==
    /\ W!IndexesAssumption /\ W!WidthAssumption /\ W!TypeOK /\ W!TriesInv
    /\ [W!Next]_W!vars
    => W!TriesInv'
  <1> SUFFICES ASSUME W!IndexesAssumption, W!WidthAssumption, W!TypeOK, W!TriesInv,
                      [W!Next]_W!vars
               PROVE  W!TriesInv'
    OBVIOUS
  <1>0. /\ tries \in Nat /\ changes \in Nat /\ size \in Nat
        /\ W!Cardinality(W!Present) \in Nat
    <2> DEFINE most == W!Max({W!Cardinality(Indexes), FirstSize})
    <2>1. most \in Nat
      BY PresentIsBounded
    <2>2. size \in 1..most /\ tries \in 0..3 /\ changes \in 0..MaxChanges
      BY DEF W!TypeOK, W!MaxTries
    <2> HIDE DEF most
    <2>3. QED
      BY <2>1, <2>2, PresentIs DEF W!WidthAssumption
  <1> USE DEF W!TriesInv, W!MaxTries
  <1>1. CASE W!Change
    BY <1>0, <1>1 DEF W!Change
  <1>2. CASE W!InfoSize
    BY <1>2 DEF W!InfoSize
  <1>3. CASE W!Info \/ W!InfoFails \/ W!InfoOverflow
    BY <1>0, <1>3 DEF W!Info, W!InfoFails, W!InfoOverflow, W!InfoError, W!AddressesBuffer
  <1>4. CASE W!Overflow
    <2>1. /\ at = "addresses" /\ tries' = tries + 1 /\ size' = W!Cardinality(W!Present)
          /\ W!Cardinality(W!Present) > size /\ changes' = changes /\ list' = list
          /\ IF tries' < 3 THEN at' = at ELSE at' = "done"
          /\ W!Present' = W!Present
      BY <1>4 DEF W!Overflow, W!Present
    <2>2. changes >= tries /\ tries < 3 /\ list = <<>>
      BY <2>1
    <2>3. W!Cardinality(W!Present)' = W!Cardinality(W!Present)
      BY <2>1
    <2>4. QED
      BY <1>0, <2>1, <2>2, <2>3
  <1>5. CASE W!AddressesFail \/ W!Addresses
    BY <1>5 DEF W!AddressesFail, W!Addresses
  <1>6. CASE UNCHANGED W!vars
    BY <1>6 DEF W!vars, W!Present
  <1>7. QED
    BY <1>1, <1>2, <1>3, <1>4, <1>5, <1>6 DEF W!Next

(* A list that is returned has every adapter of the moment once, and an     *)
(* empty one was asked for three times in vain.                             *)
LEMMA ListStep ==
    /\ W!IndexesAssumption /\ W!WidthAssumption /\ W!TypeOK /\ W!TriesInv
    /\ W!BuffersFreed /\ W!ListIsComplete /\ W!EmptyOnlyAfterThreeTries
    /\ [W!Next]_W!vars
    => W!BuffersFreed' /\ W!ListIsComplete' /\ W!EmptyOnlyAfterThreeTries'
  <1> SUFFICES ASSUME W!IndexesAssumption, W!WidthAssumption, W!TypeOK, W!TriesInv,
                      W!BuffersFreed, W!ListIsComplete, W!EmptyOnlyAfterThreeTries,
                      [W!Next]_W!vars
               PROVE  W!BuffersFreed' /\ W!ListIsComplete' /\ W!EmptyOnlyAfterThreeTries'
    OBVIOUS
  <1>0. changes \in Nat
    <2>1. changes \in 0..MaxChanges /\ MaxChanges \in Nat
      BY Zenon DEF W!TypeOK, W!WidthAssumption
    <2>2. QED
      BY <2>1
  <1> USE DEF W!BuffersFreed, W!ListIsComplete, W!EmptyOnlyAfterThreeTries
  <1>1. CASE W!Change
    BY <1>1 DEF W!Change
  <1>2. CASE W!InfoSize \/ W!Info \/ W!InfoFails \/ W!InfoOverflow
    BY <1>2 DEF W!InfoSize, W!Info, W!InfoFails, W!InfoOverflow, W!InfoError
  <1>3. CASE W!Overflow
    <2>1. /\ at = "addresses" /\ tries' = tries + 1 /\ changes' = changes
          /\ W!Cardinality(W!Present) > size
          /\ IF tries' < 3 THEN at' = at /\ heap' = heap ELSE at' = "done" /\ heap' = {}
      BY <1>3 DEF W!Overflow, W!MaxTries
    <2>2. changes >= tries /\ tries \in 0..3
      BY <2>1 DEF W!TriesInv, W!TypeOK, W!MaxTries
    <2>3. CASE tries' < 3
      BY <2>1, <2>3
    <2>4. CASE ~(tries' < 3)
      <3>1. changes' >= 2 /\ changes' # 0 /\ at' = "done" /\ heap' = {}
        BY <1>0, <2>1, <2>2, <2>4
      <3>2. QED
        BY <3>1 DEF W!MaxTries
    <2>5. QED
      BY <2>3, <2>4
  <1>4. CASE W!AddressesFail
    BY <1>4 DEF W!AddressesFail
  <1>5. CASE W!Addresses
    <2> DEFINE n == W!Cardinality(W!Present)
               all == W!ListOf(W!Present)
    <2>1. /\ at' = "done" /\ heap' = {} /\ W!Present' = W!Present
          /\ list' = [i \in 1..n |-> W!Built(all[i])]
      BY <1>5 DEF W!Addresses, W!Present
    <2>2. n \in Nat /\ (n = 0 <=> W!Present = {}) /\ all \in [1..n -> W!Present]
      BY PresentIs
    <2>3. all' = all
      BY <2>1
    <2> HIDE DEF n, all
    <2>4. DOMAIN list' = 1..n /\ \A i \in 1..n : list'[i].index = all[i]
      BY <2>1 DEF W!Built
    <2>5. [i \in DOMAIN list' |-> list'[i].index] = all
      BY <2>2, <2>4
    <2>6. list' = <<>> => W!Present' = {}
      BY <2>1, <2>2, <2>4
    <2>7. QED
      BY <2>1, <2>3, <2>5, <2>6 DEF all
  <1>6. CASE UNCHANGED W!vars
    BY <1>6 DEF W!vars, W!Present
  <1>7. QED
    BY <1>1, <1>2, <1>3, <1>4, <1>5, <1>6 DEF W!Next

(* An empty list or table has no places.                                    *)
LEMMA NothingFound == DOMAIN <<>> = {}
  <1>1. <<>> \in [1..0 -> {}] /\ 1..0 = {}
    OBVIOUS
  <1>2. QED
    BY <1>1, Zenon

(* What is read while the configuration is quiet is what it says.           *)
LEMMA TableStep ==
    /\ W!IndexesAssumption /\ W!WidthAssumption /\ W!TypeOK /\ W!TriesInv /\ W!TableInv
    /\ [W!Next]_W!vars
    => W!TableInv'
  <1> SUFFICES ASSUME W!IndexesAssumption, W!WidthAssumption, W!TypeOK, W!TriesInv, W!TableInv,
                      [W!Next]_W!vars, changes' = 0
               PROVE  /\ \A x \in DOMAIN table' :
                            x \in W!Present' /\ table'[x] = W!Parameters(x)'
                      /\ \A i \in DOMAIN list' :
                            \E x \in W!Present' : list'[i] = W!Built(x)'
    BY Zenon DEF W!TableInv
  <1>1. changes = 0 /\ adapters' = adapters
    <2>1. CASE W!Change
      <3>1. changes \in 0..MaxChanges /\ MaxChanges \in Nat /\ changes' = changes + 1
        BY <2>1, Zenon DEF W!Change, W!TypeOK, W!WidthAssumption
      <3>2. QED
        BY <3>1
    <2>2. CASE ~W!Change
      BY <2>2 DEF W!Next, W!InfoSize, W!Info, W!InfoFails, W!InfoOverflow, W!InfoError,
                  W!Overflow, W!AddressesFail, W!Addresses, W!vars
    <2>3. QED
      BY <2>1, <2>2
  <1>2. /\ \A x \in DOMAIN table : x \in W!Present /\ table[x] = W!Parameters(x)
        /\ \A i \in DOMAIN list : \E x \in W!Present : list[i] = W!Built(x)
    BY <1>1, Zenon DEF W!TableInv
  <1>3. /\ W!Present' = W!Present
        /\ \A x : W!Parameters(x)' = W!Parameters(x)
    BY <1>1 DEF W!Present, W!Parameters
  <1>4. CASE W!Info
    <2>1. /\ table' = [x \in {y \in W!Present : adapters[y].ip # {}} |-> W!Parameters(x)]
          /\ list' = <<>>
      BY <1>4, Zenon DEF W!Info, W!TriesInv
    <2>2. \A x \in DOMAIN table' : x \in W!Present' /\ table'[x] = W!Parameters(x)'
      BY <1>3, <2>1
    <2>3. DOMAIN list' = {}
      BY <2>1, NothingFound
    <2>4. QED
      BY <2>2, <2>3
  <1>5. CASE W!Addresses
    <2> DEFINE n == W!Cardinality(W!Present)
               all == W!ListOf(W!Present)
    <2>1. table' = table /\ list' = [i \in 1..n |-> W!Built(all[i])]
      BY <1>5, Zenon DEF W!Addresses
    <2>2. all \in [1..n -> W!Present]
      BY PresentIs
    <2>3. \A x : W!Built(x)' = W!Built(x)
      BY <1>1, <2>1 DEF W!Built, W!Join
    <2> HIDE DEF n, all
    <2>4. ASSUME NEW i \in DOMAIN list'
          PROVE  \E x \in W!Present' : list'[i] = W!Built(x)'
      <3>1. i \in 1..n /\ list'[i] = W!Built(all[i]) /\ all[i] \in W!Present
        BY <2>1, <2>2
      <3>2. QED
        BY <1>3, <2>3, <3>1, Zenon
    <2>5. \A x \in DOMAIN table' : x \in W!Present' /\ table'[x] = W!Parameters(x)'
      BY <1>2, <1>3, <2>1, Zenon
    <2>6. QED
      BY <2>4, <2>5, Zenon
  <1>6. CASE ~(W!Info \/ W!Addresses)
    <2>1. table' = table /\ list' = list
      BY <1>6 DEF W!Next, W!Change, W!InfoSize, W!InfoFails, W!InfoOverflow, W!InfoError,
                  W!Overflow, W!AddressesFail, W!vars
    <2>2. \A x : W!Built(x)' = W!Built(x)
      BY <1>1, <2>1 DEF W!Built, W!Join
    <2>3. QED
      BY <1>2, <1>3, <2>1, <2>2, Zenon
  <1>7. QED
    BY <1>4, <1>5, <1>6

(* getBroadcast() makes the highest address of a network.                   *)
LEMMA BroadcastIs ==
    ASSUME NEW ip \in SUBSET W!Bits, NEW mask \in SUBSET W!Bits
    PROVE  /\ W!SameNet(W!getBroadcast(ip, mask), ip, mask)
           /\ \A a \in SUBSET W!Bits :
                 W!SameNet(a, ip, mask) => a \subseteq W!getBroadcast(ip, mask)
  BY DEF W!SameNet, W!getBroadcast

(* What Join() made of the table has the broadcast address that is the      *)
(* highest of its network.                                                  *)
LEMMA TableSaysHighest ==
    W!ConfigsAssumption /\ W!TypeOK /\ W!TableInv => W!BroadcastIsHighest
  <1> SUFFICES ASSUME W!ConfigsAssumption, W!TypeOK, W!TableInv, changes = 0,
                      NEW i \in DOMAIN list, list[i].joined.Broadcast # None
               PROVE  LET r == list[i] IN
                      /\ W!SameNet(r.joined.Broadcast, r.ip_address, r.joined.SubnetMask)
                      /\ \A a \in SUBSET W!Bits :
                            W!SameNet(a, r.ip_address, r.joined.SubnetMask)
                              => a \subseteq r.joined.Broadcast
    BY Zenon DEF W!BroadcastIsHighest
  <1>1. PICK x \in W!Present : list[i] = W!Built(x)
    BY Zenon DEF W!TableInv
  <1>2. x \in DOMAIN table
    BY <1>1 DEF W!Built, W!Join
  <1>3. table[x] = W!Parameters(x)
    BY <1>2, Zenon DEF W!TableInv
  <1>4. /\ list[i].ip_address = adapters[x].ip
        /\ list[i].joined.Broadcast = W!getBroadcast(adapters[x].ip, adapters[x].mask)
        /\ list[i].joined.SubnetMask = adapters[x].mask
    <2>1. list[i].ip_address = adapters[x].ip /\ list[i].joined = table[x]
      BY <1>1, <1>2 DEF W!Built, W!Join
    <2>2. /\ table[x].Broadcast = W!getBroadcast(adapters[x].ip, adapters[x].mask)
          /\ table[x].SubnetMask = adapters[x].mask
      BY <1>3 DEF W!Parameters
    <2>3. QED
      BY <2>1, <2>2
  <1>5. adapters[x].ip \in SUBSET W!Bits /\ adapters[x].mask \in SUBSET W!Bits
    <2>1. adapters[x] \in Configs
      BY <1>1 DEF W!Present, W!TypeOK
    <2>2. QED
      BY <2>1 DEF W!ConfigsAssumption
  <1>6. QED
    BY <1>4, <1>5, BroadcastIs

(* On Windows, for any adapters, addresses and buffer sizes, and however    *)
(* often the configuration changes during the call: no buffer is kept, a    *)
(* quiet configuration is listed in full unless a call failed, with the     *)
(* highest address of each network as its broadcast address, and a list is  *)
(* empty in vain only after the configuration has changed in the loop twice.*)
THEOREM WinAdaptersAreTrue ==
    ASSUME W!IndexesAssumption, W!WidthAssumption, W!ConfigsAssumption
    PROVE  W!Spec => []W!AdaptersAreTrue
  <1>1. W!Init => W!IInv
    <2> SUFFICES ASSUME W!Init
                 PROVE  W!IInv
      OBVIOUS
    <2>1. W!TypeOK
      BY WinTypeInit
    <2>2. W!TriesInv /\ W!BuffersFreed /\ W!ListIsComplete /\ W!EmptyOnlyAfterThreeTries
      BY DEF W!Init, W!BuffersFreed, W!ListIsComplete, W!EmptyOnlyAfterThreeTries, W!TriesInv
    <2>3. table = <<>> /\ list = <<>>
      BY DEF W!Init
    <2>4. DOMAIN table = {} /\ DOMAIN list = {}
      BY <2>3, NothingFound
    <2>5. W!TableInv
      BY <2>4, Zenon DEF W!TableInv
    <2>6. QED
      BY <2>1, <2>2, <2>5, TableSaysHighest, Zenon DEF W!IInv, W!AdaptersAreTrue
  <1>2. W!IInv /\ [W!Next]_W!vars => W!IInv'
    <2> SUFFICES ASSUME W!IInv, [W!Next]_W!vars
                 PROVE  W!IInv'
      OBVIOUS
    <2>1. W!TypeOK' /\ W!TriesInv' /\ W!TableInv'
      BY WinTypeStep, TriesStep, TableStep, Zenon DEF W!IInv, W!AdaptersAreTrue
    <2>2. W!BuffersFreed' /\ W!ListIsComplete' /\ W!EmptyOnlyAfterThreeTries'
      BY ListStep, Zenon DEF W!IInv, W!AdaptersAreTrue
    <2>3. W!BroadcastIsHighest'
      BY <2>1, TableSaysHighest, PTL
    <2>4. QED
      BY <2>1, <2>2, <2>3, Zenon DEF W!IInv, W!AdaptersAreTrue
  <1>3. W!IInv => W!AdaptersAreTrue
    BY DEF W!IInv
  <1>4. QED
    BY <1>1, <1>2, <1>3, PTL DEF W!Spec

-----------------------------------------------------------------------------
(* The adapter list of Linux.                                               *)

(* Places in a sequence have a last one. *)
LEMMA LastPlace ==
    ASSUME NEW n \in Nat, NEW T, T \subseteq 1..n, T # {}
    PROVE  L!Max(T) \in T /\ \A y \in T : y <= L!Max(T)
  <1>1. L!Max(T) = M!Max(T)
    BY DEF L!Max, M!Max
  <1>2. QED
    BY <1>1, FirstAndLast

(* The fold takes a prefix of the places apart at its last one.             *)
LEMMA LastOfPrefix ==
    ASSUME NEW i \in Nat, i # 0
    PROVE  1..i # {} /\ L!Max(1..i) = i /\ (1..i) \ {i} = 1..(i - 1)
  <1>1. 1..i # {} /\ (1..i) \ {i} = 1..(i - 1) /\ i \in 1..i
    OBVIOUS
  <1>2. L!Max(1..i) \in 1..i /\ \A y \in 1..i : y <= L!Max(1..i)
    BY <1>1, LastPlace
  <1>3. QED
    BY <1>1, <1>2

(* `it` is a run of a loop over n elements: what has been made of the first *)
(* elements, where F[i] is the body for element i.                          *)
LoopRun(it, n, start, F) ==
    /\ it[{}] = start
    /\ \A t \in SUBSET (1..n) : t # {} => it[t] = F[L!Max(t)][it[t \ {L!Max(t)}]]

(* A loop over n elements, whose body F[i] takes S to S, has a run.          *)
LEMMA LoopRuns ==
    ASSUME NEW n \in Nat, NEW S, NEW start \in S, NEW F \in [1..n -> [S -> S]]
    PROVE  \E it \in [SUBSET (1..n) -> S] : LoopRun(it, n, start, F)
  <1> DEFINE Runs(k, it) == LoopRun(it, k, start, F)
             Bad == {k \in Nat : k <= n /\ ~ \E it \in [SUBSET (1..k) -> S] : Runs(k, it)}
  <1>1. CASE Bad = {}
    <2>1. n \notin Bad
      BY <1>1
    <2>2. \E it \in [SUBSET (1..n) -> S] : Runs(n, it)
      <3> HIDE DEF Runs
      <3>1. n <= n
        OBVIOUS
      <3>2. QED
        BY <2>1, <3>1, Zenon
    <2>3. QED
      BY <2>2, Zenon
  <1>2. CASE Bad # {}
    <2>1. PICK m \in Bad : \A k \in Bad : m <= k
      <3>1. Bad \subseteq Nat
        OBVIOUS
      <3> HIDE DEF Bad
      <3>2. QED
        BY <1>2, <3>1, LeastNatural, Zenon
    <2>2. m \in Nat /\ m <= n /\ ~ \E it \in [SUBSET (1..m) -> S] : Runs(m, it)
      OBVIOUS
    <2>3. CASE m = 0
      <3> DEFINE it == [t \in SUBSET (1..m) |-> start]
      <3>1. 1..m = {}
        BY <2>3
      <3>2. \A t \in SUBSET (1..m) : t = {}
        BY <3>1, Zenon
      <3>3. it \in [SUBSET (1..m) -> S] /\ it[{}] = start
        BY Zenon
      <3>r. Runs(m, it)
        BY <3>2, <3>3, Zenon DEF LoopRun
      <3>4. QED
        BY <2>2, <3>3, <3>r, Zenon
    <2>4. CASE m # 0
      <3>1. m - 1 \in Nat /\ m - 1 <= n /\ ~ (m <= m - 1)
        BY <2>2, <2>4
      <3>2. m - 1 \notin Bad
        BY <2>1, <3>1, Zenon
      <3>3. PICK g \in [SUBSET (1..(m - 1)) -> S] : Runs(m - 1, g)
        BY <3>1, <3>2
      <3> DEFINE it == [t \in SUBSET (1..m) |-> IF m \in t THEN F[m][g[t \ {m}]] ELSE g[t]]
      <3> HIDE DEF Bad
      <3>4. \A t \in SUBSET (1..m) : t \ {m} \in SUBSET (1..(m - 1))
        BY <2>2, <2>4
      <3>5. F[m] \in [S -> S]
        BY <2>2, <2>4
      <3>6. it \in [SUBSET (1..m) -> S]
        <4> SUFFICES ASSUME NEW t \in SUBSET (1..m)
                     PROVE  (IF m \in t THEN F[m][g[t \ {m}]] ELSE g[t]) \in S
          BY Zenon
        <4>1. g[t \ {m}] \in S
          BY <3>4
        <4>2. m \notin t => t = t \ {m}
          OBVIOUS
        <4>3. QED
          BY <3>5, <4>1, <4>2
      <3>7. ASSUME NEW t \in SUBSET (1..m), t # {}
            PROVE  it[t] = F[L!Max(t)][it[t \ {L!Max(t)}]]
        <4> DEFINE x == L!Max(t)
        <4>1. x \in t /\ \A y \in t : y <= x
          BY <3>7, <2>2, LastPlace, Zenon
        <4> HIDE DEF x
        <4>2. t \ {x} \in SUBSET (1..m)
          OBVIOUS
        <4>3. CASE m \in t
          <5>1. x = m
            BY <4>1, <4>3, <2>2
          <5>2. it[t] = F[m][g[t \ {m}]]
            BY <4>3, Zenon
          <5>3. it[t \ {m}] = g[t \ {m}]
            BY <4>2, <5>1
          <5>4. QED
            BY <5>1, <5>2, <5>3 DEF x
        <4>4. CASE m \notin t
          <5>1. t = t \ {m}
            BY <4>4
          <5>2. t \in SUBSET (1..(m - 1))
            BY <3>4, <5>1, Zenon
          <5>3. g[t] = F[x][g[t \ {x}]]
            BY <3>3, <3>7, <5>2, Zenon DEF x, LoopRun
          <5>4. it[t] = g[t]
            BY <4>4, Zenon
          <5>5. it[t \ {x}] = g[t \ {x}]
            BY <4>2, <4>4
          <5>6. QED
            BY <5>3, <5>4, <5>5, Zenon DEF x
        <4>5. QED
          BY <4>3, <4>4
      <3>8. it[{}] = start
        <4>1. {} \in SUBSET (1..m) /\ m \notin {}
          OBVIOUS
        <4>2. it[{}] = g[{}]
          BY <4>1, Zenon
        <4>3. g[{}] = start
          BY <3>3, Zenon DEF LoopRun
        <4>4. QED
          BY <4>2, <4>3, Zenon
      <3>9. Runs(m, it)
        <4> HIDE DEF it
        <4>1. QED
          BY <3>7, <3>8, Zenon DEF LoopRun
      <3>10. QED
        BY <2>2, <3>6, <3>9, Zenon
    <2>5. QED
      BY <2>3, <2>4
  <1>3. QED
    BY <1>1, <1>2

(* What the loop has made of the first i elements is V[i], for every i.     *)
LEMMA LoopValue ==
    ASSUME NEW n \in Nat, NEW V, NEW it,
           it[{}] = V[0],
           \A i \in 1..n : it[1..(i - 1)] = V[i - 1] => it[1..i] = V[i]
    PROVE  it[1..n] = V[n]
  <1> DEFINE Bad == {k \in Nat : k <= n /\ it[1..k] # V[k]}
  <1>1. CASE Bad = {}
    <2>1. n \notin Bad
      BY <1>1
    <2>2. QED
      BY <2>1
  <1>2. CASE Bad # {}
    <2>1. PICK m \in Bad : \A k \in Bad : m <= k
      <3>1. Bad \subseteq Nat
        OBVIOUS
      <3> HIDE DEF Bad
      <3>2. QED
        BY <1>2, <3>1, LeastNatural, Zenon
    <2>2. m \in Nat /\ m <= n /\ it[1..m] # V[m]
      OBVIOUS
    <2>3. m # 0
      <3>1. 1..0 = {}
        OBVIOUS
      <3>2. QED
        BY <2>2, <3>1, Zenon
    <2>4. m - 1 \in Nat /\ m - 1 <= n /\ ~ (m <= m - 1) /\ m \in 1..n
      BY <2>2, <2>3
    <2>5. m - 1 \notin Bad
      BY <2>1, <2>4, Zenon
    <2>6. it[1..(m - 1)] = V[m - 1]
      BY <2>4, <2>5
    <2>7. QED
      BY <2>2, <2>4, <2>6, Zenon
  <1>3. QED
    BY <1>1, <1>2

(* Of the places in T, the last up to k.                                    *)
LEMMA LastUpTo ==
    ASSUME NEW k \in Nat, k # 0, NEW T
    PROVE  /\ k \in T => T \cap (1..k) # {} /\ L!Max(T \cap (1..k)) = k
           /\ k \notin T => T \cap (1..k) = T \cap (1..(k - 1))
           /\ T \cap (1..0) = {}
  <1>1. CASE k \in T
    <2> DEFINE U == T \cap (1..k)
    <2>1. U \subseteq 1..k /\ U # {} /\ k \in U
      BY <1>1
    <2>2. L!Max(U) \in U /\ \A y \in U : y <= L!Max(U)
      BY <2>1, LastPlace, Zenon
    <2> HIDE DEF U
    <2>3. L!Max(U) = k
      <3>1. PICK x \in U : x = L!Max(U) /\ \A y \in U : y <= x
        BY <2>2, Zenon
      <3>2. x = k
        BY <2>1, <3>1
      <3>3. QED
        BY <3>1, <3>2, Zenon
    <2>4. 1..0 = {}
      OBVIOUS
    <2>5. QED
      BY <1>1, <2>1, <2>3, <2>4 DEF U
  <1>2. CASE k \notin T
    BY <1>2
  <1>3. QED
    BY <1>1, <1>2

(* Places of which each has all before it among them are the first m.       *)
LEMMA FirstPlaces ==
    ASSUME NEW n \in Nat, NEW T, T \subseteq 1..n,
           \A i, j \in 1..n : i < j /\ j \in T => i \in T
    PROVE  \E m \in 0..n : T = 1..m
  <1>1. CASE T = {}
    <2>1. T = 1..0 /\ 0 \in 0..n
      BY <1>1
    <2>2. QED
      BY <2>1
  <1>2. CASE T # {}
    <2>1. PICK m \in T : \A y \in T : y <= m
      BY <1>2, LastPlace, Zenon
    <2>2. m \in 1..n
      BY <2>1
    <2>3. T \subseteq 1..m /\ 1..m \subseteq T
      BY <2>1, <2>2
    <2>4. T = 1..m
      BY <2>3, Zenon
    <2>5. m \in 0..n
      BY <2>2
    <2>6. QED
      BY <2>4, <2>5, Zenon
  <1>3. QED
    BY <1>1, <1>2

(* The loop over the default routes takes the gateway of the adapter's last.*)
LastGateway(d, own) == IF own = {} THEN None ELSE d[L!Max(own)].gateway

(* The loop over the default routes keeps the gateway of the last one of an *)
(* interface.                                                               *)
LEMMA GatewayIs ==
    ASSUME NEW n \in Nat, NEW name, NEW d, DOMAIN d = 1..n
    PROVE  L!Gateway(name, d) = LastGateway(d, {i \in 1..n : d[i].dev = name})
  <1> DEFINE own == {i \in 1..n : d[i].dev = name}
             S == {None} \cup {d[i].gateway : i \in 1..n}
             F == [i \in 1..n |-> [x \in S |-> IF d[i].dev = name THEN d[i].gateway ELSE x]]
             Eq(it) == it = [t \in SUBSET DOMAIN d |-> IF t = {} THEN None
                               ELSE IF d[L!Max(t)].dev = name THEN d[L!Max(t)].gateway
                                    ELSE it[t \ {L!Max(t)}]]
             At(U) == IF U = {} THEN None ELSE d[L!Max(U)].gateway
             V == [k \in 0..n |-> At(own \cap (1..k))]
             it == CHOOSE it : Eq(it)
  <1>1. L!Gateway(name, d) = it[DOMAIN d]
    BY Zenon DEF L!Gateway, L!FoldLeft, L!MapThenFoldSet
  <1>2. \E h : Eq(h)
    <2>1. F \in [1..n -> [S -> S]] /\ None \in S
      OBVIOUS
    <2>2. PICK h \in [SUBSET (1..n) -> S] : LoopRun(h, n, None, F)
      <3> HIDE DEF F, S
      <3> QED
        BY <2>1, LoopRuns, Zenon
    <2>3. ASSUME NEW t \in SUBSET (1..n), t # {}
          PROVE  h[t] = IF d[L!Max(t)].dev = name THEN d[L!Max(t)].gateway
                        ELSE h[t \ {L!Max(t)}]
      <3>1. L!Max(t) \in 1..n
        BY <2>3, LastPlace
      <3>2. h[t \ {L!Max(t)}] \in S
        OBVIOUS
      <3>3. h[t] = F[L!Max(t)][h[t \ {L!Max(t)}]]
        BY <2>2, <2>3, Zenon DEF LoopRun
      <3> HIDE DEF S
      <3>4. QED
        BY <3>1, <3>2, <3>3
    <2>4. h[{}] = None
      BY <2>2, Zenon DEF LoopRun
    <2>5. Eq(h)
      BY <2>3, <2>4
    <2>6. QED
      BY <2>5
  <1>3. Eq(it)
    BY <1>2, Zenon
  <1> HIDE DEF it
  <1>4. it[{}] = None
    BY <1>3
  <1>5. ASSUME NEW k \in 0..n PROVE V[k] = At(own \cap (1..k))
    BY Zenon
  <1>6. ASSUME NEW i \in 1..n, it[1..(i - 1)] = V[i - 1] PROVE it[1..i] = V[i]
    <2>1. i \in Nat /\ i # 0 /\ 1..i \in SUBSET (1..n) /\ i \in 0..n /\ i - 1 \in 0..n
      OBVIOUS
    <2>2. 1..i # {} /\ L!Max(1..i) = i /\ (1..i) \ {i} = 1..(i - 1)
      BY <2>1, LastOfPrefix, Zenon
    <2>3. it[1..i] = IF d[i].dev = name THEN d[i].gateway ELSE it[1..(i - 1)]
      BY <1>3, <2>1, <2>2
    <2>4. i \in own <=> d[i].dev = name
      OBVIOUS
    <2>5. /\ i \in own => own \cap (1..i) # {} /\ L!Max(own \cap (1..i)) = i
          /\ i \notin own => own \cap (1..i) = own \cap (1..(i - 1))
      <3> HIDE DEF own
      <3>1. QED
        BY <2>1, LastUpTo, Zenon
    <2>6. V[i] = At(own \cap (1..i)) /\ V[i - 1] = At(own \cap (1..(i - 1)))
      BY <1>5, <2>1, Zenon
    <2> HIDE DEF own, V
    <2>7. it[1..i] = At(own \cap (1..i))
      <3>1. CASE d[i].dev = name
        BY <2>3, <2>4, <2>5, <3>1, Zenon
      <3>2. CASE d[i].dev # name
        BY <1>6, <2>3, <2>4, <2>5, <2>6, <3>2, Zenon
      <3>3. QED
        BY <3>1, <3>2, Zenon
    <2> HIDE DEF At
    <2>8. QED
      BY <2>6, <2>7, Zenon
  <1>7. it[{}] = V[0]
    <2>1. own \cap (1..0) = {} /\ 0 \in 0..n
      OBVIOUS
    <2> HIDE DEF own, V
    <2>2. QED
      BY <1>4, <1>5, <2>1, Zenon
  <1>8. it[1..n] = V[n]
    <2> HIDE DEF V
    <2>1. QED
      BY <1>6, <1>7, LoopValue, Zenon
  <1>9. own \cap (1..n) = own /\ n \in 0..n
    OBVIOUS
  <1> HIDE DEF own, V
  <1>10. it[DOMAIN d] = At(own)
    BY <1>5, <1>8, <1>9, Zenon
  <1>11. QED
    BY <1>1, <1>10, Zenon DEF own, LastGateway

(* What the body of the loop over `addr_info` makes of the fields so far:   *)
(* the broadcast alone survives an address that has none.                   *)
LEMMA ReadAddressIs ==
    ASSUME NEW p, NEW q, NEW r, NEW s, NEW x
    PROVE  L!ReadAddress([ip_address |-> p, netmask |-> q, broadcast |-> r, dhcp |-> s], x)
           = [ip_address |-> x.local, netmask |-> L!prefixLengthToMask(x.prefixlen),
              broadcast |-> IF x.broadcast = None THEN r ELSE x.broadcast, dhcp |-> {x.dynamic}]
  <1> DEFINE a == [ip_address |-> p, netmask |-> q, broadcast |-> r, dhcp |-> s]
             w == IF x.broadcast = None THEN r ELSE x.broadcast
             m == L!prefixLengthToMask(x.prefixlen)
  <1>1. L!ReadAddress(a, x) \in [ip_address : {x.local}, netmask : {m}, broadcast : {w}, dhcp : {{x.dynamic}}]
    <2> HIDE DEF m
    <2> QED BY DEF L!ReadAddress, m
  <1> HIDE DEF a, m, w
  <1>2. L!ReadAddress(a, x) = [ip_address |-> x.local, netmask |-> m, broadcast |-> w, dhcp |-> {x.dynamic}]
    BY <1>1
  <1>3. QED
    BY <1>2 DEF a, m, w

(* The loop over the inet entries keeps the last one, and of the last that   *)
(* has a broadcast address that address.                                    *)
LEMMA AddressIs ==
    ASSUME NEW n \in Nat, NEW d, DOMAIN d = 1..n
    PROVE  LET wide == {i \in 1..n : d[i].broadcast # None} IN
           L!Address(d) =
              IF n = 0 THEN L!Blank
              ELSE [ip_address |-> d[n].local, netmask |-> L!prefixLengthToMask(d[n].prefixlen),
                    broadcast |-> IF wide = {} THEN None ELSE d[L!Max(wide)].broadcast,
                    dhcp |-> {d[n].dynamic}]
  <1> DEFINE wide == {i \in 1..n : d[i].broadcast # None}
             S == [ip_address : {None} \cup {d[i].local : i \in 1..n},
                   netmask : {<<>>} \cup {L!prefixLengthToMask(d[i].prefixlen) : i \in 1..n},
                   broadcast : {None} \cup {d[i].broadcast : i \in 1..n},
                   dhcp : {BOOLEAN} \cup {{d[i].dynamic} : i \in 1..n}]
             F == [i \in 1..n |-> [x \in S |-> L!ReadAddress(x, d[i])]]
             Eq(it) == it = [t \in SUBSET DOMAIN d |-> IF t = {} THEN L!Blank
                               ELSE L!ReadAddress(it[t \ {L!Max(t)}], d[L!Max(t)])]
             Broad(U) == IF U = {} THEN None ELSE d[L!Max(U)].broadcast
             At(k) == IF k = 0 THEN L!Blank
                      ELSE [ip_address |-> d[k].local,
                            netmask |-> L!prefixLengthToMask(d[k].prefixlen),
                            broadcast |-> Broad(wide \cap (1..k)), dhcp |-> {d[k].dynamic}]
             V == [k \in 0..n |-> At(k)]
             it == CHOOSE it : Eq(it)
  <1>1. L!Address(d) = it[DOMAIN d]
    BY Zenon DEF L!Address, L!FoldLeft, L!MapThenFoldSet
  <1>2. \E h : Eq(h)
    <2>1. L!Blank \in S
      BY DEF L!Blank
    <2>2. ASSUME NEW i \in 1..n, NEW x \in S PROVE L!ReadAddress(x, d[i]) \in S
      BY DEF L!ReadAddress
    <2>3. F \in [1..n -> [S -> S]]
      <3> HIDE DEF S
      <3> QED
        BY <2>2, Zenon
    <2>4. PICK h \in [SUBSET (1..n) -> S] : LoopRun(h, n, L!Blank, F)
      <3> HIDE DEF F, S
      <3> QED
        BY <2>1, <2>3, LoopRuns, Zenon
    <2>5. ASSUME NEW t \in SUBSET (1..n), t # {}
          PROVE  h[t] = L!ReadAddress(h[t \ {L!Max(t)}], d[L!Max(t)])
      <3>1. L!Max(t) \in 1..n
        BY <2>5, LastPlace
      <3>2. h[t \ {L!Max(t)}] \in S
        <4> HIDE DEF S
        <4> QED OBVIOUS
      <3>3. h[t] = F[L!Max(t)][h[t \ {L!Max(t)}]]
        BY <2>4, <2>5, Zenon DEF LoopRun
      <3> HIDE DEF S
      <3>4. QED
        BY <3>1, <3>2, <3>3, Zenon
    <2>6. h[{}] = L!Blank
      BY <2>4, Zenon DEF LoopRun
    <2> HIDE DEF S
    <2>7. Eq(h)
      BY <2>5, <2>6
    <2>8. QED
      BY <2>7
  <1>3. Eq(it)
    BY <1>2, Zenon
  <1> HIDE DEF it
  <1>4. it[{}] = L!Blank
    BY <1>3
  <1>5. ASSUME NEW k \in 0..n PROVE V[k] = At(k)
    BY Zenon
  <1>6. ASSUME NEW i \in 1..n, it[1..(i - 1)] = V[i - 1] PROVE it[1..i] = V[i]
    <2>1. i \in Nat /\ i # 0 /\ 1..i \in SUBSET (1..n) /\ i \in 0..n /\ i - 1 \in 0..n
      OBVIOUS
    <2>2. 1..i # {} /\ L!Max(1..i) = i /\ (1..i) \ {i} = 1..(i - 1)
      BY <2>1, LastOfPrefix, Zenon
    <2>3. it[1..i] = L!ReadAddress(it[1..(i - 1)], d[i])
      BY <1>3, <2>1, <2>2
    <2>4. i \in wide <=> d[i].broadcast # None
      OBVIOUS
    <2>5. /\ i \in wide => wide \cap (1..i) # {} /\ L!Max(wide \cap (1..i)) = i
          /\ i \notin wide => wide \cap (1..i) = wide \cap (1..(i - 1))
          /\ wide \cap (1..0) = {}
      <3> HIDE DEF wide
      <3>1. QED
        BY <2>1, LastUpTo, Zenon
    <2>6. V[i] = At(i) /\ V[i - 1] = At(i - 1)
      BY <1>5, <2>1, Zenon
    <2> HIDE DEF wide, V
    <2>7. At(i - 1).broadcast = Broad(wide \cap (1..(i - 1)))
      <3>1. CASE i - 1 = 0
        BY <2>5, <3>1 DEF L!Blank
      <3>2. CASE i - 1 # 0
        BY <3>2
      <3>3. QED
        BY <3>1, <3>2
    <2>8. PICK p, q, r, s : At(i - 1) = [ip_address |-> p, netmask |-> q, broadcast |-> r, dhcp |-> s]
      <3>1. CASE i - 1 = 0
        BY <3>1, Zenon DEF L!Blank
      <3>2. CASE i - 1 # 0
        BY <3>2, Zenon
      <3>3. QED
        BY <3>1, <3>2
    <2> HIDE DEF At
    <2>n. At(i - 1).broadcast = r
      BY <2>8
    <2>9. L!ReadAddress(At(i - 1), d[i])
          = [ip_address |-> d[i].local, netmask |-> L!prefixLengthToMask(d[i].prefixlen),
             broadcast |-> IF d[i].broadcast = None THEN r ELSE d[i].broadcast,
             dhcp |-> {d[i].dynamic}]
      BY <2>8, ReadAddressIs
    <2>10. (IF d[i].broadcast = None THEN r ELSE d[i].broadcast)
           = Broad(wide \cap (1..i))
      <3>1. CASE d[i].broadcast = None
        BY <2>4, <2>5, <2>7, <2>n, <3>1, Zenon
      <3>2. CASE d[i].broadcast # None
        BY <2>4, <2>5, <3>2, Zenon
      <3>3. QED
        BY <3>1, <3>2, Zenon
    <2> HIDE DEF Broad
    <2>11. At(i) = [ip_address |-> d[i].local, netmask |-> L!prefixLengthToMask(d[i].prefixlen),
                    broadcast |-> Broad(wide \cap (1..i)), dhcp |-> {d[i].dynamic}]
      BY <2>1, Zenon DEF At
    <2>12. L!ReadAddress(At(i - 1), d[i]) = At(i)
      BY <2>9, <2>10, <2>11, Zenon
    <2>13. QED
      BY <1>6, <2>3, <2>6, <2>12, Zenon
  <1>7. it[{}] = V[0]
    <2>1. At(0) = L!Blank /\ 0 \in 0..n
      OBVIOUS
    <2> HIDE DEF V, At
    <2>2. QED
      BY <1>4, <1>5, <2>1, Zenon
  <1>8. it[1..n] = V[n]
    <2> HIDE DEF V
    <2>1. QED
      BY <1>6, <1>7, LoopValue, Zenon
  <1>9. wide \cap (1..n) = wide /\ n \in 0..n
    OBVIOUS
  <1> HIDE DEF wide, V
  <1>10. it[DOMAIN d] = At(n)
    BY <1>5, <1>8, <1>9, Zenon
  <1>11. QED
    BY <1>1, <1>9, <1>10, Zenon DEF wide

(* The mask that prefixLengthToMask() writes is that of the prefix length.  *)
LEMMA MaskIs ==
    ASSUME NEW n \in 0..32 PROVE L!prefixLengthToMask(n) = L!MaskOf(n)
  <1>1. ASSUME NEW i \in 1..4
        PROVE  L!Octet(n, 32 - 8 * i) = 256 - 2^(8 - L!Min({8, L!Max({0, n - 8 * (i - 1)})}))
    <2> DEFINE left == n - 8 * (i - 1)
               set == IF left < 0 THEN 0 ELSE IF left > 8 THEN 8 ELSE left
    <2>1. L!Max({0, left}) = IF left < 0 THEN 0 ELSE left
      <3> HIDE DEF left
      <3>1. left \in Int
        BY DEF left
      <3>2. QED
        BY <3>1 DEF L!Max
    <2>2. L!Min({8, L!Max({0, left})}) = set
      <3> HIDE DEF left
      <3>1. left \in Int
        BY DEF left
      <3>2. QED
        BY <2>1, <3>1 DEF L!Min
    <2>3. set \in 0..8
      OBVIOUS
    <2>4. L!Octet(n, 32 - 8 * i)
          = (IF set >= 1 THEN 128 ELSE 0) + (IF set >= 2 THEN 64 ELSE 0)
            + (IF set >= 3 THEN 32 ELSE 0) + (IF set >= 4 THEN 16 ELSE 0)
            + (IF set >= 5 THEN 8 ELSE 0) + (IF set >= 6 THEN 4 ELSE 0)
            + (IF set >= 7 THEN 2 ELSE 0) + (IF set >= 8 THEN 1 ELSE 0)
      BY DEF L!Octet
    <2> HIDE DEF set
    <2>5. L!Octet(n, 32 - 8 * i) = 256 - 2^(8 - set)
      <3>1. CASE set = 0
        BY <2>4, <3>1
      <3>2. CASE set = 1
        BY <2>4, <3>2
      <3>3. CASE set = 2
        BY <2>4, <3>3
      <3>4. CASE set = 3
        BY <2>4, <3>4
      <3>5. CASE set = 4
        BY <2>4, <3>5
      <3>6. CASE set = 5
        BY <2>4, <3>6
      <3>7. CASE set = 6
        BY <2>4, <3>7
      <3>8. CASE set = 7
        BY <2>4, <3>8
      <3>9. CASE set = 8
        BY <2>4, <3>9
      <3>10. QED
        BY <2>3, <3>1, <3>2, <3>3, <3>4, <3>5, <3>6, <3>7, <3>8, <3>9
    <2>6. QED
      BY <2>2, <2>5, Zenon
  <1>2. QED
    BY <1>1, Zenon DEF L!prefixLengthToMask, L!MaskOf

(* What a line says is the name behind "dev" and the number behind "metric".*)
LEMMA RouteLineIs ==
    ASSUME NEW p \in Nat, p # 0, NEW n \in Nat, NEW s, DOMAIN s = 1..n,
           s[p] = "dev", \A k \in 1..(p - 1) : s[k] \notin {"dev", "metric"},
           \/ n = p + 1
           \/ n = p + 3 /\ s[p + 2] = "metric" /\ s[p + 3] \in Nat
    PROVE  /\ L!RouteLine(s).iface = s[p + 1]
           /\ L!RouteLine(s).metric = IF n = p + 1 THEN -1 ELSE s[p + 3]
  <1> DEFINE Line(iface, metric, expect) ==
                 [iface |-> iface, metric |-> metric, expect |-> expect, failed |-> FALSE]
             S == [iface : {None} \cup {s[i] : i \in 1..n}, metric : {-1, 0} \cup {s[i] : i \in 1..n},
                   expect : {"any", "dev", "metric"}, failed : BOOLEAN]
             start == Line(None, -1, "any")
             F == [i \in 1..n |-> [x \in S |-> L!RouteToken(x, s[i])]]
             Eq(it) == it = [t \in SUBSET DOMAIN s |-> IF t = {} THEN start
                               ELSE L!RouteToken(it[t \ {L!Max(t)}], s[L!Max(t)])]
             At(k) == IF k < p THEN start
                      ELSE IF k = p THEN Line(None, -1, "dev")
                      ELSE IF k = p + 1 THEN Line(s[p + 1], -1, "any")
                      ELSE IF k = p + 2 THEN Line(s[p + 1], -1, "metric")
                      ELSE Line(s[p + 1], s[p + 3], "any")
             V == [k \in 0..n |-> At(k)]
             it == CHOOSE it : Eq(it)
  <1>1. L!RouteLine(s) = it[DOMAIN s]
    BY Zenon DEF L!RouteLine, L!FoldLeft, L!MapThenFoldSet
  <1>2. \E h : Eq(h)
    <2>1. start \in S
      OBVIOUS
    <2>2. ASSUME NEW i \in 1..n, NEW x \in S PROVE L!RouteToken(x, s[i]) \in S
      BY DEF L!RouteToken
    <2>3. F \in [1..n -> [S -> S]]
      <3> HIDE DEF S
      <3> QED
        BY <2>2, Zenon
    <2>4. PICK h \in [SUBSET (1..n) -> S] : LoopRun(h, n, start, F)
      <3> HIDE DEF F, S
      <3> QED
        BY <2>1, <2>3, LoopRuns, Zenon
    <2>5. ASSUME NEW t \in SUBSET (1..n), t # {}
          PROVE  h[t] = L!RouteToken(h[t \ {L!Max(t)}], s[L!Max(t)])
      <3>1. L!Max(t) \in 1..n
        BY <2>5, LastPlace
      <3>2. h[t \ {L!Max(t)}] \in S
        <4> HIDE DEF S
        <4> QED OBVIOUS
      <3>3. h[t] = F[L!Max(t)][h[t \ {L!Max(t)}]]
        BY <2>4, <2>5, Zenon DEF LoopRun
      <3> HIDE DEF S
      <3>4. QED
        BY <3>1, <3>2, <3>3, Zenon
    <2>6. h[{}] = start
      BY <2>4, Zenon DEF LoopRun
    <2> HIDE DEF S, start
    <2>7. Eq(h)
      BY <2>5, <2>6
    <2>8. QED
      BY <2>7
  <1>3. Eq(it)
    BY <1>2, Zenon
  <1> HIDE DEF it
  <1>4. it[{}] = start
    BY <1>3, Zenon
  <1>5. ASSUME NEW k \in 0..n PROVE V[k] = At(k)
    BY Zenon
  <1>6. ASSUME NEW i \in 1..n, it[1..(i - 1)] = V[i - 1] PROVE it[1..i] = V[i]
    <2>1. i \in Nat /\ i # 0 /\ 1..i \in SUBSET (1..n) /\ i \in 0..n /\ i - 1 \in 0..n
      OBVIOUS
    <2>2. 1..i # {} /\ L!Max(1..i) = i /\ (1..i) \ {i} = 1..(i - 1)
      BY <2>1, LastOfPrefix, Zenon
    <2>3. it[1..i] = L!RouteToken(it[1..(i - 1)], s[i])
      <3> HIDE DEF start
      <3> QED BY <1>3, <2>1, <2>2
    <2>4. V[i] = At(i) /\ V[i - 1] = At(i - 1)
      BY <1>5, <2>1, Zenon
    <2> HIDE DEF V
    <2>5. L!RouteToken(At(i - 1), s[i]) = At(i)
      <3>1. CASE i < p
        <4>1. s[i] \notin {"dev", "metric"} /\ At(i) = start /\ At(i - 1) = start
          BY <3>1
        <4>2. L!RouteToken(start, s[i]) = start
          BY <4>1 DEF L!RouteToken
        <4>3. QED
          BY <4>1, <4>2, Zenon
      <3>2. CASE i = p
        <4>1. L!RouteToken(start, "dev") = Line(None, -1, "dev")
          BY DEF L!RouteToken
        <4>2. At(i) = Line(None, -1, "dev") /\ At(i - 1) = start
          BY <3>2
        <4>3. QED
          BY <3>2, <4>1, <4>2, Zenon
      <3>3. CASE i = p + 1
        <4>1. L!RouteToken(Line(None, -1, "dev"), s[i]) = Line(s[i], -1, "any")
          BY DEF L!RouteToken
        <4>2. At(i) = Line(s[i], -1, "any") /\ At(i - 1) = Line(None, -1, "dev")
          BY <3>3
        <4>3. QED
          BY <4>1, <4>2, Zenon
      <3>4. CASE i = p + 2
        <4>1. L!RouteToken(Line(s[p + 1], -1, "any"), "metric") = Line(s[p + 1], -1, "metric")
          BY DEF L!RouteToken
        <4>2. /\ At(i) = Line(s[p + 1], -1, "metric") /\ At(i - 1) = Line(s[p + 1], -1, "any")
              /\ s[i] = "metric"
          BY <3>4
        <4>3. QED
          BY <4>1, <4>2, Zenon
      <3>5. CASE i = p + 3
        <4>1. s[i] \in Nat
          BY <3>5
        <4>2. L!RouteToken(Line(s[p + 1], -1, "metric"), s[i]) = Line(s[p + 1], s[i], "any")
          BY <4>1 DEF L!RouteToken
        <4>3. At(i) = Line(s[p + 1], s[i], "any") /\ At(i - 1) = Line(s[p + 1], -1, "metric")
          BY <3>5
        <4>4. QED
          BY <4>2, <4>3, Zenon
      <3>6. QED
        BY <3>1, <3>2, <3>3, <3>4, <3>5
    <2>6. QED
      BY <1>6, <2>3, <2>4, <2>5, Zenon
  <1>7. it[{}] = V[0]
    <2>1. At(0) = start /\ 0 \in 0..n
      OBVIOUS
    <2> HIDE DEF V, At, start
    <2>2. QED
      BY <1>4, <1>5, <2>1, Zenon
  <1>8. it[1..n] = V[n]
    <2> HIDE DEF V
    <2>1. QED
      BY <1>6, <1>7, LoopValue, Zenon
  <1>9. L!RouteLine(s) = At(n)
    <2>1. n \in 0..n
      OBVIOUS
    <2> HIDE DEF V, At
    <2>2. QED
      BY <1>1, <1>5, <1>8, <2>1, Zenon
  <1>10. CASE n = p + 1
    <2>1. At(n) = Line(s[p + 1], -1, "any")
      BY <1>10
    <2>2. QED
      BY <1>9, <1>10, <2>1
  <1>11. CASE n = p + 3
    <2>1. At(n) = Line(s[p + 1], s[p + 3], "any") /\ n # p + 1
      BY <1>11
    <2>2. QED
      BY <1>9, <1>11, <2>1
  <1>12. QED
    BY <1>10, <1>11

(* c is b, of length n, behind a, of length m.                             *)
Behind(a, b, c, m, n) ==
    /\ Len(c) = m + n /\ DOMAIN c = 1..(m + n)
    /\ \A k \in 1..m : c[k] = a[k]
    /\ \A k \in 1..n : c[m + k] = b[k]

(* The concatenation of two sequences is one behind the other.              *)
LEMMA ConcatBehind ==
    ASSUME NEW S, NEW a \in Seq(S), NEW b \in Seq(S)
    PROVE  a \o b \in Seq(S) /\ Behind(a, b, a \o b, Len(a), Len(b))
  BY DEF Behind

(* Such a line is what `ip route` prints of a route.                        *)
LEMMA PrintedIs ==
    ASSUME NEW r, r.metric = None \/ r.metric \in Nat
    PROVE  /\ L!RouteLine(L!Printed(r)).iface = r.dev
           /\ L!RouteLine(L!Printed(r)).metric = IF r.metric = None THEN -1 ELSE r.metric
  <1> DEFINE S == {"link", "default", "via", "gateway", "dev", "metric", r.dev, r.metric}
             head == IF r.gateway = None THEN <<"link">> ELSE <<"default", "via", "gateway">>
             dev == <<"dev", r.dev>>
             tail == IF r.metric = None THEN <<>> ELSE <<"metric", r.metric>>
             s == (head \o dev) \o tail
             h == IF r.gateway = None THEN 1 ELSE 3
             t == IF r.metric = None THEN 0 ELSE 2
  <1>1. /\ head \in Seq(S) /\ Len(head) = h
        /\ \A k \in 1..h : head[k] \notin {"dev", "metric"}
    <2>1. CASE r.gateway = None
      BY <2>1
    <2>2. CASE r.gateway # None
      BY <2>2
    <2>3. QED
      BY <2>1, <2>2
  <1>2. dev \in Seq(S) /\ Len(dev) = 2 /\ dev[1] = "dev" /\ dev[2] = r.dev
    OBVIOUS
  <1>3. /\ tail \in Seq(S) /\ Len(tail) = t
        /\ r.metric # None => tail[1] = "metric" /\ tail[2] = r.metric
    <2>1. CASE r.metric = None
      BY <2>1
    <2>2. CASE r.metric # None
      BY <2>2
    <2>3. QED
      BY <2>1, <2>2
  <1>4. h \in {1, 3} /\ (r.metric = None => t = 0) /\ (r.metric # None => t = 2)
    OBVIOUS
  <1>5. s = L!Printed(r)
    BY Zenon DEF L!Printed
  <1> HIDE DEF S, head, dev, tail, h, t
  <1>6. /\ head \o dev \in Seq(S) /\ Len(head \o dev) = h + 2
        /\ \A k \in 1..h : (head \o dev)[k] = head[k]
        /\ (head \o dev)[h + 1] = "dev" /\ (head \o dev)[h + 2] = r.dev
    <2>1. 1 \in 1..2 /\ 2 \in 1..2 /\ h \in Nat
      BY <1>4
    <2>2. head \o dev \in Seq(S) /\ Behind(head, dev, head \o dev, h, 2)
      BY <1>1, <1>2, ConcatBehind, Zenon
    <2>3. QED
      BY <1>2, <2>1, <2>2, Zenon DEF Behind
  <1>7. /\ DOMAIN s = 1..(h + 2 + t)
        /\ \A k \in 1..h : s[k] \notin {"dev", "metric"}
        /\ s[h + 1] = "dev" /\ s[h + 2] = r.dev
        /\ r.metric # None => s[h + 3] = "metric" /\ s[h + 4] = r.metric
    <2> DEFINE front == head \o dev
    <2>1. s = front \o tail
      OBVIOUS
    <2> HIDE DEF front, s
    <2>2. /\ front \in Seq(S) /\ Len(front) = h + 2
          /\ \A k \in 1..h : front[k] \notin {"dev", "metric"}
          /\ front[h + 1] = "dev" /\ front[h + 2] = r.dev
      BY <1>1, <1>6, Zenon DEF front
    <2>3. /\ DOMAIN s = 1..(h + 2 + t)
          /\ \A k \in 1..(h + 2) : s[k] = front[k]
          /\ \A k \in 1..t : s[h + 2 + k] = tail[k]
      <3>1. Behind(front, tail, s, h + 2, t)
        BY <1>3, <2>1, <2>2, ConcatBehind, Zenon
      <3>2. QED
        BY <3>1, Zenon DEF Behind
    <2>4. /\ \A k \in 1..h : k \in 1..(h + 2)
          /\ h + 1 \in 1..(h + 2) /\ h + 2 \in 1..(h + 2)
          /\ r.metric # None => 1 \in 1..t /\ 2 \in 1..t
          /\ h + 2 + 1 = h + 3 /\ h + 2 + 2 = h + 4
      BY <1>4
    <2>5. QED
      BY <1>3, <2>2, <2>3, <2>4, Zenon
  <1> HIDE DEF s
  <1> DEFINE p == h + 1
             n == h + 2 + t
  <1>8. /\ p \in Nat /\ p # 0 /\ n \in Nat /\ p - 1 = h /\ p + 1 = h + 2
        /\ p + 2 = h + 3 /\ p + 3 = h + 4
        /\ r.metric = None => n = p + 1
        /\ r.metric # None => n = p + 3 /\ n # p + 1
    BY <1>4
  <1>9. /\ s[p] = "dev" /\ \A k \in 1..(p - 1) : s[k] \notin {"dev", "metric"}
        /\ DOMAIN s = 1..n
        /\ r.metric # None => s[p + 2] = "metric" /\ s[p + 3] \in Nat
        /\ s[p + 1] = r.dev
        /\ r.metric # None => s[p + 3] = r.metric
    <2> HIDE DEF p, n
    <2>1. p = h + 1 /\ n = h + 2 + t
      BY DEF p, n
    <2>2. QED
      BY <1>7, <1>8, <2>1, Zenon
  <1> HIDE DEF p, n
  <1>10. /\ L!RouteLine(s).iface = s[p + 1]
         /\ L!RouteLine(s).metric = IF n = p + 1 THEN -1 ELSE s[p + 3]
    BY <1>8, <1>9, RouteLineIs
  <1>11. QED
    BY <1>5, <1>8, <1>9, <1>10

(* The least of some numbers and one more.                                  *)
LEMMA LeastOfMore ==
    ASSUME NEW T, T \subseteq Nat, NEW m \in Nat
    PROVE  /\ T = {} => L!Min(T \cup {m}) = m
           /\ T # {} => /\ L!Min(T) \in T /\ \A y \in T : L!Min(T) <= y
                        /\ L!Min(T \cup {m}) = IF m < L!Min(T) THEN m ELSE L!Min(T)
  <1>1. ASSUME NEW U, U \subseteq Nat, U # {}, NEW x \in U, \A y \in U : x <= y
        PROVE  L!Min(U) = x
    <2>1. L!Min(U) \in U /\ \A y \in U : L!Min(U) <= y
      BY <1>1, Zenon DEF L!Min
    <2>2. PICK z \in U : z = L!Min(U) /\ \A y \in U : z <= y
      BY <2>1, Zenon
    <2>3. z = x
      BY <1>1, <2>2
    <2>4. QED
      BY <2>2, <2>3, Zenon
  <1>2. CASE T = {}
    <2>1. {m} \subseteq Nat /\ {m} # {} /\ m \in {m} /\ \A y \in {m} : m <= y
      OBVIOUS
    <2>2. L!Min({m}) = m
      BY <1>1, <2>1, Zenon
    <2>3. T \cup {m} = {m}
      BY <1>2
    <2>4. QED
      BY <1>2, <2>2, <2>3, Zenon
  <1>3. CASE T # {}
    <2>1. PICK x \in T : \A y \in T : x <= y
      BY <1>3, LeastNatural
    <2>2. L!Min(T) = x
      BY <1>1, <1>3, <2>1, Zenon
    <2> DEFINE U == T \cup {m}
    <2>3. U \subseteq Nat /\ U # {}
      OBVIOUS
    <2>4. CASE m < x
      <3>1. m \in U /\ \A y \in U : m <= y
        BY <2>1, <2>4
      <3> HIDE DEF U
      <3>2. L!Min(U) = m
        BY <1>1, <2>3, <3>1, Zenon
      <3>3. QED
        BY <1>3, <2>1, <2>2, <2>4, <3>2 DEF U
    <2>5. CASE ~ (m < x)
      <3>1. x \in U /\ \A y \in U : x <= y
        BY <2>1, <2>5
      <3> HIDE DEF U
      <3>2. L!Min(U) = x
        BY <1>1, <2>3, <3>1, Zenon
      <3>3. QED
        BY <1>3, <2>1, <2>2, <2>5, <3>2 DEF U
    <2>6. QED
      BY <2>4, <2>5
  <1>4. QED
    BY <1>2, <1>3

(* What the first k of the routes r say of the metrics of an interface.     *)
MetricsUpTo(r, k, name) ==
    {r[i].metric : i \in {j \in 1..k : r[j].dev = name /\ r[j].metric # None}}
LowestUpTo(r, k) ==
    [name \in {x \in Links : MetricsUpTo(r, k, x) # {}} |-> L!Min(MetricsUpTo(r, k, name))]

(* One more route adds its metric to those of its interface.                *)
LEMMA MetricsGrow ==
    ASSUME NEW r, NEW k \in Nat, k # 0, NEW name
    PROVE  /\ MetricsUpTo(r, 0, name) = {}
           /\ MetricsUpTo(r, k, name) =
                 IF r[k].dev = name /\ r[k].metric # None
                 THEN MetricsUpTo(r, k - 1, name) \cup {r[k].metric}
                 ELSE MetricsUpTo(r, k - 1, name)
  <1>1. MetricsUpTo(r, 0, name) = {}
    BY DEF MetricsUpTo
  <1>2. \A j : j \in 1..k <=> j \in 1..(k - 1) \/ j = k
    OBVIOUS
  <1>3. QED
    BY <1>1, <1>2, Zenon DEF MetricsUpTo

(* The body of the loop over the lines.                                     *)
LEMMA LowestGrow ==
    ASSUME NEW r, NEW k \in Nat, k # 0, None \notin Links, r[k].dev \in Links,
           \A i \in 1..k : r[i].metric = None \/ r[i].metric \in Nat
    PROVE  L!KeepLowest(LowestUpTo(r, k - 1), L!RouteLine(L!Printed(r[k]))) = LowestUpTo(r, k)
  <1> DEFINE before == LowestUpTo(r, k - 1)
             line == L!RouteLine(L!Printed(r[k]))
             had(x) == MetricsUpTo(r, k - 1, x)
             has(x) == MetricsUpTo(r, k, x)
             m == r[k].metric
             dev == r[k].dev
  <1>0. k \in 1..k /\ \A i \in 1..(k - 1) : i \in 1..k
    OBVIOUS
  <1>1. line.iface = dev /\ line.metric = IF m = None THEN -1 ELSE m
    BY <1>0, PrintedIs, Zenon
  <1>2. \A x : has(x) = IF dev = x /\ m # None THEN had(x) \cup {m} ELSE had(x)
    BY MetricsGrow
  <1>3. before = [x \in {y \in Links : had(y) # {}} |-> L!Min(had(x))]
    BY Zenon DEF LowestUpTo
  <1>4. LowestUpTo(r, k) = [x \in {y \in Links : has(y) # {}} |-> L!Min(has(x))]
    BY Zenon DEF LowestUpTo
  <1>5. \A x : had(x) \subseteq Nat
    BY <1>0, Zenon DEF MetricsUpTo
  <1>m. m = None \/ m \in Nat
    BY <1>0, Zenon
  <1> HIDE DEF before, line, had, has, m, dev
  <1>6. CASE m = None
    <2>1. L!KeepLowest(before, line) = before
      BY <1>1, <1>6 DEF L!KeepLowest
    <2>2. \A x : has(x) = had(x)
      BY <1>2, <1>6, Zenon
    <2>3. LowestUpTo(r, k) = before
      BY <1>3, <1>4, <2>2, Zenon
    <2>4. QED
      BY <2>1, <2>3, Zenon DEF before, line
  <1>7. CASE m # None
    <2>1. m \in Nat /\ line.iface = dev /\ line.metric = m
      BY <1>1, <1>7, <1>m, Zenon
    <2>2. dev \in Links /\ dev # None
      BY DEF dev
    <2>3. ~ (line.iface = None \/ line.metric < 0)
      BY <2>1, <2>2
    <2> DEFINE D == {y \in Links : had(y) # {}}
               value(x) == IF x # dev THEN before[x]
                           ELSE IF x \notin D \/ m < before[x] THEN m ELSE before[x]
    <2>4. DOMAIN before = D
      BY <1>3, Zenon
    <2>5. L!KeepLowest(before, line) = [x \in D \cup {dev} |-> value(x)]
      BY <2>1, <2>3, <2>4, Zenon DEF L!KeepLowest
    <2>6. {y \in Links : has(y) # {}} = D \cup {dev}
      <3>1. \A y : has(y) # {} <=> y = dev \/ had(y) # {}
        BY <1>2, <1>7
      <3>2. QED
        BY <2>2, <3>1, Zenon
    <2>7. ASSUME NEW x \in D \cup {dev} PROVE value(x) = L!Min(has(x))
      <3>1. CASE x # dev
        <4>1. has(x) = had(x) /\ x \in D
          BY <1>2, <3>1, Zenon
        <4>2. value(x) = before[x] /\ before[x] = L!Min(had(x))
          BY <1>3, <3>1, <4>1, Zenon
        <4>3. QED
          BY <4>1, <4>2, Zenon
      <3>2. CASE x = dev
        <4>1. has(x) = had(x) \cup {m}
          BY <1>2, <1>7, <3>2, Zenon
        <4>2. x \in D <=> had(x) # {}
          BY <2>2, <3>2, Zenon
        <4>3. had(x) # {} => before[x] = L!Min(had(x))
          BY <1>3, <4>2, Zenon
        <4>4. value(x) = IF had(x) = {} \/ m < before[x] THEN m ELSE before[x]
          BY <3>2, <4>2, Zenon
        <4>5. CASE had(x) = {}
          <5>1. L!Min(had(x) \cup {m}) = m
            BY <1>5, <2>1, <4>5, LeastOfMore, Zenon
          <5>2. QED
            BY <4>1, <4>4, <4>5, <5>1, Zenon
        <4>6. CASE had(x) # {}
          <5>1. L!Min(had(x) \cup {m}) = IF m < L!Min(had(x)) THEN m ELSE L!Min(had(x))
            BY <1>5, <2>1, <4>6, LeastOfMore, Zenon
          <5>2. QED
            BY <4>1, <4>3, <4>4, <4>6, <5>1, Zenon
        <4>7. QED
          BY <4>5, <4>6
      <3>3. QED
        BY <3>1, <3>2
    <2> HIDE DEF value, D
    <2>8. L!KeepLowest(before, line) = LowestUpTo(r, k)
      BY <1>4, <2>5, <2>6, <2>7, Zenon
    <2>9. QED
      BY <2>8, Zenon DEF before, line
  <1>8. QED
    BY <1>6, <1>7

(* ParseIpRouteOutput() gives the lowest metric of each interface.          *)
LEMMA LowestIs ==
    ASSUME NEW n \in Nat, NEW r, DOMAIN r = 1..n, None \notin Links,
           \A i \in 1..n : r[i].dev \in Links /\ (r[i].metric = None \/ r[i].metric \in Nat)
    PROVE  L!ParseIpRouteOutput([i \in DOMAIN r |-> L!Printed(r[i])]) = LowestUpTo(r, n)
  <1> DEFINE lines == [i \in DOMAIN r |-> L!Printed(r[i])]
             S == UNION {[D -> Int] : D \in SUBSET Links}
             body(x, line) == L!KeepLowest(x, L!RouteLine(line))
             F == [i \in 1..n |-> [x \in S |-> body(x, lines[i])]]
             Eq(it) == it = [t \in SUBSET DOMAIN lines |-> IF t = {} THEN <<>>
                               ELSE body(it[t \ {L!Max(t)}], lines[L!Max(t)])]
             V == [k \in 0..n |-> LowestUpTo(r, k)]
             it == CHOOSE it : Eq(it)
  <1>0. DOMAIN lines = 1..n /\ \A i \in 1..n : lines[i] = L!Printed(r[i])
    BY Zenon
  <1>1. L!ParseIpRouteOutput(lines) = it[DOMAIN lines]
    BY Zenon DEF L!ParseIpRouteOutput, L!FoldLeft, L!MapThenFoldSet
  <1> HIDE DEF lines
  <1>2. \E h : Eq(h)
    <2>1. <<>> \in S
      <3>1. <<>> \in [{} -> Int]
        BY NothingFound
      <3>2. QED
        BY <3>1
    <2>2. ASSUME NEW i \in 1..n, NEW x \in S PROVE body(x, lines[i]) \in S
      <3> DEFINE line == L!RouteLine(lines[i])
      <3>1. line.iface = r[i].dev /\ line.metric = IF r[i].metric = None THEN -1 ELSE r[i].metric
        BY <1>0, PrintedIs, Zenon
      <3>2. line.iface \in Links /\ line.metric \in Int
        BY <3>1
      <3> HIDE DEF line
      <3>3. PICK D \in SUBSET Links : x \in [D -> Int]
        OBVIOUS
      <3>4. L!KeepLowest(x, line) \in [D -> Int] \/ L!KeepLowest(x, line) \in [D \cup {line.iface} -> Int]
        BY <3>2, <3>3 DEF L!KeepLowest
      <3>5. D \cup {line.iface} \in SUBSET Links
        BY <3>2
      <3>6. L!KeepLowest(x, line) \in S
        BY <3>4, <3>5
      <3>7. QED
        BY <3>6, Zenon DEF line
    <2>3. F \in [1..n -> [S -> S]]
      <3> HIDE DEF S, body
      <3> QED
        BY <2>2, Zenon
    <2>4. PICK h \in [SUBSET (1..n) -> S] : LoopRun(h, n, <<>>, F)
      <3> HIDE DEF F, S
      <3> QED
        BY <2>1, <2>3, LoopRuns, Zenon
    <2>5. ASSUME NEW t \in SUBSET (1..n), t # {}
          PROVE  h[t] = body(h[t \ {L!Max(t)}], lines[L!Max(t)])
      <3>1. L!Max(t) \in 1..n
        BY <2>5, LastPlace
      <3>2. h[t \ {L!Max(t)}] \in S
        <4> HIDE DEF S
        <4> QED OBVIOUS
      <3>3. h[t] = F[L!Max(t)][h[t \ {L!Max(t)}]]
        BY <2>4, <2>5, Zenon DEF LoopRun
      <3> HIDE DEF S, body
      <3>4. QED
        BY <3>1, <3>2, <3>3, Zenon
    <2>6. h[{}] = <<>>
      BY <2>4, Zenon DEF LoopRun
    <2> HIDE DEF S, body
    <2>7. Eq(h)
      BY <1>0, <2>5, <2>6
    <2>8. QED
      BY <2>7
  <1>3. Eq(it)
    BY <1>2, Zenon
  <1> HIDE DEF it
  <1>4. it[{}] = <<>>
    BY <1>3, Zenon
  <1>5. ASSUME NEW k \in 0..n PROVE V[k] = LowestUpTo(r, k)
    BY Zenon
  <1>6. ASSUME NEW i \in 1..n, it[1..(i - 1)] = V[i - 1] PROVE it[1..i] = V[i]
    <2>1. i \in Nat /\ i # 0 /\ 1..i \in SUBSET (1..n) /\ i \in 0..n /\ i - 1 \in 0..n
      OBVIOUS
    <2>2. 1..i # {} /\ L!Max(1..i) = i /\ (1..i) \ {i} = 1..(i - 1)
      BY <2>1, LastOfPrefix, Zenon
    <2>3. it[1..i] = body(it[1..(i - 1)], lines[i])
      <3> HIDE DEF body
      <3> QED BY <1>0, <1>3, <2>1, <2>2
    <2>4. V[i] = LowestUpTo(r, i) /\ V[i - 1] = LowestUpTo(r, i - 1)
      BY <1>5, <2>1, Zenon
    <2>5. body(LowestUpTo(r, i - 1), lines[i]) = LowestUpTo(r, i)
      <3>1. \A j \in 1..i : j \in 1..n
        OBVIOUS
      <3>2. QED
        BY <1>0, <2>1, <3>1, LowestGrow, Zenon
    <2> HIDE DEF V, body
    <2>6. QED
      BY <1>6, <2>3, <2>4, <2>5, Zenon
  <1>7. it[{}] = V[0]
    <2>1. LowestUpTo(r, 0) = <<>>
      <3>1. \A x : MetricsUpTo(r, 0, x) = {}
        BY DEF MetricsUpTo
      <3>2. LowestUpTo(r, 0) = [x \in {} |-> L!Min(MetricsUpTo(r, 0, x))]
        BY <3>1, Zenon DEF LowestUpTo
      <3>3. QED
        BY <3>2, NothingFound
    <2>2. 0 \in 0..n
      OBVIOUS
    <2> HIDE DEF V
    <2>3. QED
      BY <1>4, <1>5, <2>1, <2>2, Zenon
  <1>8. it[1..n] = V[n]
    <2> HIDE DEF V
    <2>1. QED
      BY <1>6, <1>7, LoopValue, Zenon
  <1>9. QED
    <2>1. n \in 0..n
      OBVIOUS
    <2> HIDE DEF V
    <2>2. QED
      BY <1>0, <1>1, <1>5, <1>8, <2>1, Zenon DEF lines

(* Sequences of one length and with the same elements are equal.            *)
LEMMA SameElements ==
    ASSUME NEW S, NEW s \in Seq(S), NEW R, NEW t \in Seq(R), NEW n \in Nat,
           Len(s) = n, Len(t) = n, \A i \in 1..n : s[i] = t[i]
    PROVE  s = t
  <1> DEFINE U == S \cup R
  <1>1. s \in Seq(U) /\ t \in Seq(U)
    <2>1. S \subseteq U /\ R \subseteq U
      OBVIOUS
    <2> HIDE DEF U
    <2>2. QED
      BY <2>1, SeqMonotonic, Zenon
  <1> HIDE DEF U
  <1>2. Len(s) = Len(t) /\ \A i \in 1..Len(s) : s[i] = t[i]
    BY Zenon
  <1>3. QED
    BY <1>1, <1>2, SeqEqual, Zenon

(* The part of s from place a + 1 on, of length n.                          *)
LEMMA PartIs ==
    ASSUME NEW S, NEW s \in Seq(S), NEW a \in Nat, NEW n \in Nat, a + n <= Len(s)
    PROVE  /\ SubSeq(s, a + 1, a + n) \in Seq(S) /\ Len(SubSeq(s, a + 1, a + n)) = n
           /\ \A i \in 1..n : SubSeq(s, a + 1, a + n)[i] = s[a + i]
  <1>1. /\ a + 1 \in Int /\ a + n \in Int /\ \A i \in a + 1..a + n : s[i] \in S
        /\ (IF a + 1 <= a + n THEN a + n - (a + 1) + 1 ELSE 0) = n /\ a + n - (a + 1) + 1 = n
        /\ \A i \in 1..n : a + 1 + i - 1 = a + i
    OBVIOUS
  <1>2. /\ SubSeq(s, a + 1, a + n) \in Seq(S)
        /\ Len(SubSeq(s, a + 1, a + n)) = IF a + 1 <= a + n THEN a + n - (a + 1) + 1 ELSE 0
        /\ \A i \in 1..(a + n - (a + 1) + 1) : SubSeq(s, a + 1, a + n)[i] = s[a + 1 + i - 1]
    <2> DEFINE m == a + 1
               k == a + n
    <2>1. m \in Int /\ k \in Int /\ \A i \in m..k : s[i] \in S
      BY <1>1, Zenon
    <2> HIDE DEF m, k
    <2>2. /\ SubSeq(s, m, k) \in Seq(S)
          /\ Len(SubSeq(s, m, k)) = IF m <= k THEN k - m + 1 ELSE 0
          /\ \A i \in 1..(k - m + 1) : SubSeq(s, m, k)[i] = s[m + i - 1]
      BY <2>1, SubSeqProperties
    <2>3. QED
      BY <2>2 DEF m, k
  <1> DEFINE t == SubSeq(s, a + 1, a + n)
  <1> HIDE DEF t
  <1>3. t \in Seq(S) /\ Len(t) = n /\ \A i \in 1..n : t[i] = s[a + 1 + i - 1]
    BY <1>1, <1>2, Zenon DEF t
  <1>4. \A i \in 1..n : t[i] = s[a + i]
    BY <1>1, <1>3
  <1>5. QED
    BY <1>3, <1>4 DEF t

(* trim() takes the blanks away that are in front of place a + 1 and behind *)
(* place a + n.                                                             *)
InkBetween(s, a, n) ==
    /\ s[a + 1] # " " /\ s[a + n] # " "
    /\ \A i \in 1..Len(s) : i <= a \/ a + n < i => s[i] = " "

(* trim() returns the places from the first ink to the last.                *)
LEMMA TrimIs ==
    ASSUME NEW S, NEW s \in Seq(S), NEW a \in Nat, NEW n \in Nat, n # 0, a + n <= Len(s),
           InkBetween(s, a, n)
    PROVE  L!trim(s) = SubSeq(s, a + 1, a + n)
  <1> DEFINE ink == {i \in DOMAIN s : s[i] # " "}
  <1>0. DOMAIN s = 1..Len(s) /\ Len(s) \in Nat
    BY LenProperties, Zenon
  <1>1. a + 1 \in 1..Len(s) /\ a + n \in 1..Len(s)
    BY <1>0
  <1>2. a + 1 \in ink /\ a + n \in ink
    BY <1>0, <1>1, Zenon DEF InkBetween
  <1>3. \A i \in ink : i \in Int /\ a + 1 <= i /\ i <= a + n
    <2>1. \A i \in 1..Len(s) : ~ (i <= a \/ a + n < i) => i \in Int /\ a + 1 <= i /\ i <= a + n
      BY <1>0
    <2>2. QED
      BY <1>0, <2>1, Zenon DEF InkBetween
  <1> HIDE DEF ink
  <1>4. L!Min(ink) = a + 1
    <2>1. L!Min(ink) \in ink /\ \A y \in ink : L!Min(ink) <= y
      BY <1>2, <1>3, Zenon DEF L!Min
    <2>2. PICK x \in ink : x = L!Min(ink) /\ \A y \in ink : x <= y
      BY <2>1, Zenon
    <2>3. x = a + 1
      BY <1>2, <1>3, <2>2
    <2>4. QED
      BY <2>2, <2>3, Zenon
  <1>5. L!Max(ink) = a + n
    <2>1. L!Max(ink) \in ink /\ \A y \in ink : L!Max(ink) >= y
      <3>1. \A y \in ink : a + n >= y
        BY <1>3
      <3>2. QED
        BY <1>2, <3>1, Zenon DEF L!Max
    <2>2. PICK x \in ink : x = L!Max(ink) /\ \A y \in ink : x >= y
      BY <2>1, Zenon
    <2>3. x = a + n
      BY <1>2, <1>3, <2>2
    <2>4. QED
      BY <2>2, <2>3, Zenon
  <1>6. ink # {}
    BY <1>2, Zenon
  <1>7. QED
    BY <1>4, <1>5, <1>6, Zenon DEF L!trim, ink

(* What stands where in a line of nmcli.                                    *)
LineOf(line, key, colon, pad, type, p, n) ==
    /\ Len(line) = 4 + p + n + p /\ DOMAIN line = 1..(4 + p + n + p)
    /\ \A k \in 1..3 : line[k] = key[k]
    /\ line[4] = colon[1]
    /\ \A k \in 1..p : line[4 + k] = pad[k]
    /\ \A k \in 1..n : line[4 + p + k] = type[k]
    /\ \A k \in 1..p : line[4 + p + n + k] = pad[k]

(* A line put together of key, colon, blanks, type and blanks has them at   *)
(* these places.                                                            *)
LEMMA FiveParts ==
    ASSUME NEW p \in Nat, NEW n \in Nat, NEW key, NEW colon, NEW pad, NEW type,
           NEW f, NEW x, NEW y, NEW line,
           Behind(key, colon, f, 3, 1), Behind(f, pad, x, 4, p),
           Behind(x, type, y, 4 + p, n), Behind(y, pad, line, 4 + p + n, p)
    PROVE  LineOf(line, key, colon, pad, type, p, n)
  <1>1. \A k \in 1..(4 + p + n) : line[k] = y[k]
    BY DEF Behind
  <1>2. \A k \in 1..(4 + p) : k \in 1..(4 + p + n) /\ y[k] = x[k]
    BY DEF Behind
  <1>3. \A k \in 1..4 : k \in 1..(4 + p) /\ x[k] = f[k]
    BY DEF Behind
  <1>4. \A k \in 1..3 : line[k] = key[k]
    <2>1. \A k \in 1..3 : k \in 1..4 /\ f[k] = key[k]
      BY DEF Behind
    <2>2. QED
      BY <1>1, <1>2, <1>3, <2>1, Zenon
  <1>5. line[4] = colon[1]
    <2>1. 4 \in 1..4 /\ f[4] = colon[1]
      BY DEF Behind
    <2>2. QED
      BY <1>1, <1>2, <1>3, <2>1, Zenon
  <1>6. \A k \in 1..p : line[4 + k] = pad[k]
    <2>1. \A k \in 1..p : 4 + k \in 1..(4 + p) /\ x[4 + k] = pad[k]
      BY DEF Behind
    <2>2. QED
      BY <1>1, <1>2, <2>1, Zenon
  <1>7. \A k \in 1..n : line[4 + p + k] = type[k]
    <2>1. \A k \in 1..n : 4 + p + k \in 1..(4 + p + n) /\ y[4 + p + k] = type[k]
      BY DEF Behind
    <2>2. QED
      BY <1>1, <2>1, Zenon
  <1>8. QED
    BY <1>4, <1>5, <1>6, <1>7, Zenon DEF Behind, LineOf

(* The key of the type contains neither a colon nor a blank.                *)
LEMMA KeyIs ==
    /\ L!TypeKey \in Seq({"G", ".", "T"}) /\ Len(L!TypeKey) = 3
    /\ \A k \in 1..3 : L!TypeKey[k] # ":" /\ L!TypeKey[k] # " "
  BY DEF L!TypeKey

(* The separator, as a sequence of one.                                     *)
LEMMA ColonIs == <<":">> \in Seq({":"}) /\ Len(<<":">>) = 1 /\ <<":">>[1] = ":"
  OBVIOUS

(* Blanks; a word of length n, which begins and ends without one.           *)
Blanks(pad, p) == Len(pad) = p /\ \A k \in 1..p : pad[k] = " "
Word(type, n) == Len(type) = n /\ type[1] # " " /\ type[n] # " "

(* What comes back of a type that nmcli prints with blanks around it.       *)
LEMMA TypeLineIs ==
    ASSUME NEW n \in Nat, n # 0, NEW R, NEW type \in Seq(R), Word(type, n),
           NEW p \in Nat, NEW P, NEW pad \in Seq(P), Blanks(pad, p)
    PROVE  L!ParseLine(L!NmcliLine(L!TypeKey, type, pad)) = <<L!TypeKey, type>>
  <1> DEFINE S == {"G", ".", "T"} \cup {":"} \cup P \cup R
             key == L!TypeKey
             colon == <<":">>
             f == key \o colon
             x == f \o pad
             y == x \o type
             line == y \o pad
             colons == {i \in DOMAIN line : line[i] = ":"}
  <1>1. line = L!NmcliLine(L!TypeKey, type, pad)
    BY Zenon DEF L!NmcliLine
  <1>s. {"G", ".", "T"} \subseteq S /\ {":"} \subseteq S /\ P \subseteq S /\ R \subseteq S
    BY Zenon
  <1> HIDE DEF S
  <1>2. /\ key \in Seq(S) /\ Len(key) = 3
        /\ \A k \in 1..3 : key[k] # ":" /\ key[k] # " "
    BY <1>s, KeyIs, SeqMonotonic, Zenon
  <1>3. colon \in Seq(S) /\ Len(colon) = 1 /\ colon[1] = ":"
    BY <1>s, ColonIs, SeqMonotonic, Zenon
  <1>4. pad \in Seq(S) /\ Len(pad) = p /\ \A k \in 1..p : pad[k] = " "
    BY <1>s, SeqMonotonic, Zenon DEF Blanks
  <1>6. type \in Seq(S) /\ Len(type) = n
    BY <1>s, SeqMonotonic, Zenon DEF Word
  <1> HIDE DEF key, colon
  <1>7. f \in Seq(S) /\ Behind(key, colon, f, 3, 1) /\ Len(f) = 4
    <2>1. f \in Seq(S) /\ Behind(key, colon, f, 3, 1)
      BY <1>2, <1>3, ConcatBehind, Zenon
    <2> HIDE DEF f, x, y
    <2>2. Len(f) = 3 + 1
      BY <2>1, Zenon DEF Behind
    <2>3. QED
      BY <2>1, <2>2
  <1> HIDE DEF f
  <1>8. x \in Seq(S) /\ Behind(f, pad, x, 4, p) /\ Len(x) = 4 + p
    <2>1. x \in Seq(S) /\ Behind(f, pad, x, 4, p)
      BY <1>4, <1>7, ConcatBehind, Zenon
    <2> HIDE DEF f, x, y
    <2>2. Len(x) = 4 + p
      BY <2>1, Zenon DEF Behind
    <2>3. QED
      BY <2>1, <2>2
  <1> HIDE DEF x
  <1>9. y \in Seq(S) /\ Behind(x, type, y, 4 + p, n) /\ Len(y) = 4 + p + n
    <2>1. y \in Seq(S) /\ Behind(x, type, y, 4 + p, n)
      BY <1>6, <1>8, ConcatBehind, Zenon
    <2> HIDE DEF f, x, y
    <2>2. Len(y) = 4 + p + n
      BY <2>1, Zenon DEF Behind
    <2>3. QED
      BY <2>1, <2>2
  <1> HIDE DEF y
  <1>10. line \in Seq(S) /\ Behind(y, pad, line, 4 + p + n, p)
    BY <1>4, <1>9, ConcatBehind, Zenon
  <1> HIDE DEF line
  <1>11. /\ Len(line) = 4 + p + n + p /\ DOMAIN line = 1..(4 + p + n + p)
         /\ \A k \in 1..3 : line[k] = key[k]
         /\ line[4] = colon[1]
         /\ \A k \in 1..p : line[4 + k] = pad[k]
         /\ \A k \in 1..n : line[4 + p + k] = type[k]
         /\ \A k \in 1..p : line[4 + p + n + k] = pad[k]
    <2>1. LineOf(line, key, colon, pad, type, p, n)
      BY <1>7, <1>8, <1>9, <1>10, FiveParts, Zenon
    <2>2. QED
      BY <2>1, Zenon DEF LineOf
  <1>12. L!Min(colons) = 4 /\ L!Min(colons \cup {Len(line)}) = 4 /\ colons # {}
    <2>1. 4 \in 1..(4 + p + n + p) /\ \A i \in 1..(4 + p + n + p) : i \in 1..3 \/ 4 <= i
      OBVIOUS
    <2>2. 4 \in colons
      BY <1>3, <1>11, <2>1, Zenon
    <2>3. \A i \in colons : 4 <= i
      BY <1>2, <1>11, <2>1, Zenon
    <2>4. 4 <= Len(line)
      BY <1>11
    <2>5. \A i \in colons : i \in Int
      BY <1>11
    <2> HIDE DEF colons
    <2>6. ASSUME NEW U, 4 \in U, \A i \in U : 4 <= i /\ i \in Int PROVE L!Min(U) = 4
      <3>1. L!Min(U) \in U /\ \A i \in U : L!Min(U) <= i
        BY <2>6, Zenon DEF L!Min
      <3>2. PICK m \in U : m = L!Min(U) /\ \A i \in U : m <= i
        BY <3>1, Zenon
      <3>3. m = 4
        BY <2>6, <3>2
      <3>4. QED
        BY <3>2, <3>3, Zenon
    <2>7. \A i \in colons \cup {Len(line)} : 4 <= i /\ i \in Int
      BY <1>11, <2>3, <2>4, <2>5
    <2>8. 4 \in colons \cup {Len(line)}
      BY <2>2
    <2>9. QED
      BY <2>2, <2>6, <2>7, <2>8, Zenon
  <1> DEFINE k1 == SubSeq(line, 1, 3)
             v1 == SubSeq(line, 5, 4 + (p + n + p))
  <1>13. L!ParseLine(line) = <<L!trim(k1), L!trim(v1)>>
    <2>1. Len(line) = 4 + (p + n + p) /\ 4 - 1 = 3 /\ 4 + 1 = 5 /\ 4 # 1
      BY <1>11
    <2>2. L!ParseLine(line) =
             IF colons = {} \/ L!Min(colons \cup {Len(line)}) = 1 THEN <<>>
             ELSE <<L!trim(SubSeq(line, 1, L!Min(colons) - 1)),
                    L!trim(SubSeq(line, L!Min(colons) + 1, Len(line)))>>
      BY Zenon DEF L!ParseLine
    <2> HIDE DEF colons
    <2>3. QED
      BY <1>12, <2>1, <2>2, Zenon
  <1>14. L!trim(k1) = key
    <2>1. k1 \in Seq(S) /\ Len(k1) = 3 /\ \A i \in 1..3 : k1[i] = line[i]
      <3>1. 0 + 3 <= Len(line) /\ 0 + 1 = 1 /\ 0 + 3 = 3 /\ 0 \in Nat /\ 3 \in Nat
            /\ \A i \in 1..3 : 0 + i = i
        BY <1>11
      <3>2. /\ SubSeq(line, 0 + 1, 0 + 3) \in Seq(S) /\ Len(SubSeq(line, 0 + 1, 0 + 3)) = 3
            /\ \A i \in 1..3 : SubSeq(line, 0 + 1, 0 + 3)[i] = line[0 + i]
        BY <1>10, <3>1, PartIs
      <3>3. QED
        BY <3>1, <3>2, Zenon
    <2> HIDE DEF k1
    <2>2. \A i \in 1..3 : k1[i] = key[i]
      BY <1>11, <2>1, Zenon
    <2>3. InkBetween(k1, 0, 3)
      <3>1. 0 + 1 \in 1..3 /\ 0 + 3 \in 1..3 /\ \A i \in 1..3 : ~ (i <= 0 \/ 0 + 3 < i)
        OBVIOUS
      <3>2. QED
        BY <1>2, <2>1, <2>2, <3>1, Zenon DEF InkBetween
    <2>4. L!trim(k1) = SubSeq(k1, 0 + 1, 0 + 3)
      <3>1. 0 \in Nat /\ 3 \in Nat /\ 3 # 0 /\ 0 + 3 <= Len(k1)
        BY <2>1
      <3>2. QED
        BY <2>1, <2>3, <3>1, TrimIs, Zenon
    <2> DEFINE k2 == SubSeq(k1, 0 + 1, 0 + 3)
    <2>5. k2 \in Seq(S) /\ Len(k2) = 3 /\ \A i \in 1..3 : k2[i] = k1[0 + i]
      <3>1. 0 \in Nat /\ 3 \in Nat /\ 0 + 3 <= Len(k1)
        BY <2>1
      <3>2. k1 \in Seq(S)
        BY <2>1
      <3>3. /\ SubSeq(k1, 0 + 1, 0 + 3) \in Seq(S) /\ Len(SubSeq(k1, 0 + 1, 0 + 3)) = 3
            /\ \A i \in 1..3 : SubSeq(k1, 0 + 1, 0 + 3)[i] = k1[0 + i]
        BY <3>1, <3>2, PartIs
      <3>4. QED
        BY <3>3, Zenon
    <2> HIDE DEF k2
    <2>6. \A i \in 1..3 : k2[i] = key[i]
      <3>1. \A i \in 1..3 : 0 + i = i
        OBVIOUS
      <3>2. QED
        BY <2>2, <2>5, <3>1, Zenon
    <2>7. k2 = key
      <3>1. 3 \in Nat
        OBVIOUS
      <3>2. key \in Seq(S) /\ Len(key) = 3
        BY <1>2, Zenon
      <3>3. k2 \in Seq(S) /\ Len(k2) = 3
        BY <2>5, Zenon
      <3>4. QED
        BY <2>6, <3>1, <3>2, <3>3, SameElements, Zenon
    <2>8. QED
      BY <2>4, <2>7, Zenon DEF k2
  <1>15. L!trim(v1) = type
    <2> DEFINE w == p + n + p
    <2>0. w \in Nat /\ 4 + w <= Len(line)
      BY <1>11
    <2>1. v1 \in Seq(S) /\ Len(v1) = w /\ \A i \in 1..w : v1[i] = line[4 + i]
      <3> HIDE DEF w
      <3>1. 4 + 1 = 5 /\ 4 \in Nat
        OBVIOUS
      <3>2. /\ SubSeq(line, 4 + 1, 4 + w) \in Seq(S) /\ Len(SubSeq(line, 4 + 1, 4 + w)) = w
            /\ \A i \in 1..w : SubSeq(line, 4 + 1, 4 + w)[i] = line[4 + i]
        BY <1>10, <2>0, <3>1, PartIs
      <3>3. QED
        BY <3>1, <3>2, Zenon DEF w
    <2> HIDE DEF v1
    <2>2. /\ \A i \in 1..p : v1[i] = pad[i]
          /\ \A i \in 1..n : v1[p + i] = type[i]
          /\ \A i \in 1..p : v1[p + n + i] = pad[i]
      <3>1. /\ \A i \in 1..p : i \in 1..w
            /\ \A i \in 1..n : p + i \in 1..w /\ 4 + (p + i) = 4 + p + i
            /\ \A i \in 1..p : p + n + i \in 1..w /\ 4 + (p + n + i) = 4 + p + n + i
        OBVIOUS
      <3> HIDE DEF w
      <3>2. /\ \A i \in 1..p : v1[i] = line[4 + i]
            /\ \A i \in 1..n : v1[p + i] = line[4 + p + i]
            /\ \A i \in 1..p : v1[p + n + i] = line[4 + p + n + i]
        BY <2>1, <3>1
      <3>3. QED
        BY <1>11, <3>2, Zenon
    <2>3. InkBetween(v1, p, n)
      <3>1. 1 \in 1..n /\ n \in 1..n
        OBVIOUS
      <3>2. v1[p + 1] # " " /\ v1[p + n] # " "
        BY <2>2, <3>1, Zenon DEF Word
      <3>3. ASSUME NEW i \in 1..w, i <= p \/ p + n < i
            PROVE  i \in 1..p \/ \E j \in 1..p : i = p + n + j
        <4>1. CASE i <= p
          BY <4>1
        <4>2. CASE p + n < i
          <5>1. i - (p + n) \in 1..p /\ i = p + n + (i - (p + n))
            BY <4>2
          <5>2. QED
            BY <5>1
        <4>3. QED
          BY <3>3, <4>1, <4>2
      <3>4. \A i \in 1..w : i <= p \/ p + n < i => v1[i] = " "
        BY <1>4, <2>2, <3>3, Zenon
      <3> HIDE DEF w
      <3>5. QED
        BY <2>1, <3>2, <3>4, Zenon DEF InkBetween
    <2>4. p + n <= Len(v1)
      BY <2>1
    <2>5. L!trim(v1) = SubSeq(v1, p + 1, p + n)
      BY <2>1, <2>3, <2>4, TrimIs, Zenon
    <2> DEFINE v2 == SubSeq(v1, p + 1, p + n)
    <2>6. v2 \in Seq(S) /\ Len(v2) = n /\ \A i \in 1..n : v2[i] = v1[p + i]
      BY <2>1, <2>4, PartIs
    <2> HIDE DEF v2
    <2>7. \A i \in 1..n : v2[i] = type[i]
      BY <2>2, <2>6, Zenon
    <2>8. v2 = type
      BY <1>6, <2>6, <2>7, SameElements, Zenon
    <2>9. QED
      BY <2>5, <2>8, Zenon DEF v2
  <1>16. QED
    BY <1>1, <1>13, <1>14, <1>15, Zenon DEF key

(* A sequence of one element.                                               *)
LEMMA OneIs ==
    ASSUME NEW c
    PROVE  <<c>> \in Seq({c}) /\ Len(<<c>>) = 1 /\ <<c>>[1] = c
  OBVIOUS

(* The places of no blank and of one.                                       *)
LEMMA NoPlaces == 0 \in Nat /\ 1 \in Nat /\ (\A k \in 1..0 : FALSE) /\ (\A k \in 1..1 : k = 1)
  OBVIOUS

(* ParseLine() reads key and type back from the line that nmcli prints,     *)
(* blanks or none.                                                          *)
LEMMA TypeIsRead ==
    ASSUME L!TypesAssumption, NEW type \in Types, NEW pad \in {<<>>, <<" ">>}
    PROVE  L!ParseLine(L!NmcliLine(L!TypeKey, type, pad)) = <<L!TypeKey, type>>
  <1> DEFINE n == Len(type)
  <1>1. type \in Seq(L!Range(type)) /\ type # <<>> /\ type[1] # " " /\ type[n] # " "
    BY Zenon DEF L!TypesAssumption
  <1>2. n \in Nat /\ n # 0
    <2>1. n \in Nat
      BY <1>1, LenProperties, Zenon
    <2>2. n # 0
      BY <1>1, EmptySeq, Zenon
    <2>3. QED
      BY <2>1, <2>2
  <1>3. Word(type, n)
    BY <1>1, Zenon DEF Word
  <1>4. /\ <<>> \in Seq({" "}) /\ Blanks(<<>>, 0)
        /\ <<" ">> \in Seq({" "}) /\ Blanks(<<" ">>, 1)
    <2>1. /\ \A k \in 1..0 : FALSE
          /\ \A k \in 1..1 : k = 1
      BY NoPlaces, Zenon
    <2>2. QED
      BY <2>1, EmptySeq, OneIs, Zenon DEF Blanks
  <1>5. 0 \in Nat /\ 1 \in Nat
    BY NoPlaces, Zenon
  <1>6. CASE pad = <<>>
    BY <1>1, <1>2, <1>3, <1>4, <1>5, <1>6, TypeLineIs, Zenon
  <1>7. CASE pad = <<" ">>
    BY <1>1, <1>2, <1>3, <1>4, <1>5, <1>7, TypeLineIs, Zenon
  <1>8. QED
    BY <1>6, <1>7, Zenon

(* What the loops make of what a network prints is what it says of the      *)
(* adapter.                                                                 *)
LEMMA AddressTrue ==
    ASSUME L!AddressesAssumption, NEW net \in L!Networks, NEW name \in Links
    PROVE  L!Address(net.inet[name]) = L!AddressIn(net, name)
  <1> DEFINE all == net.inet[name]
             n == Len(all)
             wide == {i \in 1..n : all[i].broadcast # None}
  <1>1. all \in InetLists
    BY DEF L!Networks
  <1>2. all \in Seq(L!Range(all)) /\ \A i \in DOMAIN all : all[i].prefixlen \in 0..32
    BY <1>1, Zenon DEF L!AddressesAssumption
  <1>3. n \in Nat /\ DOMAIN all = 1..n
    BY <1>2, LenProperties, Zenon
  <1> HIDE DEF all
  <1>4. all = <<>> <=> n = 0
    BY <1>2, EmptySeq
  <1> HIDE DEF n
  <1>5. L!Address(all) =
           IF n = 0 THEN L!Blank
           ELSE [ip_address |-> all[n].local, netmask |-> L!prefixLengthToMask(all[n].prefixlen),
                 broadcast |-> IF wide = {} THEN None ELSE all[L!Max(wide)].broadcast,
                 dhcp |-> {all[n].dynamic}]
    BY <1>3, AddressIs, Zenon
  <1>6. L!AddressIn(net, name) =
           IF n = 0 THEN L!Blank
           ELSE [ip_address |-> all[n].local, netmask |-> L!MaskOf(all[n].prefixlen),
                 broadcast |-> IF wide = {} THEN None ELSE all[L!Max(wide)].broadcast,
                 dhcp |-> {all[n].dynamic}]
    BY <1>3, <1>4, Zenon DEF L!AddressIn, L!LastOf, all, n
  <1>7. n # 0 => L!prefixLengthToMask(all[n].prefixlen) = L!MaskOf(all[n].prefixlen)
    <2>1. n # 0 => n \in 1..n
      BY <1>3
    <2>2. QED
      BY <1>2, <1>3, <2>1, MaskIs, Zenon
  <1> HIDE DEF wide
  <1>8. L!Address(all) = L!AddressIn(net, name)
    <2>1. CASE n = 0
      BY <1>5, <1>6, <2>1, Zenon
    <2>2. CASE n # 0
      BY <1>5, <1>6, <1>7, <2>2, Zenon
    <2>3. QED
      BY <2>1, <2>2
  <1>9. QED
    BY <1>8, Zenon DEF all

(* A routing table of the machine, place by place.                          *)
LEMMA RoutesAre ==
    ASSUME L!RoutesAssumption, NEW net \in L!Networks
    PROVE  /\ Len(net.routes) \in Nat /\ DOMAIN net.routes = 1..Len(net.routes)
           /\ \A i \in 1..Len(net.routes) :
                 /\ net.routes[i].dev \in Links
                 /\ net.routes[i].metric = None \/ net.routes[i].metric \in Nat
           /\ \A i, j \in 1..Len(net.routes) :
                 i < j /\ net.routes[j].gateway # None => net.routes[i].gateway # None
  <1> DEFINE t == net.routes
  <1>1. t \in RouteTables
    BY DEF L!Networks
  <1> HIDE DEF t
  <1>2. /\ t \in Seq(L!Range(t))
        /\ \A i \in DOMAIN t : t[i].dev \in Links /\ (t[i].metric = None \/ t[i].metric \in Nat)
        /\ \A i, j \in DOMAIN t : i < j /\ t[j].gateway # None => t[i].gateway # None
    BY <1>1, Zenon DEF L!RoutesAssumption
  <1>3. Len(t) \in Nat /\ DOMAIN t = 1..Len(t)
    BY <1>2, LenProperties, Zenon
  <1>4. QED
    BY <1>2, <1>3, Zenon DEF t

(* What the loop over the default routes finds is the gateway of the        *)
(* machine.                                                                 *)
LEMMA GatewayTrue ==
    ASSUME L!RoutesAssumption, NEW net \in L!Networks, NEW name
    PROVE  L!Gateway(name, L!Defaults(net)) = L!GatewayIn(net, name)
  <1> DEFINE t == net.routes
             n == Len(t)
             d == L!Defaults(net)
             T == {j \in DOMAIN t : t[j].gateway # None}
             own == {i \in DOMAIN t : t[i].dev = name /\ t[i].gateway # None}
  <1>1. n \in Nat /\ DOMAIN t = 1..n
    BY RoutesAre, Zenon
  <1>2. \A i, j \in 1..n : i < j /\ j \in T => i \in T
    BY <1>1, RoutesAre, Zenon
  <1>3. T \subseteq 1..n
    BY <1>1, Zenon
  <1>4. d = [i \in T |-> t[i]]
    BY Zenon DEF L!Defaults
  <1> HIDE DEF T, d, n
  <1>5. PICK m \in 0..n : T = 1..m
    BY <1>1, <1>2, <1>3, FirstPlaces, Zenon
  <1>6. m \in Nat /\ DOMAIN d = 1..m /\ \A i \in 1..m : d[i] = t[i]
    BY <1>1, <1>4, <1>5
  <1> DEFINE mine == {i \in 1..m : d[i].dev = name}
  <1>7. L!Gateway(name, d) = IF mine = {} THEN None ELSE d[L!Max(mine)].gateway
    <2>1. L!Gateway(name, d) = LastGateway(d, mine)
      BY <1>6, GatewayIs, Zenon
    <2>2. QED
      BY <2>1, Zenon DEF LastGateway
  <1>8. mine = own
    <2>1. \A i : i \in 1..m <=> i \in DOMAIN t /\ t[i].gateway # None
      BY <1>5, Zenon DEF T
    <2>2. \A i \in 1..m : d[i].dev = t[i].dev
      BY <1>6, Zenon
    <2> HIDE DEF t, d
    <2>3. QED
      BY <2>1, <2>2, Zenon
  <1>9. mine # {} => d[L!Max(mine)] = t[L!Max(mine)]
    <2>1. mine # {} => L!Max(mine) \in mine
      <3>1. mine \subseteq 1..m
        BY Zenon
      <3> HIDE DEF mine
      <3>2. QED
        BY <1>6, <3>1, LastPlace, Zenon
    <2>2. QED
      BY <1>6, <2>1, Zenon
  <1>10. L!GatewayIn(net, name) = IF own = {} THEN None ELSE t[L!Max(own)].gateway
    BY Zenon DEF L!GatewayIn
  <1> HIDE DEF own, mine
  <1>11. QED
    BY <1>7, <1>8, <1>9, <1>10, Zenon DEF d

(* ParseIpRouteOutput() keeps the lowest metric of each interface.          *)
LEMMA MetricsAre ==
    ASSUME L!NamesAssumption, L!RoutesAssumption, NEW net \in L!Networks
    PROVE  /\ L!Metrics(net) = LowestUpTo(net.routes, Len(net.routes))
           /\ DOMAIN L!Metrics(net) \subseteq Links
  <1> DEFINE t == net.routes
             n == Len(t)
  <1>1. /\ n \in Nat /\ DOMAIN t = 1..n /\ None \notin Links
        /\ \A i \in 1..n : t[i].dev \in Links /\ (t[i].metric = None \/ t[i].metric \in Nat)
    BY RoutesAre, Zenon DEF L!NamesAssumption
  <1> HIDE DEF t, n
  <1>2. L!ParseIpRouteOutput([i \in DOMAIN t |-> L!Printed(t[i])]) = LowestUpTo(t, n)
    BY <1>1, LowestIs, Zenon
  <1>3. L!Metrics(net) = LowestUpTo(t, n)
    BY <1>2, Zenon DEF L!Metrics, t
  <1>4. DOMAIN LowestUpTo(t, n) \subseteq Links
    BY Zenon DEF LowestUpTo
  <1>5. QED
    BY <1>3, <1>4, Zenon DEF t, n

(* The priority that the call reports is the one of the machine.            *)
LEMMA PriorityTrue ==
    ASSUME L!NamesAssumption, L!RoutesAssumption, NEW net \in L!Networks, NEW name \in Links
    PROVE  L!Priority(name, L!Metrics(net)) = L!PriorityIn(net, name)
  <1> DEFINE t == net.routes
             n == Len(t)
             own == MetricsUpTo(t, n, name)
             lowest == LowestUpTo(t, n)
  <1>1. L!Metrics(net) = lowest /\ DOMAIN t = 1..n
    BY MetricsAre, RoutesAre, Zenon
  <1>2. L!PriorityIn(net, name) = IF own = {} THEN -1 ELSE L!Min(own)
    BY <1>1, Zenon DEF L!PriorityIn, MetricsUpTo
  <1>3. /\ name \in DOMAIN lowest <=> own # {}
        /\ own # {} => lowest[name] = L!Min(own)
    BY Zenon DEF LowestUpTo
  <1> HIDE DEF own, lowest
  <1>4. QED
    BY <1>1, <1>2, <1>3, Zenon DEF L!Priority

(* The kernel lists each link once.                                         *)
LEMMA ListedIs ==
    ASSUME L!NamesAssumption, NEW net \in L!Networks
    PROVE  \E n \in Nat :
              /\ n <= L!Cardinality(Links) /\ Len(L!Listed(net)) = n
              /\ L!InOrder(net) \in [1..n -> Links] /\ DOMAIN L!Listed(net) = 1..n
              /\ \A i \in 1..n :
                    L!Listed(net)[i] = [ifname |-> L!InOrder(net)[i],
                                        addr_info |-> net.inet[L!InOrder(net)[i]]]
  <1> DEFINE P == net.links
             n == Cardinality(P)
             order == L!InOrder(net)
             listed == L!Listed(net)
  <1>1. P \subseteq Links
    BY DEF L!Networks
  <1> HIDE DEF P
  <1>2. /\ L!Cardinality(Links) = Cardinality(Links) /\ L!Cardinality(P) = Cardinality(P)
        /\ IsFiniteSet(Links)
    BY DEF L!Cardinality, Cardinality, L!IsFiniteSet, IsFiniteSet, L!NamesAssumption
  <1>3. IsFiniteSet(P) /\ Cardinality(P) <= Cardinality(Links)
    BY <1>1, <1>2, FS_Subset
  <1>4. n \in Nat /\ ExistsBijection(1..n, P)
    BY <1>3, FS_CardinalityType
  <1>5. \E f \in [1..n -> P] : L!IsInjective(f)
    BY <1>4 DEF ExistsBijection, Bijection, Injection, IsInjective, L!IsInjective
  <1>6. order \in [1..n -> P]
    BY <1>2, <1>5, Zenon DEF L!SetToSeq, L!InOrder, P
  <1>7. order \in [1..n -> Links]
    BY <1>1, <1>6
  <1>8. listed = [i \in DOMAIN order |-> [ifname |-> order[i], addr_info |-> net.inet[order[i]]]]
    BY Zenon DEF L!Listed
  <1> HIDE DEF n, order, listed
  <1>9. /\ DOMAIN listed = 1..n
        /\ \A i \in 1..n : listed[i] = [ifname |-> order[i], addr_info |-> net.inet[order[i]]]
    BY <1>7, <1>8, Zenon
  <1>10. Len(listed) = n
    <2>1. listed \in [1..n -> L!Range(listed)]
      BY <1>8, <1>9, Zenon DEF L!Range
    <2>2. listed \in Seq(L!Range(listed))
      BY <1>4, <2>1, SeqDef, Zenon
    <2>3. QED
      BY <1>4, <1>9, <2>2
  <1>11. QED
    BY <1>2, <1>3, <1>4, <1>7, <1>9, <1>10, Zenon DEF n, order, listed

(* The list with an adapter behind it.                                      *)
LEMMA AppendToFound ==
    ASSUME found \in Seq(L!Range(found)), NEW new, found' = Append(found, new)
    PROVE  /\ found' \in Seq(L!Range(found'))
           /\ Len(found) \in Nat /\ DOMAIN found = 1..Len(found)
           /\ DOMAIN found' = 1..(Len(found) + 1)
           /\ \A i \in 1..Len(found) : found'[i] = found[i]
           /\ found'[Len(found) + 1] = new
  <1> DEFINE S == L!Range(found) \cup {new}
  <1>1. found \in Seq(S) /\ new \in S
    <2>1. L!Range(found) \subseteq S
      OBVIOUS
    <2>2. QED
      BY <2>1, SeqMonotonic, Zenon
  <1> HIDE DEF S
  <1>2. /\ found' \in Seq(S) /\ Len(found') = Len(found) + 1
        /\ Len(found) \in Nat /\ DOMAIN found = 1..Len(found)
        /\ DOMAIN found' = 1..Len(found')
    BY <1>1
  <1>3. /\ \A i \in 1..Len(found) : found'[i] = found[i]
        /\ found'[Len(found) + 1] = new
    BY <1>1
  <1>4. PICK n \in Nat : found' \in [1..n -> S]
    <2>1. Seq(S) = UNION {[1..n -> S] : n \in Nat}
      BY SeqDef, Zenon
    <2>2. found' \in UNION {[1..n -> S] : n \in Nat}
      BY <1>2, <2>1, Zenon
    <2>3. QED
      BY <2>2
  <1>5. found' \in Seq(L!Range(found'))
    <2>1. \A i \in DOMAIN found' : found'[i] \in L!Range(found')
      BY Zenon DEF L!Range
    <2>2. found' \in [1..n -> L!Range(found')]
      BY <1>4, <2>1, Zenon
    <2>3. QED
      BY <2>2, SeqDef, Zenon
  <1>6. QED
    BY <1>2, <1>3, <1>5, Zenon

(* What the machine has at any moment is one of the networks.               *)
LEMMA NetworkIs == L!TypeOK => L!Network \in L!Networks
  BY DEF L!TypeOK, L!Network, L!Networks

(* The first state of the Linux module is of its types.                     *)
LEMMA LinuxTypeInit == L!NamesAssumption /\ L!Init => L!TypeOK
  <1> SUFFICES ASSUME L!NamesAssumption, L!Init PROVE L!TypeOK
    OBVIOUS
  <1>1. /\ links \in SUBSET Links /\ inet \in [Links -> InetLists] /\ routing \in RouteTables
        /\ step = "ip addr" /\ metrics = <<>> /\ found = <<>> /\ data = <<>>
    BY Zenon DEF L!Init
  <1>2. L!Cardinality(Links) = Cardinality(Links) /\ IsFiniteSet(Links)
    BY DEF L!Cardinality, Cardinality, L!IsFiniteSet, IsFiniteSet, L!NamesAssumption
  <1>3. L!Cardinality(Links) \in Nat
    BY <1>2, FS_CardinalityType
  <1>4. Len(found) <= Len(data) /\ Len(data) <= L!Cardinality(Links)
    <2>1. Len(<<>>) = 0
      OBVIOUS
    <2>2. Len(found) = 0 /\ Len(data) = 0
      BY <1>1, <2>1, Zenon
    <2>3. QED
      BY <1>3, <2>2
  <1>5. DOMAIN metrics \subseteq Links
    BY <1>1, NothingFound, Zenon
  <1>6. QED
    BY <1>1, <1>4, <1>5 DEF L!TypeOK

(* Every step of the Linux module keeps its types.                          *)
LEMMA LinuxTypeStep ==
    ASSUME L!NamesAssumption, L!RoutesAssumption,
           L!TypeOK, L!MomentsInv, L!ResultInv, [L!Next]_L!vars
    PROVE  L!TypeOK'
  <1>0. /\ links \subseteq Links /\ inet \in [Links -> InetLists] /\ routing \in RouteTables
        /\ step \in {"ip addr", "default", "ip route", "nmcli", "done", "thrown"}
        /\ DOMAIN metrics \subseteq Links /\ Len(found) <= Len(data)
        /\ Len(data) <= L!Cardinality(Links)
    BY Zenon DEF L!TypeOK
  <1>n. L!Network \in L!Networks
    BY NetworkIs
  <1>1. CASE L!Change
    <2>1. step' = step /\ data' = data /\ metrics' = metrics /\ found' = found
      BY <1>1 DEF L!Change, L!call
    <2>2. links' \subseteq Links /\ inet' \in [Links -> InetLists] /\ routing' \in RouteTables
      BY <1>0, <1>1 DEF L!Change
    <2>3. QED
      BY <1>0, <2>1, <2>2, Zenon DEF L!TypeOK
  <1>2. CASE L!IpAddr
    <2>1. /\ links' = links /\ inet' = inet /\ routing' = routing /\ metrics' = metrics
          /\ found' = found /\ step = "ip addr" /\ step' = "default"
          /\ data' = L!Listed(L!Network)
      BY <1>2 DEF L!IpAddr, L!Command, L!network
    <2>2. PICK n \in Nat : n <= L!Cardinality(Links) /\ Len(L!Listed(L!Network)) = n
      BY <1>n, ListedIs, Zenon
    <2>3. found = <<>>
      BY <2>1 DEF L!ResultInv
    <2>4. Len(found') <= Len(data') /\ Len(data') <= L!Cardinality(Links)
      <3>1. Len(<<>>) = 0
        OBVIOUS
      <3>2. Len(found') = 0 /\ Len(data') = n
        BY <2>1, <2>2, <2>3, <3>1, Zenon
      <3>3. QED
        BY <2>2, <3>2
    <2>5. QED
      BY <1>0, <2>1, <2>4 DEF L!TypeOK
  <1>3. CASE L!IpDefault \/ L!Fails \/ L!Return
    <2>1. /\ links' = links /\ inet' = inet /\ routing' = routing /\ metrics' = metrics
          /\ found' = found /\ data' = data
          /\ step' \in {"ip addr", "default", "ip route", "nmcli", "done", "thrown"}
      BY <1>3 DEF L!IpDefault, L!Fails, L!Return, L!Command, L!network
    <2>2. QED
      BY <1>0, <2>1, Zenon DEF L!TypeOK
  <1>4. CASE L!IpRoute
    <2>1. /\ links' = links /\ inet' = inet /\ routing' = routing
          /\ found' = found /\ data' = data /\ step' = "nmcli"
          /\ metrics' \in {L!Metrics(L!Network), <<>>}
      BY <1>4 DEF L!IpRoute, L!Command, L!network
    <2>2. DOMAIN metrics' \subseteq Links
      BY <1>n, <2>1, MetricsAre, NothingFound, Zenon
    <2>3. QED
      BY <1>0, <2>1, <2>2 DEF L!TypeOK
  <1>5. CASE L!NextAdapter
    <2>1. /\ links' = links /\ inet' = inet /\ routing' = routing /\ metrics' = metrics
          /\ data' = data /\ step' = "nmcli" /\ Len(found) < Len(data)
      BY <1>5 DEF L!NextAdapter, L!Command, L!network
    <2>2. PICK new : found' = Append(found, new)
      BY <1>5, Zenon DEF L!NextAdapter
    <2>3. found \in Seq(L!Range(found))
      BY DEF L!ResultInv
    <2>4. /\ found' \in Seq(L!Range(found')) /\ Len(found) \in Nat
          /\ DOMAIN found' = 1..(Len(found) + 1)
      BY <2>2, <2>3, AppendToFound
    <2>5. Len(found') = Len(found) + 1
      BY <2>4
    <2>6. Len(data) \in Int
      <3>1. step = "nmcli"
        BY <1>5 DEF L!NextAdapter, L!Command
      <3>2. PICK net \in L!Networks : data = L!Listed(net)
        BY <3>1 DEF L!MomentsInv
      <3>3. PICK n \in Nat : Len(L!Listed(net)) = n
        BY ListedIs, Zenon
      <3>4. QED
        BY <3>2, <3>3
    <2>7. Len(found') <= Len(data')
      BY <2>1, <2>4, <2>5, <2>6
    <2>8. QED
      BY <1>0, <2>1, <2>7 DEF L!TypeOK
  <1>6. CASE UNCHANGED L!vars
    <2>1. /\ links' = links /\ inet' = inet /\ routing' = routing /\ metrics' = metrics
          /\ found' = found /\ data' = data /\ step' = step
      BY <1>6 DEF L!vars, L!network, L!call
    <2>2. QED
      BY <1>0, <2>1, Zenon DEF L!TypeOK
  <1>7. QED
    BY <1>1, <1>2, <1>3, <1>4, <1>5, <1>6 DEF L!Next

(* No command takes back a network that there was during the call.          *)
LEMMA LinuxSeen == [L!Next]_L!vars => networks \subseteq networks'
  BY DEF L!Next, L!Change, L!IpAddr, L!IpDefault, L!Fails, L!IpRoute, L!NextAdapter, L!Return,
         L!Command, L!vars

(* A command gives what the network of its moment prints, and keeps what    *)
(* the others gave.                                                         *)
LEMMA MomentsStep ==
    L!MomentsInv /\ L!ResultInv /\ L!TypeOK' /\ [L!Next]_L!vars => L!MomentsInv'
  <1> SUFFICES ASSUME L!MomentsInv, L!ResultInv, L!TypeOK', [L!Next]_L!vars
               PROVE  L!MomentsInv'
    OBVIOUS
  <1>0. networks \subseteq networks'
    BY LinuxSeen
  <1>1. CASE L!Change
    <2>1. /\ step' = step /\ data' = data /\ gdata' = gdata
          /\ metrics' = metrics /\ found' = found
          /\ networks' = networks \cup {L!Network'}
      BY <1>1 DEF L!Change, L!call
    <2>2. L!Network' \in L!Networks
      BY DEF L!TypeOK, L!Network, L!Networks
    <2>3. networks' \subseteq L!Networks
      BY <2>1, <2>2 DEF L!MomentsInv
    <2>4. QED
      BY <1>0, <2>1, <2>3, Zenon DEF L!MomentsInv
  <1>2. CASE L!IpAddr \/ L!IpDefault \/ L!Fails \/ L!IpRoute \/ L!NextAdapter \/ L!Return
    <2>1. networks' = networks /\ L!Network' = L!Network
      BY <1>2 DEF L!IpAddr, L!IpDefault, L!Fails, L!IpRoute, L!NextAdapter, L!Return,
                  L!Command, L!network, L!Network
    <2>2. L!Network' \in networks' /\ networks' \subseteq L!Networks
      BY <2>1 DEF L!MomentsInv
    <2>3. CASE L!IpAddr
      <3>1. /\ step' = "default" /\ data' = L!Listed(L!Network) /\ found' = <<>>
        BY <2>3 DEF L!IpAddr, L!Command, L!ResultInv
      <3>2. QED
        BY <2>1, <2>2, <3>1 DEF L!MomentsInv
    <2>4. CASE L!IpDefault
      <3>1. /\ step = "default" /\ step' = "ip route" /\ data' = data /\ found' = <<>>
            /\ gdata' = L!Defaults(L!Network)
        BY <2>4 DEF L!IpDefault, L!Command, L!ResultInv
      <3>2. QED
        BY <2>1, <2>2, <3>1 DEF L!MomentsInv
    <2>5. CASE L!Fails
      <3>1. /\ step' = "thrown" /\ data' = data /\ gdata' = gdata /\ metrics' = metrics
            /\ found' = found
        BY <2>5 DEF L!Fails, L!Command
      <3>2. QED
        BY <2>1, <2>2, <3>1, Zenon DEF L!MomentsInv
    <2>6. CASE L!IpRoute
      <3>1. /\ step = "ip route" /\ step' = "nmcli" /\ data' = data /\ gdata' = gdata
            /\ metrics' \in {L!Metrics(L!Network), <<>>}
        BY <2>6 DEF L!IpRoute, L!Command
      <3>2. QED
        BY <2>1, <2>2, <3>1 DEF L!MomentsInv
    <2>7. CASE L!NextAdapter \/ L!Return
      <3>1. /\ step = "nmcli" /\ data' = data /\ gdata' = gdata /\ metrics' = metrics
        BY <2>7 DEF L!NextAdapter, L!Return, L!Command
      <3>2. /\ \E net \in networks : data = L!Listed(net)
            /\ \E net \in networks : gdata = L!Defaults(net)
            /\ \E net \in networks : metrics \in {L!Metrics(net), <<>>}
        BY <3>1 DEF L!MomentsInv
      <3>3. QED
        BY <2>1, <2>2, <3>1, <3>2, Zenon DEF L!MomentsInv
    <2>8. QED
      BY <1>2, <2>3, <2>4, <2>5, <2>6, <2>7
  <1>3. CASE UNCHANGED L!vars
    BY <1>3 DEF L!MomentsInv, L!vars, L!call, L!network, L!Network
  <1>4. QED
    BY <1>1, <1>2, <1>3 DEF L!Next

(* The type that is read is the one that was printed.                       *)
LEMMA PrintedStep ==
    ASSUME L!TypesAssumption, L!TypeIsPrinted, L!ResultInv, [L!Next]_L!vars
    PROVE  L!TypeIsPrinted'
  <1>0. found \in Seq(L!Range(found))
    BY DEF L!ResultInv
  <1>n. \A i \in 1..(Len(found) + 1) : i \in 1..Len(found) \/ i = Len(found) + 1
    BY <1>0
  <1>1. CASE L!NextAdapter
    <2>a. PICK type \in Types \cup {None}, pad \in {<<>>, <<" ">>} :
             \E name, gateway, priority, address :
                LET field == IF type = None THEN <<>>
                             ELSE L!ParseLine(L!NmcliLine(L!TypeKey, type, pad)) IN
                found' = Append(found,
                    [name |-> name, gateway |-> gateway, priority |-> priority,
                     address |-> address,
                     type |-> IF field # <<>> /\ field[1] = L!TypeKey THEN field[2] ELSE None,
                     printed |-> type])
      BY <1>1, Zenon DEF L!NextAdapter
    <2>1. PICK name, gateway, priority, address :
             LET field == IF type = None THEN <<>>
                          ELSE L!ParseLine(L!NmcliLine(L!TypeKey, type, pad)) IN
             found' = Append(found,
                 [name |-> name, gateway |-> gateway, priority |-> priority, address |-> address,
                  type |-> IF field # <<>> /\ field[1] = L!TypeKey THEN field[2] ELSE None,
                  printed |-> type])
      BY <2>a, Zenon
    <2> DEFINE field == IF type = None THEN <<>>
                        ELSE L!ParseLine(L!NmcliLine(L!TypeKey, type, pad))
               read == IF field # <<>> /\ field[1] = L!TypeKey THEN field[2] ELSE None
               new == [name |-> name, gateway |-> gateway, priority |-> priority,
                       address |-> address, type |-> read, printed |-> type]
    <2>2. read = type
      <3>1. CASE type = None
        BY <3>1, Zenon
      <3>2. CASE type # None
        <4>1. type \in Types
          BY <3>2
        <4>2. field = <<L!TypeKey, type>>
          BY <3>2, <4>1, TypeIsRead, Zenon
        <4> HIDE DEF field
        <4>3. field # <<>> /\ field[1] = L!TypeKey /\ field[2] = type
          BY <4>2
        <4>4. QED
          BY <4>3, Zenon
      <3>3. QED
        BY <3>1, <3>2
    <2>3. found' = Append(found, new)
      BY <2>1, Zenon
    <2>4. new.type = new.printed
      <3> HIDE DEF read
      <3>1. new.type = read /\ new.printed = type
        OBVIOUS
      <3>2. QED
        BY <2>2, <3>1, Zenon
    <2> HIDE DEF new
    <2>5. /\ DOMAIN found = 1..Len(found) /\ DOMAIN found' = 1..(Len(found) + 1)
          /\ Len(found) \in Nat
          /\ \A i \in 1..Len(found) : found'[i] = found[i]
          /\ found'[Len(found) + 1] = new
      BY <2>3, AppendToFound DEF L!ResultInv
    <2>6. QED
      BY <1>n, <2>4, <2>5, Zenon DEF L!TypeIsPrinted
  <1>2. CASE ~ L!NextAdapter
    <2>1. found' = found
      BY <1>2 DEF L!Next, L!Change, L!IpAddr, L!IpDefault, L!Fails, L!IpRoute, L!Return,
                  L!Command, L!vars, L!call
    <2>2. QED
      BY <2>1, Zenon DEF L!TypeIsPrinted
  <1>3. QED
    BY <1>1, <1>2

(* An adapter is appended from what the commands gave, none of which is     *)
(* replaced while there are adapters.                                       *)
LEMMA LinuxResultStep == L!ResultInv /\ [L!Next]_L!vars => L!ResultInv'
  <1> SUFFICES ASSUME L!ResultInv, [L!Next]_L!vars
               PROVE  L!ResultInv'
    OBVIOUS
  <1>0. /\ found \in Seq(L!Range(found))
        /\ step \in {"ip addr", "default", "ip route"} => found = <<>>
        /\ \A i \in DOMAIN found : L!Joined(found[i], data[i], gdata, metrics)
        /\ step = "done" => Len(found) = Len(data)
    BY DEF L!ResultInv
  <1>1. CASE L!Change \/ L!Fails \/ UNCHANGED L!vars
    <2>1. /\ data' = data /\ gdata' = gdata /\ metrics' = metrics /\ found' = found
          /\ step' \in {step, "thrown"}
      BY <1>1 DEF L!Change, L!Fails, L!Command, L!vars, L!call
    <2>2. found' \in Seq(L!Range(found'))
      BY <1>0, <2>1, Zenon
    <2>3. \A i \in DOMAIN found' : L!Joined(found'[i], data'[i], gdata', metrics')
      BY <1>0, <2>1, Zenon
    <2>4. QED
      BY <1>0, <2>1, <2>2, <2>3 DEF L!ResultInv
  <1>2. CASE L!IpAddr \/ L!IpDefault \/ L!IpRoute
    <2>1. found = <<>> /\ found' = found /\ step' \in {"default", "ip route", "nmcli"}
      BY <1>0, <1>2 DEF L!IpAddr, L!IpDefault, L!IpRoute, L!Command
    <2>2. found' \in Seq(L!Range(found'))
      BY <1>0, <2>1, Zenon
    <2>3. DOMAIN found' = {} /\ found' = <<>>
      BY <2>1, NothingFound
    <2>4. QED
      BY <2>1, <2>2, <2>3 DEF L!ResultInv
  <1>3. CASE L!NextAdapter
    <2>1. PICK new :
            /\ found' = Append(found, new)
            /\ L!Joined(new, data[Len(found) + 1], gdata, metrics)
      <3> DEFINE x == data[Len(found) + 1]
                 Adapter(type, field) ==
                     [name |-> x.ifname, gateway |-> L!Gateway(x.ifname, gdata),
                      priority |-> L!Priority(x.ifname, metrics),
                      address |-> L!Address(x.addr_info),
                      type |-> IF field # <<>> /\ field[1] = L!TypeKey THEN field[2] ELSE None,
                      printed |-> type]
      <3>1. \A type, field : L!Joined(Adapter(type, field), x, gdata, metrics)
        BY DEF L!Joined
      <3>2. \E type, field : found' = Append(found, Adapter(type, field))
        BY <1>3, Zenon DEF L!NextAdapter
      <3> HIDE DEF Adapter, x
      <3>3. \E new : found' = Append(found, new) /\ L!Joined(new, x, gdata, metrics)
        BY <3>1, <3>2, Zenon
      <3>4. QED
        BY <3>3, Zenon DEF x
    <2>2. /\ data' = data /\ gdata' = gdata /\ metrics' = metrics
          /\ step' = "nmcli"
      BY <1>3 DEF L!NextAdapter, L!Command
    <2>3. /\ found' \in Seq(L!Range(found'))
          /\ Len(found) \in Nat /\ DOMAIN found = 1..Len(found)
          /\ DOMAIN found' = 1..(Len(found) + 1)
          /\ \A i \in 1..Len(found) : found'[i] = found[i]
          /\ found'[Len(found) + 1] = new
      BY <1>0, <2>1, AppendToFound
    <2>4. \A i \in DOMAIN found' : L!Joined(found'[i], data'[i], gdata', metrics')
      <3> SUFFICES ASSUME NEW i \in DOMAIN found'
                   PROVE  L!Joined(found'[i], data[i], gdata, metrics)
        BY <2>2, Zenon
      <3>1. CASE i \in DOMAIN found
        <4>1. found'[i] = found[i]
          BY <2>3, <3>1, Zenon
        <4>2. QED
          BY <1>0, <3>1, <4>1, Zenon
      <3>2. CASE i \notin DOMAIN found
        <4>1. i = Len(found) + 1
          BY <2>3, <3>2
        <4>2. QED
          BY <2>1, <2>3, <4>1, Zenon
      <3>3. QED
        BY <3>1, <3>2
    <2>5. QED
      BY <2>2, <2>3, <2>4 DEF L!ResultInv
  <1>4. CASE L!Return
    <2>1. /\ data' = data /\ gdata' = gdata /\ metrics' = metrics /\ found' = found
          /\ step' = "done" /\ Len(found) = Len(data)
      BY <1>4 DEF L!Return, L!Command
    <2>2. found' \in Seq(L!Range(found'))
      BY <1>0, <2>1, Zenon
    <2>3. \A i \in DOMAIN found' : L!Joined(found'[i], data'[i], gdata', metrics')
      BY <1>0, <2>1, Zenon
    <2>4. QED
      BY <2>1, <2>2, <2>3 DEF L!ResultInv
  <1>5. QED
    BY <1>1, <1>2, <1>3, <1>4 DEF L!Next

(* What the commands gave and what was made of it is, adapter by adapter,   *)
(* what the networks that were asked say: the adapters are true.            *)
LEMMA LinuxTrue ==
    ASSUME L!NamesAssumption, L!AddressesAssumption, L!RoutesAssumption, L!IInv
    PROVE  L!AdaptersAreTrue
  <1>1. L!TypeOK /\ L!MomentsInv /\ L!ResultInv /\ L!TypeIsPrinted
    BY DEF L!IInv
  <1>2. /\ Len(found) \in Nat /\ DOMAIN found = 1..Len(found)
        /\ step = "done" => Len(found) = Len(data)
        /\ \A i \in DOMAIN found : L!Joined(found[i], data[i], gdata, metrics)
    <2>1. found \in Seq(L!Range(found))
      BY <1>1 DEF L!ResultInv
    <2>2. Len(found) \in Nat /\ DOMAIN found = 1..Len(found)
      BY <2>1, LenProperties, Zenon
    <2>3. QED
      BY <1>1, <2>2, Zenon DEF L!ResultInv
  <1>3. DOMAIN found # {} => found # <<>>
    BY NothingFound, Zenon
  (* Names and addresses: of the network that `ip addr` looked at.          *)
  <1>4. ASSUME NEW one \in networks, data = L!Listed(one)
        PROVE  /\ Len(data) \in Nat
               /\ L!InOrder(one) = [i \in 1..Len(data) |-> data[i].ifname]
               /\ \A i \in DOMAIN found :
                     /\ found[i].name = data[i].ifname /\ found[i].name \in Links
                     /\ found[i].address = L!AddressIn(one, found[i].name)
    <2>1. one \in L!Networks
      BY <1>1 DEF L!MomentsInv
    <2> DEFINE order == L!InOrder(one)
    <2>2. PICK n \in Nat :
             /\ Len(L!Listed(one)) = n /\ order \in [1..n -> Links]
             /\ \A i \in 1..n : L!Listed(one)[i] = [ifname |-> order[i],
                                                    addr_info |-> one.inet[order[i]]]
      BY <2>1, ListedIs, Zenon
    <2> HIDE DEF order
    <2>3. Len(data) = n /\ Len(found) <= n
      BY <1>1, <1>4, <2>2 DEF L!TypeOK
    <2>4. \A i \in 1..n : data[i].ifname = order[i] /\ data[i].addr_info = one.inet[order[i]]
      BY <1>4, <2>2
    <2>5. ASSUME NEW i \in DOMAIN found
          PROVE  /\ found[i].name = data[i].ifname /\ found[i].name \in Links
                 /\ found[i].address = L!AddressIn(one, found[i].name)
      <3>0. Len(found) \in Nat /\ i \in 1..Len(found)
        BY <1>2, <2>5, Zenon
      <3>1. i \in 1..n
        BY <2>3, <3>0
      <3>2. order[i] \in Links
        BY <2>2, <3>1
      <3>3. found[i].name = data[i].ifname /\ found[i].address = L!Address(data[i].addr_info)
        BY <1>2, <2>5, Zenon DEF L!Joined
      <3>4. found[i].name = order[i] /\ found[i].address = L!Address(one.inet[order[i]])
        BY <2>4, <3>1, <3>3, Zenon
      <3>5. L!Address(one.inet[order[i]]) = L!AddressIn(one, order[i])
        BY <2>1, <3>2, AddressTrue, Zenon
      <3>6. QED
        BY <3>2, <3>3, <3>4, <3>5, Zenon
    <2>6. order = [i \in 1..n |-> data[i].ifname]
      BY <2>2, <2>4
    <2>7. QED
      BY <2>3, <2>5, <2>6, Zenon DEF order
  <1>5. L!AddressesOfOneMoment
    <2> SUFFICES ASSUME step = "done"
                 PROVE  \E net \in networks :
                           /\ [i \in DOMAIN found |-> found[i].name] = L!InOrder(net)
                           /\ \A i \in DOMAIN found :
                                 found[i].address = L!AddressIn(net, found[i].name)
      BY Zenon DEF L!AddressesOfOneMoment
    <2>1. PICK one \in networks : data = L!Listed(one)
      BY <1>1 DEF L!MomentsInv
    <2>2. /\ L!InOrder(one) = [i \in 1..Len(data) |-> data[i].ifname]
          /\ \A i \in DOMAIN found :
                /\ found[i].name = data[i].ifname
                /\ found[i].address = L!AddressIn(one, found[i].name)
      BY <1>4, <2>1, Zenon
    <2>3. DOMAIN found = 1..Len(data)
      BY <1>2, Zenon
    <2>4. [i \in DOMAIN found |-> found[i].name] = L!InOrder(one)
      BY <2>2, <2>3, Zenon
    <2>5. QED
      BY <2>2, <2>4, Zenon
  <1>6. L!GatewayOfSomeMoment
    <2> SUFFICES ASSUME NEW i \in DOMAIN found
                 PROVE  \E net \in networks : found[i].gateway = L!GatewayIn(net, found[i].name)
      BY Zenon DEF L!GatewayOfSomeMoment
    <2>1. PICK two \in networks : gdata = L!Defaults(two)
      BY <1>1, <1>3 DEF L!MomentsInv
    <2>2. two \in L!Networks
      BY <1>1 DEF L!MomentsInv
    <2>3. found[i].gateway = L!Gateway(found[i].name, gdata)
      BY <1>2, Zenon DEF L!Joined
    <2>4. L!Gateway(found[i].name, L!Defaults(two)) = L!GatewayIn(two, found[i].name)
      BY <2>2, GatewayTrue, Zenon
    <2>5. QED
      BY <2>1, <2>3, <2>4, Zenon
  <1>7. L!PriorityOfSomeMoment
    <2> SUFFICES ASSUME NEW i \in DOMAIN found
                 PROVE  \/ metrics = <<>> /\ found[i].priority = -1
                        \/ \E net \in networks :
                              found[i].priority = L!PriorityIn(net, found[i].name)
      BY Zenon DEF L!PriorityOfSomeMoment
    <2>1. PICK one \in networks : data = L!Listed(one)
      BY <1>1, <1>3 DEF L!MomentsInv
    <2>2. found[i].name \in Links
      BY <1>4, <2>1, Zenon
    <2>3. PICK three \in networks : metrics \in {L!Metrics(three), <<>>}
      BY <1>1, <1>3 DEF L!MomentsInv
    <2>4. three \in L!Networks
      BY <1>1 DEF L!MomentsInv
    <2>5. found[i].priority = L!Priority(found[i].name, metrics)
      BY <1>2, Zenon DEF L!Joined
    <2>6. CASE metrics = <<>>
      <3>1. found[i].name \notin DOMAIN metrics
        BY <2>6, NothingFound, Zenon
      <3>2. QED
        BY <2>5, <2>6, <3>1, Zenon DEF L!Priority
    <2>7. CASE metrics = L!Metrics(three)
      <3>1. L!Priority(found[i].name, L!Metrics(three)) = L!PriorityIn(three, found[i].name)
        BY <2>2, <2>4, PriorityTrue, Zenon
      <3>2. QED
        BY <2>5, <2>7, <3>1, Zenon
    <2>8. QED
      BY <2>3, <2>6, <2>7
  <1>8. L!ListOfThreeMoments
    <2> SUFFICES ASSUME step = "done"
                 PROVE  L!ListOfThreeMoments
      BY DEF L!ListOfThreeMoments
    <2>1. PICK one \in networks : data = L!Listed(one)
      BY <1>1 DEF L!MomentsInv
    <2>2. PICK two \in networks : gdata = L!Defaults(two)
      BY <1>1 DEF L!MomentsInv
    <2>3. PICK three \in networks : metrics \in {L!Metrics(three), <<>>}
      BY <1>1 DEF L!MomentsInv
    <2>4. QED
      BY <1>2, <2>1, <2>2, <2>3, Zenon DEF L!ListOfThreeMoments
  <1>9. QED
    BY <1>1, <1>5, <1>6, <1>7, <1>8 DEF L!AdaptersAreTrue

(* On Linux, for any interfaces, addresses, routing tables and types, and   *)
(* however often the network changes during the call: names and addresses   *)
(* are those of one moment, with the mask of the prefix length and the last *)
(* broadcast address there was; a gateway is the last default route's that  *)
(* the adapter had at some moment, a priority the lowest metric of its      *)
(* routes at some moment or -1; the type is the one nmcli printed; and no   *)
(* adapter is missing from the list or in the place of another.             *)
THEOREM LinuxAdaptersAreTrue ==
    ASSUME L!NamesAssumption, L!AddressesAssumption, L!RoutesAssumption, L!TypesAssumption
    PROVE  L!Spec => []L!AdaptersAreTrue
  <1>1. L!Init => L!IInv
    <2> SUFFICES ASSUME L!Init
                 PROVE  L!IInv
      OBVIOUS
    <2>1. found = <<>> /\ step = "ip addr" /\ networks = {L!Network}
      BY DEF L!Init
    <2>2. found \in Seq(L!Range(found))
      BY <2>1, EmptySeq, Zenon
    <2>3. DOMAIN found = {}
      BY <2>1, NothingFound
    <2>4. L!TypeOK
      BY LinuxTypeInit
    <2>5. L!MomentsInv
      <3>1. L!Network \in L!Networks
        BY <2>4, NetworkIs
      <3>2. QED
        BY <2>1, <3>1 DEF L!MomentsInv
    <2>6. L!ResultInv
      BY <2>1, <2>2, <2>3 DEF L!ResultInv
    <2>7. L!TypeIsPrinted
      BY <2>3 DEF L!TypeIsPrinted
    <2>8. QED
      BY <2>4, <2>5, <2>6, <2>7 DEF L!IInv
  <1>2. L!IInv /\ [L!Next]_L!vars => L!IInv'
    <2> SUFFICES ASSUME L!IInv, [L!Next]_L!vars
                 PROVE  L!IInv'
      OBVIOUS
    <2>1. L!TypeOK /\ L!MomentsInv /\ L!ResultInv /\ L!TypeIsPrinted
      BY DEF L!IInv
    <2>2. L!TypeOK'
      BY <2>1, LinuxTypeStep
    <2>3. L!MomentsInv' /\ L!ResultInv' /\ L!TypeIsPrinted'
      BY <2>1, <2>2, MomentsStep, LinuxResultStep, PrintedStep
    <2>4. QED
      BY <2>2, <2>3 DEF L!IInv
  <1>3. L!IInv => L!AdaptersAreTrue
    BY LinuxTrue
  <1>4. QED
    BY <1>1, <1>2, <1>3, PTL DEF L!Spec

-----------------------------------------------------------------------------
(* The adapter lists, on whichever system                                   *)

(* A step of the host is one of the call's, or leaves it alone.             *)
LEMMA AdaptersStep ==
    [PartStep]_everything => [L!Next]_L!vars /\ [W!Next]_W!vars /\ [M!Next]_M!vars
  <1> SUFFICES ASSUME [PartStep]_everything
               PROVE  [L!Next]_L!vars /\ [W!Next]_W!vars /\ [M!Next]_M!vars
    OBVIOUS
  <1>1. L!Next \/ UNCHANGED linux
    BY Zenon DEF PartStep, everything
  <1>2. W!Next \/ UNCHANGED windows
    BY Zenon DEF PartStep, everything
  <1>3. M!Next \/ UNCHANGED macos
    BY Zenon DEF PartStep, everything
  <1>4. UNCHANGED linux => UNCHANGED L!vars
    BY DEF linux, L!vars, L!network, L!call
  <1>5. UNCHANGED windows => UNCHANGED W!vars
    BY DEF windows, W!vars
  <1>6. UNCHANGED macos => UNCHANGED M!vars
    BY DEF macos, M!vars, M!system
  <1>7. QED
    BY <1>1, <1>2, <1>3, <1>4, <1>5, <1>6, Zenon

(* On each of the three systems, for any adapters, configurations and       *)
(* changes during the call: what getAllAdapters() returns is what the       *)
(* machine had.                                                             *)
THEOREM HostAdaptersAreTrue == Whole => []AdaptersAreTrue
  <1>1. Begin => L!Init /\ W!Init /\ M!Init
    BY DEF Begin
  <1>2. Whole => L!Spec /\ W!Spec /\ M!Spec
    BY <1>1, AdaptersStep, PTL DEF Whole, L!Spec, W!Spec, M!Spec
  <1>3. L!Spec => []L!AdaptersAreTrue
    BY HostAssumption, LinuxAdaptersAreTrue
  <1>4. W!Spec => []W!AdaptersAreTrue
    BY HostAssumption, WinAdaptersAreTrue
  <1>5. M!Spec => []M!AdaptersAreTrue
    BY HostAssumption, MacAdaptersAreTrue
  <1>6. L!AdaptersAreTrue /\ W!AdaptersAreTrue /\ M!AdaptersAreTrue => AdaptersAreTrue
    BY DEF AdaptersAreTrue
  <1>7. QED
    BY <1>2, <1>3, <1>4, <1>5, <1>6, PTL
=============================================================================
