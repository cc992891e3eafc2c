--------------------------- MODULE ExchangeProofs ---------------------------
(* Proofs about Exchange, for any requests, response and buffer sizes.      *)
EXTENDS Exchange, FiniteSetTheorems, SequenceTheorems, TLAPS

LEMMA PrefixType ==
    ASSUME NEW s \in Seq(Byte), NEW n \in 0..Len(s)
    PROVE  SubSeq(s, 1, n) \in Seq(Byte)
  <1>1. CASE n = 0
    BY <1>1, SubSeqEmpty
  <1>2. CASE n # 0
    BY <1>2, SubSeqProperties
  <1>3. QED
    BY <1>1, <1>2

(* What remains of a segment is a string of bytes, and without a NUL all of *)
(* the segment remains.                                                     *)
LEMMA UpToNulType ==
    ASSUME NEW s \in Seq(Byte)
    PROVE  /\ UpToNul(s) \in Seq(Byte)
           /\ (\A i \in DOMAIN s : s[i] # "nul") => UpToNul(s) = s
  <1> DEFINE before == {i \in DOMAIN s : \A j \in 1..i : s[j] # "nul"}
  <1>1. DOMAIN s = 1..Len(s) /\ Len(s) \in Nat
    OBVIOUS
  <1>2. IsFiniteSet(1..Len(s)) /\ Cardinality(1..Len(s)) = Len(s)
    BY <1>1, FS_Interval
  <1>3. before \in SUBSET (1..Len(s))
    BY <1>1
  <1>4. IsFiniteSet(before) /\ Cardinality(before) <= Len(s)
    BY <1>2, <1>3, FS_Subset
  <1>5. Cardinality(before) \in 0..Len(s)
    BY <1>1, <1>4, FS_CardinalityType
  <1>6. SubSeq(s, 1, Cardinality(before)) \in Seq(Byte)
    <2>1. PICK n \in 0..Len(s) : n = Cardinality(before)
      BY <1>5
    <2> HIDE DEF before
    <2>2. SubSeq(s, 1, n) \in Seq(Byte)
      BY PrefixType
    <2>3. QED
      BY <2>1, <2>2
  <1>7. ASSUME \A i \in DOMAIN s : s[i] # "nul" PROVE SubSeq(s, 1, Cardinality(before)) = s
    <2>1. before = 1..Len(s)
      BY <1>1, <1>7
    <2>2. QED
      BY <1>2, <2>1, SubSeqFull
  <1>8. QED
    BY <1>6, <1>7 DEF UpToNul

(* The segment that a recv() returns consists of bytes of the request.      *)
LEMMA SegmentType ==
    ASSUME NEW r \in Seq(Byte), NEW from \in 0..Len(r), NEW n \in 1..(Len(r) - from)
    PROVE  /\ SubSeq(r, from + 1, from + n) \in Seq(Byte)
           /\ (\A i \in DOMAIN r : r[i] # "nul") =>
                 \A i \in DOMAIN SubSeq(r, from + 1, from + n) :
                    SubSeq(r, from + 1, from + n)[i] # "nul"
  <1>1. Len(r) \in Nat /\ from + 1 \in 1..Len(r) /\ from + n \in 1..Len(r)
    OBVIOUS
  <1>2. DOMAIN r = 1..Len(r)
    OBVIOUS
  <1>3. /\ SubSeq(r, from + 1, from + n) \in Seq(Byte)
        /\ Len(SubSeq(r, from + 1, from + n)) = n
        /\ \A i \in 1..n : SubSeq(r, from + 1, from + n)[i] = r[from + i]
    BY <1>1, SubSeqProperties
  <1>4. DOMAIN SubSeq(r, from + 1, from + n) = 1..n
    BY <1>3
  <1>5. QED
    BY <1>1, <1>2, <1>3, <1>4

(* A part of the request that ends with CR LF has at least two bytes.       *)
LEMMA LineLength ==
    ASSUME NEW r \in Seq(Byte), NEW n \in 0..Len(r), EndsWithCrlf(SubSeq(r, 1, n))
    PROVE  n \in 2..Len(r) /\ Len(SubSeq(r, 1, n)) = n
  <1>1. CASE n = 0
    BY <1>1, SubSeqEmpty DEF EndsWithCrlf
  <1>2. CASE n # 0
    <2>1. Len(SubSeq(r, 1, n)) = n
      BY <1>2, SubSeqProperties
    <2>2. QED
      BY <2>1 DEF EndsWithCrlf
  <1>3. QED
    BY <1>1, <1>2

-----------------------------------------------------------------------------
(* Every step keeps every variable in its type.                             *)
LEMMA TypeStep == TypeOK /\ [Next]_vars => TypeOK'
  <1> SUFFICES ASSUME TypeOK, [Next]_vars PROVE TypeOK'
    OBVIOUS
  <1> USE SizesAssumption DEF TypeOK, clientVars, serverVars, Finish, Unread, Unreceived,
        Exited
  <1>0. request \in Seq(Byte) /\ Len(request) \in Nat
    BY RequestsAssumption
  <1>1. CASE ClientStep
    <2>1. CASE ClientConnect \/ ClientSent \/ ClientEof \/ ClientFail
      BY <2>1 DEF ClientConnect, ClientSent, ClientEof, ClientFail
    <2>2. ASSUME NEW n \in 1..Window, ClientSend(n) PROVE TypeOK'
      BY <1>0, <2>2 DEF ClientSend
    <2>3. ASSUME NEW n \in 1..Window, ClientRecv(n) PROVE TypeOK'
      BY <2>3 DEF ClientRecv
    <2>4. QED
      BY <1>1, <2>1, <2>2, <2>3 DEF ClientStep
  <1>2. CASE ClientExit
    BY <1>2 DEF ClientExit
  <1>3. CASE ServerStep
    <2>1. CASE ServerAccept \/ ServerGone \/ ServerEof
      BY <2>1 DEF ServerAccept, ServerGone, ServerEof
    <2>2. CASE ServerTimeout \/ ServerCallbackRaises \/ ServerSendFail \/ ServerSent
      BY <2>2 DEF ServerTimeout, ServerCallbackRaises, ServerSendFail, ServerSent,
           ServerAbort, ServerClose
    <2>3. CASE ServerCallback
      <3>1. WithoutEnd(input) \in Seq(Byte)
        <4>1. CASE Len(input) <= 2
          BY <4>1, SubSeqEmpty DEF WithoutEnd
        <4>2. CASE Len(input) > 2
          <5>1. 1 \in 1..Len(input) /\ Len(input) - 2 \in 1..Len(input)
            BY <4>2
          <5>2. SubSeq(input, 1, Len(input) - 2) \in Seq(Byte)
            BY <5>1, SubSeqProperties
          <5>3. QED
            BY <5>2 DEF WithoutEnd
        <4>3. QED
          BY <4>1, <4>2
      <3>2. <<WithoutEnd(input)>> \in Seq(Seq(Byte))
        BY <3>1
      <3>3. QED
        BY <2>3, <3>2 DEF ServerCallback
    <2>4. ASSUME NEW n \in 1..Window, ServerRecv(n) PROVE TypeOK'
      <3>1. UpToNul(SubSeq(request, taken + 1, taken + n)) \in Seq(Byte)
        <4>1. taken \in 0..Len(request) /\ n \in 1..(Len(request) - taken)
          BY <1>0, <2>4 DEF ServerRecv
        <4>2. SubSeq(request, taken + 1, taken + n) \in Seq(Byte)
          BY <1>0, <4>1, SegmentType
        <4>3. QED
          BY <4>2, UpToNulType
      <3>2. input' \in Seq(Byte)
        BY <2>4, <3>1 DEF ServerRecv
      <3>3. QED
        BY <1>0, <2>4, <3>2 DEF ServerRecv
    <2>5. ASSUME NEW n \in 1..Window, ServerSend(n) PROVE TypeOK'
      BY <2>5 DEF ServerSend
    <2>6. QED
      BY <1>3, <2>1, <2>2, <2>3, <2>4, <2>5 DEF ServerStep
  <1>4. CASE UNCHANGED vars
    BY <1>4 DEF vars
  <1>5. QED
    BY <1>1, <1>2, <1>3, <1>4 DEF Next

(* Type correctness of the exchange.                                        *)
THEOREM ExchangeTypes == Spec => []TypeOK
  <1>1. Init => TypeOK
    <2> SUFFICES ASSUME Init PROVE TypeOK
      OBVIOUS
    <2>1. Len(request) \in Nat
      BY RequestsAssumption DEF Init
    <2>2. <<>> \in Seq(Byte) /\ <<>> \in Seq(Seq(Byte))
      OBVIOUS
    <2>3. accum \in 0..Len(request) /\ taken \in 0..accum
      BY <2>1 DEF Init
    <2>4. rsent \in 0..ResponseLength /\ received \in 0..rsent
      BY SizesAssumption DEF Init
    <2>5. QED
      BY <2>2, <2>3, <2>4 DEF Init, TypeOK
  <1>2. QED
    BY <1>1, TypeStep, PTL DEF Spec

-----------------------------------------------------------------------------
(* run() ends with one outcome.                                            *)
LEMMA EndsStep == EndsOnce /\ [Next]_vars => EndsOnce'
  <1> SUFFICES ASSUME EndsOnce, [Next]_vars PROVE EndsOnce'
    OBVIOUS
  <1> USE DEF EndsOnce, clientVars, Finish
  <1>1. CASE ClientStep
    BY <1>1 DEF ClientStep, ClientConnect, ClientSent, ClientEof, ClientFail, ClientSend,
       ClientRecv
  <1>2. CASE ClientExit
    BY <1>2 DEF ClientExit
  <1>3. CASE ServerStep
    BY <1>3 DEF ServerStep, ServerAccept, ServerGone, ServerEof, ServerTimeout,
       ServerCallback, ServerCallbackRaises, ServerSent, ServerSendFail, ServerRecv,
       ServerSend, ServerAbort
  <1>4. CASE UNCHANGED vars
    BY <1>4 DEF vars
  <1>5. QED
    BY <1>1, <1>2, <1>3, <1>4 DEF Next

(* LineInv is inductive: recv() appends the next part of the request, and   *)
(* the callback follows a line end unless the client has exited.            *)
LEMMA LineStep == TypeOK /\ EndsOnce /\ LineInv /\ [Next]_vars => LineInv'
  <1> SUFFICES ASSUME TypeOK, EndsOnce, LineInv, [Next]_vars, NoNul' PROVE LineInv'
    BY DEF LineInv
  <1>0. request' = request /\ NoNul
    BY DEF Next, ClientStep, ServerStep, ClientConnect, ClientSent, ClientEof, ClientFail,
       ClientSend, ClientRecv, ClientExit, ServerAccept, ServerGone, ServerEof,
       ServerTimeout, ServerCallback, ServerCallbackRaises, ServerSent, ServerSendFail,
       ServerRecv, ServerSend, ServerAbort, clientVars, vars, NoNul
  <1>1. request \in Seq(Byte) /\ Len(request) \in Nat /\ DOMAIN request = 1..Len(request)
    BY RequestsAssumption DEF TypeOK
  <1> USE <1>0, <1>1 DEF clientVars, serverVars
  <1>2. ASSUME UNCHANGED <<input, taken, seen>>, Exited => Exited', spc' # "callback" \/ spc' = spc
        PROVE  LineInv'
    BY <1>2 DEF LineInv, SeenIsLine, NoNul
  <1>3. CASE ClientStep
    <2>1. cpc # "done"
      BY <1>3 DEF ClientStep, ClientConnect, ClientSent, ClientEof, ClientFail, ClientSend,
         ClientRecv
    <2>2. ~Exited
      BY <2>1 DEF EndsOnce, Exited
    <2>3. UNCHANGED <<input, taken, seen>> /\ (spc' # "callback" \/ spc' = spc)
      BY <1>3 DEF ClientStep, ClientConnect, ClientSent, ClientEof, ClientFail, ClientSend,
         ClientRecv
    <2>4. QED
      BY <1>2, <2>2, <2>3
  <1>4. CASE ClientExit
    BY <1>2, <1>4 DEF ClientExit, Exited, Finish
  <1>5. CASE ServerStep
    <2>1. CASE ServerAccept \/ ServerGone \/ ServerSent \/ ServerTimeout
               \/ ServerCallbackRaises \/ ServerSendFail
      BY <1>2, <2>1 DEF ServerAccept, ServerGone, ServerSent, ServerTimeout,
         ServerCallbackRaises, ServerSendFail, ServerAbort, ServerClose, Exited
    <2>2. CASE ServerEof
      BY <2>2 DEF ServerEof, LineInv, SeenIsLine, Exited, NoNul
    <2>3. CASE ServerCallback
      <3>1. input = SubSeq(request, 1, taken) /\ taken \in 0..Len(request)
        BY DEF LineInv, TypeOK
      <3>2. ASSUME ~Exited PROVE SeenIsLine'
        <4>1. EndsWithCrlf(input)
          BY <2>3, <3>2 DEF ServerCallback, LineInv
        <4>2. taken \in 2..Len(request) /\ Len(input) = taken
          BY <3>1, <4>1, LineLength
        <4>3. WithoutEnd(input) = SubSeq(request, 1, taken - 2)
          <5>1. CASE taken = 2
            BY <3>1, <4>2, <5>1, SubSeqEmpty DEF WithoutEnd
          <5>2. CASE taken > 2
            <6>1. /\ 1 \in 1..Len(request) /\ taken \in 1..Len(request)
                  /\ 1 \in 1..(taken - 1 + 1) /\ taken - 2 \in 1..(taken - 1 + 1)
              BY <4>2, <5>2
            <6>2. SubSeq(SubSeq(request, 1, taken), 1, taken - 2)
                    = SubSeq(request, 1 + 1 - 1, 1 + (taken - 2) - 1)
              BY <6>1, SubSeqOfSubSeq
            <6>3. QED
              BY <3>1, <4>2, <5>2, <6>2 DEF WithoutEnd
          <5>3. QED
            BY <4>2, <5>1, <5>2
        <4>4. seen' = <<SubSeq(request, 1, taken - 2)>> /\ EndsWithCrlf(SubSeq(request, 1, taken))
          BY <2>3, <3>1, <4>1, <4>3 DEF ServerCallback
        <4>5. QED
          BY <4>2, <4>4 DEF SeenIsLine
      <3>3. QED
        BY <2>3, <3>1, <3>2 DEF ServerCallback, LineInv, SeenIsLine, Exited
    <2>4. ASSUME NEW n \in 1..Window, ServerRecv(n) PROVE LineInv'
      <3>1. taken \in 0..Len(request) /\ n \in 1..(Len(request) - taken)
        BY <2>4, SizesAssumption DEF ServerRecv, Unread, TypeOK
      <3>2. UpToNul(SubSeq(request, taken + 1, taken + n)) = SubSeq(request, taken + 1, taken + n)
        BY <3>1, SegmentType, UpToNulType DEF NoNul
      <3>3. SubSeq(request, 1, taken) \o SubSeq(request, taken + 1, taken + n)
              = SubSeq(request, 1, taken + n)
        <4>1. 1 \in 1..(Len(request) + 1) /\ taken \in (1 - 1)..Len(request)
              /\ taken + n \in taken..Len(request)
          BY <3>1
        <4>2. QED
          BY <4>1, ConcatAdjacentSubSeq
      <3>4. input' = SubSeq(request', 1, taken')
        BY <2>4, <3>2, <3>3 DEF ServerRecv, LineInv
      <3>5. spc' = "callback" => EndsWithCrlf(input')
        BY <2>4 DEF ServerRecv
      <3>6. SeenIsLine'
        BY <2>4 DEF ServerRecv, LineInv, SeenIsLine, Exited, NoNul
      <3>7. QED
        BY <3>4, <3>5, <3>6 DEF LineInv
    <2>5. ASSUME NEW n \in 1..Window, ServerSend(n) PROVE LineInv'
      BY <1>2, <2>5 DEF ServerSend, Exited
    <2>6. QED
      BY <1>5, <2>1, <2>2, <2>3, <2>4, <2>5 DEF ServerStep
  <1>6. CASE UNCHANGED vars
    BY <1>2, <1>6 DEF vars, Exited
  <1>7. QED
    BY <1>3, <1>4, <1>5, <1>6 DEF Next

(* Without NULs the callback gets the request up to a line end, for every   *)
(* request, buffer size and segmentation.                                   *)
THEOREM ExchangeSeenIsLine == Spec => []SeenIsLine
  <1>1. Init => LineInv /\ EndsOnce
    <2>1. ASSUME Init PROVE SubSeq(request, 1, 0) = <<>>
      BY <2>1, RequestsAssumption, SubSeqEmpty DEF Init
    <2>2. QED
      BY <2>1 DEF Init, LineInv, SeenIsLine, EndsOnce
  <1>2. LineInv => SeenIsLine
    BY DEF LineInv, SeenIsLine
  <1>3. QED
    BY <1>1, <1>2, ExchangeTypes, EndsStep, LineStep, PTL DEF Spec

-----------------------------------------------------------------------------
(* Every step keeps ReplyInv: the server says FIN without a report only      *)
(* after the whole response, and the client takes no FIN before its bytes.   *)
LEMMA ReplyStep == TypeOK /\ EndsOnce /\ ReplyInv /\ [Next]_vars => ReplyInv'
  <1> SUFFICES ASSUME TypeOK, EndsOnce, ReplyInv, [Next]_vars PROVE ReplyInv'
    OBVIOUS
  <1> USE DEF ReplyInv, ReplyIsWholeOrReported, EndsOnce, clientVars, serverVars
  <1>1. CASE ClientStep
    <2>1. CASE ClientConnect \/ ClientSent \/ ClientFail
      BY <2>1 DEF ClientConnect, ClientSent, ClientFail, Finish
    <2>2. CASE ClientEof
      BY <2>2 DEF ClientEof, Finish, Unreceived, TypeOK
    <2>3. ASSUME NEW n \in 1..Window, ClientSend(n) \/ ClientRecv(n) PROVE ReplyInv'
      BY <2>3 DEF ClientSend, ClientRecv
    <2>4. QED
      BY <1>1, <2>1, <2>2, <2>3 DEF ClientStep
  <1>2. CASE ClientExit
    BY <1>2 DEF ClientExit, Finish
  <1>3. CASE ServerStep
    <2>1. CASE ServerAccept \/ ServerGone \/ ServerEof \/ ServerCallback
      BY <2>1 DEF ServerAccept, ServerGone, ServerEof, ServerCallback
    <2>2. CASE ServerTimeout \/ ServerCallbackRaises \/ ServerSendFail \/ ServerSent
      BY <2>2 DEF ServerTimeout, ServerCallbackRaises, ServerSendFail, ServerSent,
         ServerAbort, ServerClose
    <2>3. ASSUME NEW n \in 1..Window, ServerRecv(n) \/ ServerSend(n) PROVE ReplyInv'
      BY <2>3 DEF ServerRecv, ServerSend
    <2>4. QED
      BY <1>3, <2>1, <2>2, <2>3 DEF ServerStep
  <1>4. CASE UNCHANGED vars
    BY <1>4 DEF vars
  <1>5. QED
    BY <1>1, <1>2, <1>3, <1>4 DEF Next

(* A client takes a shortened response for the whole only where the server   *)
(* has reported an exception, whatever the sizes.                            *)
THEOREM ExchangeReplyIsWhole == Spec => []ReplyIsWholeOrReported
  <1>1. Init => EndsOnce /\ ReplyInv
    BY DEF Init, EndsOnce, ReplyInv, ReplyIsWholeOrReported
  <1>2. ReplyInv => ReplyIsWholeOrReported
    BY DEF ReplyInv
  <1>3. QED
    BY <1>1, <1>2, ExchangeTypes, EndsStep, ReplyStep, PTL DEF Spec

-----------------------------------------------------------------------------
(* The request's one line end is its end: all of it was read when the        *)
(* callback was due, so nothing is left to be sent or unread at close().     *)
LEMMA FramedStep ==
    TypeOK /\ EndsOnce /\ LineInv /\ ReplyInv /\ FramedInv /\ [Next]_vars => FramedInv'
  <1> SUFFICES ASSUME TypeOK, EndsOnce, LineInv, ReplyInv, FramedInv, [Next]_vars,
                      NoNul', OneLine'
               PROVE  FramedInv'
    BY DEF FramedInv, OneLineIsNeverReset
  <1>0. request' = request
    BY DEF Next, ClientStep, ServerStep, ClientConnect, ClientSent, ClientEof, ClientFail,
       ClientSend, ClientRecv, ClientExit, ServerAccept, ServerGone, ServerEof,
       ServerTimeout, ServerCallback, ServerCallbackRaises, ServerSent, ServerSendFail,
       ServerRecv, ServerSend, ServerAbort, clientVars, vars
  <1>1. NoNul /\ OneLine
    BY <1>0 DEF NoNul, OneLine
  <1>2. request \in Seq(Byte) /\ Len(request) \in Nat /\ accum \in 0..Len(request)
        /\ taken \in 0..accum
    BY RequestsAssumption DEF TypeOK
  <1> USE <1>0, <1>1, <1>2 DEF FramedInv, OneLineIsNeverReset, Exited, clientVars, serverVars
  <1>3. CASE ClientStep
    <2>1. CASE ClientConnect \/ ClientSent \/ ClientEof \/ ClientFail
      BY <2>1 DEF ClientConnect, ClientSent, ClientEof, ClientFail, Finish, EndsOnce, ReplyInv
    <2>2. ASSUME NEW n \in 1..Window, ClientSend(n) PROVE FramedInv'
      <3>1. hangup = "open" \/ failed \/ taken < Len(request)
        BY <2>2 DEF ClientSend, ReplyInv, EndsOnce
      <3>2. accum < Len(request)
        BY <2>2 DEF ClientSend
      <3>3. hangup = "open" \/ failed
        BY <2>2, <3>2 DEF ClientSend, ReplyInv, EndsOnce
      <3>4. QED
        BY <2>2, <3>3 DEF ClientSend
    <2>3. ASSUME NEW n \in 1..Window, ClientRecv(n) PROVE FramedInv'
      BY <2>3 DEF ClientRecv
    <2>4. QED
      BY <1>3, <2>1, <2>2, <2>3 DEF ClientStep
  <1>4. CASE ClientExit
    BY <1>4 DEF ClientExit, Finish
  <1>5. CASE ServerStep
    <2>1. CASE ServerAccept \/ ServerGone \/ ServerEof
      BY <2>1 DEF ServerAccept, ServerGone, ServerEof
    <2>2. CASE ServerTimeout \/ ServerCallbackRaises \/ ServerSendFail
      BY <2>2 DEF ServerTimeout, ServerCallbackRaises, ServerSendFail, ServerAbort
    <2>3. CASE ServerCallback
      BY <2>3 DEF ServerCallback
    <2>4. CASE ServerSent
      BY <2>4 DEF ServerSent, ServerClose, Unread
    <2>5. ASSUME NEW n \in 1..Window, ServerRecv(n) PROVE FramedInv'
      <3>1. CASE spc' = "callback" /\ ~Exited
        <4>1. LineInv' /\ TypeOK'
          BY LineStep, TypeStep
        <4>2. taken' \in 0..Len(request) /\ input' = SubSeq(request, 1, taken')
              /\ EndsWithCrlf(input')
          BY <2>5, <3>1, <4>1 DEF LineInv, ServerRecv, TypeOK
        <4>3. taken' \in 2..Len(request)
          BY <4>2, LineLength
        <4>4. taken' = Len(request)
          BY <4>2, <4>3 DEF OneLine
        <4>5. QED
          BY <2>5, <4>4 DEF ServerRecv, ReplyInv
      <3>2. CASE spc' # "callback" \/ Exited
        BY <2>5, <3>2 DEF ServerRecv
      <3>3. QED
        BY <3>1, <3>2
    <2>6. ASSUME NEW n \in 1..Window, ServerSend(n) PROVE FramedInv'
      BY <2>6 DEF ServerSend
    <2>7. QED
      BY <1>5, <2>1, <2>2, <2>3, <2>4, <2>5, <2>6 DEF ServerStep
  <1>6. CASE UNCHANGED vars
    BY <1>6 DEF vars
  <1>7. QED
    BY <1>3, <1>4, <1>5, <1>6 DEF Next

(* No reset cuts off the response to a request of one line, for every        *)
(* request, buffer size and segmentation.                                    *)
THEOREM ExchangeOneLineIsNeverReset == Spec => []OneLineIsNeverReset
  <1>1. Init => EndsOnce /\ LineInv /\ ReplyInv /\ FramedInv
    <2>1. ASSUME Init PROVE SubSeq(request, 1, 0) = <<>>
      BY <2>1, RequestsAssumption, SubSeqEmpty DEF Init
    <2>2. QED
      BY <2>1 DEF Init, EndsOnce, LineInv, SeenIsLine, ReplyInv, ReplyIsWholeOrReported,
         FramedInv, OneLineIsNeverReset
  <1>2. FramedInv => OneLineIsNeverReset
    BY DEF FramedInv
  <1>3. QED
    BY <1>1, <1>2, ExchangeTypes, EndsStep, LineStep, ReplyStep, FramedStep, PTL DEF Spec
=============================================================================
