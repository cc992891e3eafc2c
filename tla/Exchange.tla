------------------------------ MODULE Exchange ------------------------------
(***************************************************************************)
(* One request and its response over one TCP connection: Client::run       *)
(* (src/include/Client.h) at one end, getClientRequest, serverCallback and *)
(* sendServerResponse (src/include/Server.h) at the other.                 *)
(*                                                                         *)
(* TCP may cut a stream anywhere: a send() takes and a recv() returns any  *)
(* number of the bytes it could.  The request is kept byte by byte, for    *)
(* the server looks for its end; of the response only the length matters.  *)
(***************************************************************************)
EXTENDS Integers, Sequences, FiniteSets

CONSTANTS Requests,       \* what a client may be asked to transmit
          ResponseLength, \* bytes that serverCallback returns
          RecvSize,       \* the server's receive buffer, 1024 bytes in the code
          Window          \* bytes the kernels hold for one direction

Byte == {"x", "nul", "cr", "lf"}

ASSUME RequestsAssumption == Requests \subseteq Seq(Byte)
ASSUME SizesAssumption == /\ ResponseLength \in Nat
                          /\ RecvSize \in Nat \ {0} /\ Window \in Nat \ {0}

VARIABLES
    request,  \* Client::request
    cpc,      \* where run() is
    accum,    \* bytes of the request given to send()
    received, \* bytes of the response returned by recv()
    outcome,  \* "reply": clientCallback; "error": errorCallback; "exited": the
              \* program ended and the kernel closed the connection
    spc,      \* where the server is with this connection
    taken,    \* bytes of the request returned by recv()
    input,    \* `input` of getClientRequest()
    seen,     \* <<the string passed to serverCallback>>, or <<>>
    rsent,    \* bytes of the response given to send()
    hangup,   \* how the server's end was closed: with FIN or with RST
    failed    \* an exception or stop() ended the server's work on this connection

clientVars == <<request, cpc, accum, received, outcome>>
serverVars == <<spc, taken, input, seen, rsent, failed>>
vars == <<clientVars, serverVars, hangup>>

TypeOK ==
    /\ request \in Requests
    /\ cpc \in {"connect", "send", "recv", "done"}
    /\ accum \in 0..Len(request) /\ taken \in 0..accum
    /\ rsent \in 0..ResponseLength /\ received \in 0..rsent
    /\ outcome \in {"none", "reply", "error", "exited"}
    /\ spc \in {"none", "queue", "recv", "callback", "send", "closed"}
    /\ input \in Seq(Byte) /\ seen \in Seq(Seq(Byte))
    /\ hangup \in {"open", "fin", "rst"}
    /\ failed \in BOOLEAN

Init ==
    /\ request \in Requests
    /\ cpc = "connect" /\ accum = 0 /\ received = 0 /\ outcome = "none"
    /\ spc = "none" /\ taken = 0 /\ input = <<>> /\ seen = <<>> /\ rsent = 0
    /\ hangup = "open" /\ failed = FALSE

-----------------------------------------------------------------------------
(* Client::run().  Its error path returns without close(sock): the server  *)
(* sees the end of the connection only after a reply or the program's exit. *)

Unread == accum - taken      \* request bytes on their way
Unreceived == rsent - received

Finish(how) == cpc' = "done" /\ outcome' = how

ClientConnect ==
    /\ cpc = "connect" /\ cpc' = "send" /\ spc' = "queue"
    /\ UNCHANGED <<request, accum, received, outcome, taken, input, seen, rsent,
                   failed, hangup>>

(* Bytes that reach a connection the server has closed are answered by RST. *)
ClientSend(n) ==
    /\ cpc = "send" /\ hangup # "rst"
    /\ n <= Len(request) - accum /\ n <= Window - Unread
    /\ accum' = accum + n
    /\ hangup' = IF hangup = "fin" THEN "rst" ELSE hangup
    /\ UNCHANGED <<request, cpc, received, outcome, serverVars>>

(* send() of the zero bytes that are left returns 0 and ends the loop. *)
ClientSent ==
    /\ cpc = "send" /\ hangup # "rst" /\ accum = Len(request)
    /\ cpc' = "recv"
    /\ UNCHANGED <<request, accum, received, outcome, serverVars, hangup>>

ClientRecv(n) ==
    /\ cpc = "recv" /\ n <= Unreceived
    /\ received' = received + n
    /\ UNCHANGED <<request, cpc, accum, outcome, serverVars, hangup>>

ClientEof ==
    /\ cpc = "recv" /\ Unreceived = 0 /\ hangup = "fin"
    /\ Finish("reply")
    /\ UNCHANGED <<request, accum, received, serverVars, hangup>>

(* connect() is refused, pollWait() times out, or the connection was reset. *)
ClientFail ==
    /\ \/ cpc = "connect"
       \/ cpc = "send" /\ (Unread = Window \/ hangup = "rst")
       \/ cpc = "recv" /\ (hangup = "rst" \/ (Unreceived = 0 /\ hangup = "open"))
    /\ Finish("error")
    /\ UNCHANGED <<request, accum, received, serverVars, hangup>>

(* Also after an error, whose connection is still open. *)
ClientExit ==
    /\ cpc \in {"send", "recv"} \/ (outcome = "error" /\ spc # "none")
    /\ Finish("exited")
    /\ UNCHANGED <<request, accum, received, serverVars, hangup>>

-----------------------------------------------------------------------------
(* The server's work on the connection *)

Exited == outcome = "exited"

EndsWithCrlf(s) ==
    Len(s) >= 2 /\ s[Len(s) - 1] = "cr" /\ s[Len(s)] = "lf"

(* std::string(buffer) ends at the first NUL of a segment; where recv()      *)
(* filled the buffer it reads on behind it, and substr() drops what it read. *)
UpToNul(s) ==
    LET before == {i \in DOMAIN s : \A j \in 1..i : s[j] # "nul"}
    IN  SubSeq(s, 1, Cardinality(before))

(* substr(0, length() - 2): the difference wraps for less than two bytes. *)
WithoutEnd(s) == IF Len(s) < 2 THEN s ELSE SubSeq(s, 1, Len(s) - 2)

(* close(): unread bytes turn the FIN into a RST. *)
ServerClose == spc' = "closed" /\ hangup' = IF Unread > 0 THEN "rst" ELSE "fin"

(* An exception, then the fallback close. *)
ServerAbort ==
    /\ ServerClose /\ failed' = TRUE
    /\ UNCHANGED <<clientVars, taken, input, seen, rsent>>

ServerAccept ==
    /\ spc = "queue" /\ spc' = "recv"
    /\ UNCHANGED <<clientVars, taken, input, seen, rsent, failed, hangup>>

(* stop() closes the listening socket: the queue is reset. *)
ServerGone ==
    /\ spc = "queue"
    /\ spc' = "closed" /\ hangup' = "rst" /\ failed' = TRUE
    /\ UNCHANGED <<clientVars, taken, input, seen, rsent>>

(* Mutant: no loop around recv(). *)
ServerRecvOnce(n) ==
    /\ spc = "recv" /\ n <= Unread /\ n <= RecvSize
    /\ taken' = taken + n
    /\ input' = input \o UpToNul(SubSeq(request, taken + 1, taken + n))
    /\ spc' = "callback"
    /\ UNCHANGED <<clientVars, seen, rsent, failed, hangup>>

ServerRecv(n) ==
    /\ spc = "recv" /\ n <= Unread /\ n <= RecvSize
    /\ taken' = taken + n
    /\ input' = input \o UpToNul(SubSeq(request, taken + 1, taken + n))
    /\ spc' = IF EndsWithCrlf(input') THEN "callback" ELSE "recv"
    /\ UNCHANGED <<clientVars, seen, rsent, failed, hangup>>

(* recv() returns 0 once the peer has closed: the input is taken as it is. *)
ServerEof ==
    /\ spc = "recv" /\ Unread = 0 /\ Exited
    /\ spc' = "callback"
    /\ UNCHANGED <<clientVars, taken, input, seen, rsent, failed, hangup>>

(* Mutant: select() without a timeout, only the end of the peer wakes it. *)
ServerTimeoutNone == spc = "recv" /\ Unread = 0 /\ Exited /\ ServerAbort

(* Mutant: a pause is taken for the end of the request. *)
ServerTimeoutAnswers ==
    /\ spc = "recv" /\ Unread = 0 /\ ~Exited /\ spc' = "callback"
    /\ UNCHANGED <<clientVars, taken, input, seen, rsent, failed, hangup>>

ServerTimeout == spc = "recv" /\ Unread = 0 /\ ~Exited /\ ServerAbort

ServerCallback ==
    /\ spc = "callback"
    /\ seen' = <<WithoutEnd(input)>> /\ spc' = "send"
    /\ UNCHANGED <<clientVars, taken, input, rsent, failed, hangup>>

ServerCallbackRaises == spc = "callback" /\ ServerAbort

ServerSend(n) ==
    /\ spc = "send" /\ n <= ResponseLength - rsent /\ n <= Window - Unreceived
    /\ rsent' = rsent + n
    /\ UNCHANGED <<clientVars, spc, taken, input, seen, failed, hangup>>

(* Mutant: one send() is taken for the whole response. *)
ServerSentOnce ==
    /\ spc = "send" /\ (rsent > 0 \/ ResponseLength = 0)
    /\ ServerClose
    /\ UNCHANGED <<clientVars, taken, input, seen, rsent, failed>>

ServerSent ==
    /\ spc = "send" /\ rsent = ResponseLength
    /\ ServerClose
    /\ UNCHANGED <<clientVars, taken, input, seen, rsent, failed>>

(* The peer does not read for five seconds, or it has gone. *)
ServerSendFail ==
    /\ spc = "send" /\ (Exited \/ (Unreceived = Window /\ rsent < ResponseLength))
    /\ ServerAbort

-----------------------------------------------------------------------------
ClientStep == \/ ClientConnect \/ ClientSent \/ ClientEof \/ ClientFail
              \/ \E n \in 1..Window : ClientSend(n) \/ ClientRecv(n)
ServerStep == \/ ServerAccept \/ ServerGone \/ ServerEof \/ ServerTimeout
              \/ ServerCallback \/ ServerCallbackRaises \/ ServerSent \/ ServerSendFail
              \/ \E n \in 1..Window : ServerRecv(n) \/ ServerSend(n)
Next == ClientStep \/ ClientExit \/ ServerStep

Spec == Init /\ [][Next]_vars

(* Both ends run in threads of their own, and every wait of theirs has a    *)
(* timeout.                                                                 *)
FairSpec == Spec /\ WF_vars(ClientStep) /\ WF_vars(ServerStep)

-----------------------------------------------------------------------------
(* Properties *)

NoNul == \A i \in DOMAIN request : request[i] # "nul"

(* Where the request contains no NUL and the client did not exit, the       *)
(* callback gets a prefix that CR LF follows (lines 148-184 and 279): for a *)
(* request with one CR LF, at its end, all of it, however TCP cut it.       *)
SeenIsLine ==
    seen # <<>> /\ ~Exited /\ NoNul =>
        \E n \in 2..Len(request) :
            /\ EndsWithCrlf(SubSeq(request, 1, n))
            /\ seen = <<SubSeq(request, 1, n - 2)>>

(* Inductive invariant of SeenIsLine: the input is the part of the request  *)
(* that was read, and the callback is due at a line end.                    *)
LineInv ==
    NoNul =>
        /\ input = SubSeq(request, 1, taken)
        /\ spc = "callback" /\ ~Exited => EndsWithCrlf(input)
        /\ SeenIsLine
(* ... and an exit, which excuses the server, is never taken back: run()    *)
(* ends once.                                                               *)
EndsOnce == outcome = "none" <=> cpc # "done"

(* clientCallback gets the whole response unless the server has reported an *)
(* exception: end of file is the only sign of the end (lines 152-166).      *)
ReplyIsWholeOrReported ==
    outcome = "reply" => spc = "closed" /\ (received = ResponseLength \/ failed)

(* ... because FIN without an exception means that all of it was sent.      *)
ReplyInv ==
    /\ cpc = "connect" => spc = "none"
    /\ hangup # "open" => spc = "closed"
    /\ hangup = "fin" /\ ~failed => rsent = ResponseLength
    /\ ReplyIsWholeOrReported

(* A request without NULs and with no CR LF before its end is never cut off *)
(* by a reset that destroys a response in flight: nothing is unread at      *)
(* close() (line 284).                                                      *)
OneLine == \A n \in 2..(Len(request) - 1) : ~EndsWithCrlf(SubSeq(request, 1, n))
OneLineIsNeverReset == hangup = "rst" /\ NoNul /\ OneLine => failed \/ Exited

(* ... because all of the request was read when the callback was due.       *)
FramedInv ==
    /\ OneLineIsNeverReset
    /\ NoNul /\ OneLine /\ ~failed /\ ~Exited /\ spc \in {"callback", "send", "closed"} =>
            taken = Len(request)

(* Both ends come to an end: every wait of theirs is over some day, and the *)
(* connection that a failed client leaves open does not hold the server.    *)
BothEnd == <>[](outcome # "none" /\ spc \in {"none", "closed"})
=============================================================================
