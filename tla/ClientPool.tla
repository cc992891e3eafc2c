----------------------------- MODULE ClientPool -----------------------------
(***************************************************************************)
(* kankakee::Client with several requests under way: transmit() copies the *)
(* object and runs each request on a detached thread of its own            *)
(* (src/include/Client.h, on Windows src/include/WinClient.h).             *)
(*                                                                         *)
(* What two requests share is the descriptor table of the process and the  *)
(* GIL, which their callbacks need.  The bytes of one request and of its   *)
(* response are those of Exchange; here a response is none of its chunks,  *)
(* some of them, or all up to the end of the stream.                       *)
(***************************************************************************)
EXTENDS Integers, Sequences

CONSTANTS Requests,  \* calls of transmit()
          Endpoints, \* addresses that setEndpoint() is given
          Fds,       \* descriptors the process may have
          Chunks,    \* bound on recv() calls that return data
          MaxFaults, \* bound on errors and timeouts of the network
          NoFd

NoFdAssumption == NoFd \notin Fds \cup Requests
BoundsAssumption == Chunks \in Nat /\ MaxFaults \in Nat

VARIABLES
    system,   \* what the program was compiled for: WinClient.h or Client.h
    addr,     \* Client::addr of the object that the program holds
    pc,       \* run() of each request
    target,   \* addr of its copy of the object
    sock,     \* sock of its copy
    owner,    \* the request that opened each descriptor, or NoFd
    got,      \* chunks in `received`
    ended,    \* did recv() see the end of the stream?
    calls,    \* callbacks of the request, in order
    intended, \* history: what addr was when transmit() was called
    failed,   \* history: requests that failed with a descriptor of theirs open
    faults

vars == <<system, addr, pc, target, sock, owner, got, ended, calls, intended, failed, faults>>
Windows == system = "Windows"

TypeOK ==
    /\ system \in {"POSIX", "Windows"} /\ addr \in Endpoints
    /\ pc \in [Requests -> {"none", "open", "connect", "send", "recv", "catch",
                            "close", "closecatch", "callback", "done"}]
    /\ target \in [Requests -> Endpoints] /\ intended \in [Requests -> Endpoints]
    /\ sock \in [Requests -> Fds \cup {NoFd}]
    /\ owner \in [Fds -> Requests \cup {NoFd}]
    /\ got \in [Requests -> 0..Chunks] /\ ended \in [Requests -> BOOLEAN]
    /\ calls \in [Requests -> Seq({"error", "answer"})]
    /\ failed \subseteq Requests /\ faults \in 0..MaxFaults

Init ==
    /\ system \in {"POSIX", "Windows"} /\ addr \in Endpoints
    /\ pc = [r \in Requests |-> "none"]
    /\ target = [r \in Requests |-> addr] /\ intended = target
    /\ sock = [r \in Requests |-> NoFd] /\ owner = [f \in Fds |-> NoFd]
    /\ got = [r \in Requests |-> 0] /\ ended = [r \in Requests |-> FALSE]
    /\ calls = [r \in Requests |-> <<>>] /\ failed = {} /\ faults = 0

-----------------------------------------------------------------------------
Fault == faults < MaxFaults /\ faults' = faults + 1
NoFault == UNCHANGED faults
Goto(r, label) == pc' = [pc EXCEPT ![r] = label]
Step(r, from, to) == pc[r] = from /\ Goto(r, to)
Free == {f \in Fds : owner[f] = NoFd}
Held == Fds \ Free
Local == UNCHANGED <<addr, target, sock, owner, got, ended, calls, intended, failed>>
Call(r, callback) == calls' = [calls EXCEPT ![r] = Append(@, callback)]

SetEndpoint ==
    /\ addr' \in Endpoints \ {addr}
    /\ UNCHANGED <<pc, target, sock, owner, got, ended, calls, intended, failed, faults>>

Transmit(r) ==
    /\ Step(r, "none", "open")
    /\ target' = [target EXCEPT ![r] = addr] /\ intended' = [intended EXCEPT ![r] = addr]
    /\ UNCHANGED <<addr, sock, owner, got, ended, calls, failed, faults>>

-----------------------------------------------------------------------------
(* run() *)

Open(r) ==
    /\ pc[r] = "open"
    /\ \E f \in Free : /\ sock' = [sock EXCEPT ![r] = f]
                       /\ owner' = [owner EXCEPT ![f] = r]
    /\ Goto(r, "connect")
    /\ UNCHANGED <<addr, target, got, ended, calls, intended, failed, faults>>

(* socket() has no descriptor left: on Linux ioctl() is what fails, of -1.  *)
OpenFail(r) ==
    /\ Step(r, "open", "catch")
    /\ IF Free = {} THEN NoFault ELSE Fault
    /\ Local

(* On Linux an error of connect() itself shows in send() only. *)
Connect(r) == Step(r, "connect", "send") /\ NoFault /\ Local
Send(r) == Step(r, "send", "recv") /\ NoFault /\ Local

(* ioctl(), connect(), send(), recv() or poll() fails, or a wait of         *)
(* `timeout` seconds is over.                                               *)
Throw(r) ==
    /\ \E label \in {"connect", "send", "recv"} : Step(r, label, "catch")
    /\ failed' = failed \cup {r} /\ Fault
    /\ UNCHANGED <<addr, target, sock, owner, got, ended, calls, intended>>

Recv(r) ==
    /\ pc[r] = "recv" /\ got[r] < Chunks /\ got' = [got EXCEPT ![r] = @ + 1]
    /\ UNCHANGED <<addr, pc, target, sock, owner, ended, calls, intended, failed, faults>>

(* recv() returns 0. *)
RecvEnd(r) ==
    /\ Step(r, "recv", "close") /\ ended' = [ended EXCEPT ![r] = TRUE]
    /\ UNCHANGED <<addr, target, sock, owner, got, calls, intended, failed, faults>>

(* Linux: errorCallback, and `return` without close().                      *)
CatchPosix(r) ==
    /\ ~Windows /\ Step(r, "catch", "done") /\ Call(r, "error")
    /\ UNCHANGED <<addr, target, sock, owner, got, ended, intended, failed, faults>>

(* Windows: errorCallback, and on to closesocket().                         *)
CatchWindows(r) ==
    /\ Windows /\ Step(r, "catch", "close") /\ Call(r, "error")
    /\ UNCHANGED <<addr, target, sock, owner, got, ended, intended, failed, faults>>

Released(r) == [f \in Fds |-> IF f = sock[r] THEN NoFd ELSE owner[f]]

(* Mutant: the descriptor is closed twice, here and after the callback.     *)
CloseTwice(r) ==
    /\ owner' = Released(r) /\ NoFault
    /\ \/ Step(r, "close", "callback")
       \/ pc[r] = "done" /\ UNCHANGED pc
    /\ UNCHANGED <<addr, target, sock, got, ended, calls, intended, failed>>

(* closesocket() may report an error, and the descriptor is gone all the same. *)
Close(r) ==
    /\ owner' = Released(r)
    /\ \/ Step(r, "close", "callback") /\ NoFault
       \/ Windows /\ sock[r] # NoFd /\ Step(r, "close", "closecatch") /\ Fault
    /\ UNCHANGED <<addr, target, sock, got, ended, calls, intended, failed>>

CloseCatch(r) ==
    /\ Step(r, "closecatch", "callback") /\ Call(r, "error")
    /\ UNCHANGED <<addr, target, sock, owner, got, ended, intended, failed, faults>>

Callback(r) ==
    /\ Step(r, "callback", "done") /\ Call(r, "answer")
    /\ UNCHANGED <<addr, target, sock, owner, got, ended, intended, failed, faults>>

Run(r) ==
    \/ Open(r) \/ OpenFail(r) \/ Connect(r) \/ Send(r) \/ Throw(r) \/ Recv(r)
    \/ RecvEnd(r) \/ CatchPosix(r) \/ CatchWindows(r) \/ Close(r) \/ CloseCatch(r)
    \/ Callback(r)
Next == UNCHANGED system /\ (SetEndpoint \/ \E r \in Requests : Transmit(r) \/ Run(r))

Spec == Init /\ [][Next]_vars

-----------------------------------------------------------------------------
(* Properties *)

Done(r) == pc[r] = "done"
Live(r) == pc[r] \notin {"none", "open", "done"} /\ sock[r] # NoFd

(* Each request goes where the object pointed to when transmit() was called,*)
(* whatever setEndpoint() did before the thread ran.                        *)
GoesWhereMeant == \A r \in Requests : pc[r] # "none" => target[r] = intended[r]

(* A request that is over has called back: on Linux exactly once, on        *)
(* Windows with the answer at the end, also after an error.                 *)
CallsBack ==
    \A r \in Requests : Done(r) =>
        IF Windows THEN Len(calls[r]) \in 1..3 /\ calls[r][Len(calls[r])] = "answer"
                   ELSE calls[r] \in {<<"error">>, <<"answer">>}

(* An answer without an error before it is the whole response.              *)
AnswerIsWhole == \A r \in Requests : calls[r] = <<"answer">> => ended[r]

(* The threads never use a descriptor of another request, nor one that has  *)
(* been closed.                                                             *)
OwnDescriptor ==
    \A r \in Requests : Live(r) /\ pc[r] \notin {"callback", "closecatch"} => owner[sock[r]] = r

(* A descriptor is in use by a live request, or it belongs to one that      *)
(* failed and on Linux returned without close() (lines 168-174); the        *)
(* process runs out of descriptors by failures only.                        *)
LostByFailureOnly ==
    \A f \in Held : LET r == owner[f] IN
        Live(r) \/ (~Windows /\ r \in failed /\ calls[r] = <<"error">>)

(* On Windows nothing is lost: with no request under way all are free.      *)
NothingLostOnWindows ==
    Windows /\ (\A r \in Requests : pc[r] \in {"none", "done"}) => Held = {}

(* What holds of all requests together. *)
ClientsKept ==
    /\ TypeOK /\ GoesWhereMeant /\ CallsBack /\ AnswerIsWhole
    /\ OwnDescriptor /\ LostByFailureOnly /\ NothingLostOnWindows

-----------------------------------------------------------------------------
(* Inductive invariants *)

(* The calls back so far tell how the request went.                         *)
CallsKept(r) ==
    /\ pc[r] \in {"none", "open", "connect", "send", "recv", "catch"} => calls[r] = <<>>
    /\ pc[r] \in {"close", "closecatch", "callback"} =>
           \/ calls[r] = <<>> /\ ended[r]
           \/ Windows /\ calls[r] = <<"error">>
           \/ Windows /\ calls[r] = <<"error", "error">> /\ pc[r] = "callback"
    /\ Done(r) => \/ calls[r] = <<"answer">> /\ ended[r]
                  \/ ~Windows /\ calls[r] = <<"error">>
                  \/ Windows /\ calls[r] \in {<<"error", "answer">>,
                                             <<"error", "error", "answer">>}
CallsInv == \A r \in Requests : CallsKept(r)

(* A descriptor is opened before it is used, and stays the request's until  *)
(* it is closed; only a request that opened none comes to run()'s end       *)
(* without one.                                                             *)
SockKept(r) ==
    /\ pc[r] \in {"none", "open"} => sock[r] = NoFd
    /\ pc[r] \in {"connect", "send", "recv"} => sock[r] # NoFd
    /\ pc[r] \in {"connect", "send", "recv", "catch", "close"} /\ sock[r] # NoFd =>
           owner[sock[r]] = r
    /\ pc[r] = "catch" /\ sock[r] # NoFd => r \in failed
    /\ pc[r] = "closecatch" => Windows
SockInv == \A r \in Requests : SockKept(r)

(* Nobody has two descriptors, and nobody has one after run() but a request *)
(* that failed on Linux.                                                    *)
OwnerKept(f, r) ==
    owner[f] = r => /\ sock[r] = f
                    /\ \/ pc[r] \in {"connect", "send", "recv", "catch", "close"}
                       \/ ~Windows /\ Done(r) /\ r \in failed /\ calls[r] = <<"error">>
OwnerInv == \A f \in Fds, r \in Requests : OwnerKept(f, r)

IInv == TypeOK /\ GoesWhereMeant /\ CallsInv /\ SockInv /\ OwnerInv
=============================================================================
