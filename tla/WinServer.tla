------------------------------ MODULE WinServer ------------------------------
(***************************************************************************)
(* kankakee::Server on Windows (src/include/WinServer.h): the receive      *)
(* thread waits for a manual-reset shutdown event, which nothing resets,   *)
(* and for the FD_ACCEPT network event of the listening socket.            *)
(*                                                                         *)
(* FD_ACCEPT is recorded once: WSAEnumNetworkEvents() takes the record and *)
(* only the next accept() arms it again.  As on Linux start() and stop()   *)
(* hold the GIL, and so does a callback; here stop() waits without limit.  *)
(* start() is called when no thread lives, so one thread is enough.        *)
(***************************************************************************)
EXTENDS Integers

CONSTANTS Clients,       \* connections; each one is made at most once
          Quitters,      \* clients whose request makes serverCallback call stop()
          MaxFaults,     \* bound on failing calls and raising callbacks
          Restart,       \* may the owner start a stopped server again?
          ErrorCallback, \* is errorCallback set (it is Python code)?
          NoClient

ASSUME ClientsAssumption == NoClient \notin Clients /\ Quitters \subseteq Clients
ASSUME FaultsAssumption == MaxFaults \in Nat
ASSUME ModesAssumption == Restart \in BOOLEAN /\ ErrorCallback \in BOOLEAN

VARIABLES
    sock,             \* what Server::sock refers to
    enabled, running, \* Server::enabled, Server::running
    shutdown,         \* shutdownEvent is signalled
    accepts,          \* FD_ACCEPT of sock: "recorded" signals sockEvent
    status,           \* progress of every client
    caller, call,     \* who is in stop(), and where
    pc, client,       \* receive(): control, and its local `client`
    phase,            \* what the owner knows: the outcome of its last call
    swallowed,        \* history: a send() that had to wait took FD_ACCEPT
    stopped,          \* history: a stop() has returned
    faults

calls == <<caller, call, phase>>
vars == <<sock, enabled, running, shutdown, accepts, status, calls, pc, client,
          swallowed, stopped, faults>>

TypeOK ==
    /\ sock \in {"invalid", "fresh", "listening", "closed"}
    /\ enabled \in BOOLEAN /\ running \in BOOLEAN /\ shutdown \in BOOLEAN
    /\ accepts \in {"armed", "recorded", "taken"}
    /\ status \in [Clients -> {"out", "queued", "open", "answered", "cut", "dropped"}]
    /\ caller \in {"nobody", "owner", "callback"}
    /\ call \in {"none", "set", "wait"}
    /\ pc \in {"none", "top", "wait", "accept", "recv", "callback", "send",
               "blocked", "close", "alert", "fallback", "realert", "closing",
               "lastalert", "unset", "end"}
    /\ client \in Clients \cup {NoClient}
    /\ phase \in {"new", "failed", "started", "stopped", "gone"}
    /\ swallowed \in BOOLEAN /\ stopped \in BOOLEAN
    /\ faults \in 0..MaxFaults

Init ==
    /\ sock = "invalid" /\ enabled = TRUE /\ running = FALSE
    /\ shutdown = FALSE /\ accepts = "armed"
    /\ status = [c \in Clients |-> "out"]
    /\ caller = "nobody" /\ call = "none" /\ phase = "new"
    /\ pc = "none" /\ client = NoClient
    /\ swallowed = FALSE /\ stopped = FALSE /\ faults = 0

-----------------------------------------------------------------------------
GilFree == caller = "nobody"
Queued == {c \in Clients : status[c] = "queued"}
Fault == faults < MaxFaults /\ faults' = faults + 1
NoFault == UNCHANGED faults
Step(from, to) == pc = from /\ pc' = to
Network == <<accepts, status>>
Switches == <<enabled, running, shutdown>>
LocalStep == UNCHANGED <<sock, Switches, Network, calls, client, swallowed, stopped>>
Mark(c, s) == status' = [status EXCEPT ![c] = s]

MayStart ==
    \/ phase \in {"new", "failed"}
    \/ Restart /\ phase = "stopped"

(* initialize() throws; a socket it has opened stays. *)
StartFail ==
    /\ GilFree /\ MayStart /\ Fault
    /\ phase' = "failed"
    /\ \E s \in {"invalid", "fresh"} : sock' = s
    /\ UNCHANGED <<Switches, Network, caller, call, pc, client, swallowed, stopped>>

(* SO_REUSEADDR lets Windows bind the port whoever else has it. *)
Start ==
    /\ GilFree /\ MayStart
    /\ sock' = "listening" /\ accepts' = "armed"
    /\ running' = TRUE /\ enabled' = TRUE
    /\ pc' = "top" /\ phase' = "started"
    /\ UNCHANGED <<shutdown, status, caller, call, client, swallowed, stopped, faults>>

StopBy(who) ==
    /\ GilFree
    /\ enabled' = FALSE
    /\ caller' = who /\ call' = "set"
    /\ UNCHANGED <<sock, running, shutdown, Network, phase, pc, client, swallowed, stopped, faults>>

OwnerStop == phase # "gone" /\ StopBy("owner")

(* SetEvent(shutdownEvent) *)
StopSet ==
    /\ call = "set" /\ call' = "wait"
    /\ shutdown' = TRUE
    /\ UNCHANGED <<sock, enabled, running, Network, caller, phase, pc, client,
                   swallowed, stopped, faults>>

(* while (running) sleep: there is no limit, and a callback that called     *)
(* stop() keeps the only thread that could reset `running` from doing it.   *)
StopReturn ==
    /\ call = "wait" /\ ~running
    /\ caller' = "nobody" /\ call' = "none" /\ phase' = "stopped" /\ stopped' = TRUE
    /\ UNCHANGED <<sock, Switches, Network, pc, client, swallowed, faults>>

(* ~Server(), once stop() has returned *)
Destroy ==
    /\ GilFree /\ phase = "stopped" /\ phase' = "gone"
    /\ sock' = "closed"
    /\ UNCHANGED <<Switches, Network, caller, call, pc, client, swallowed, stopped, faults>>

-----------------------------------------------------------------------------
(* receive() *)

LoopTest ==
    Step("top", IF enabled THEN "wait" ELSE "closing") /\ NoFault /\ LocalStep

(* Mutant: CreateEvent() of an event that resets itself. *)
WaitShutdownAuto ==
    /\ shutdown /\ Step("wait", "closing") /\ shutdown' = FALSE
    /\ UNCHANGED <<sock, enabled, running, Network, calls, client, swallowed, stopped, faults>>

(* WaitForMultipleObjects() reports the first handle that is signalled. *)
WaitShutdown == shutdown /\ Step("wait", "closing") /\ NoFault /\ LocalStep

WaitClient ==
    /\ ~shutdown /\ accepts = "recorded" /\ Step("wait", "accept")
    /\ accepts' = "taken"
    /\ UNCHANGED <<sock, Switches, status, calls, client, swallowed, stopped, faults>>

(* Mutant: the pending network events are not looked at after accept(). *)
RearmLate(rest) == accepts' = "armed"

(* accept() arms FD_ACCEPT, at once recorded where others are queued. *)
Rearm(rest) == accepts' = IF rest # {} THEN "recorded" ELSE "armed"

(* A Fault is a failing ioctlsocket() or inet_ntop(). *)
AcceptClient ==
    /\ \/ Step("accept", "recv") /\ NoFault
       \/ Step("accept", "alert") /\ Fault
    /\ \E c \in Queued :
          Mark(c, "open") /\ client' = c /\ Rearm(Queued \ {c})
    /\ UNCHANGED <<sock, Switches, calls, swallowed, stopped>>

(* WSAEWOULDBLOCK: `continue`, another error throws. *)
AcceptFail ==
    /\ \E label \in {"top", "alert"} : Step("accept", label)
    /\ Fault /\ Rearm(Queued)
    /\ UNCHANGED <<sock, Switches, status, calls, client, swallowed, stopped>>

(* getClientRequest(): a request, or an error or a timeout of 3 seconds. *)
Recv == \E label \in {"callback", "alert"} : Step("recv", label) /\ NoFault /\ LocalStep

Callback ==
    /\ GilFree
    /\ \/ client \notin Quitters /\ Step("callback", "send") /\ NoFault
       \/ Step("callback", "alert") /\ Fault
    /\ LocalStep

CallbackStop == pc = "callback" /\ client \in Quitters /\ StopBy("callback")

(* sendServerResponse(): all sent, an error, or WSAEWOULDBLOCK and a wait. *)
Send ==
    /\ \/ Step("send", "close") /\ Mark(client, "answered")
       \/ \E label \in {"alert", "blocked"} : Step("send", label) /\ UNCHANGED status
    /\ UNCHANGED <<sock, Switches, accepts, calls, client, swallowed, stopped, faults>>

(* Mutant: the shutdown event is not among the handles. *)
BlockedAcceptOnly ==
    /\ Step("blocked", "close") /\ Mark(client, "cut")
    /\ accepts = "recorded" /\ accepts' = "taken" /\ swallowed' = TRUE
    /\ UNCHANGED <<sock, Switches, calls, client, stopped, faults>>

(* Mutant: a wait of the socket's buffer that ends. *)
BlockedTimeout ==
    /\ Step("blocked", "close") /\ Mark(client, "cut")
    /\ UNCHANGED <<sock, Switches, accepts, calls, client, swallowed, stopped, faults>>

(* The shutdown event, or an FD_ACCEPT, which is taken and not acted on as  *)
(* only FD_WRITE would `continue`; `result` is negative and the loop ends.  *)
Blocked ==
    /\ Step("blocked", "close") /\ Mark(client, "cut")
    /\ \/ shutdown /\ UNCHANGED <<accepts, swallowed>>
       \/ ~shutdown /\ accepts = "recorded" /\ accepts' = "taken" /\ swallowed' = TRUE
    /\ UNCHANGED <<sock, Switches, calls, client, stopped, faults>>

CloseClient ==
    /\ \/ Step("close", "top") /\ client' = NoClient /\ NoFault
       \/ Step("close", "alert") /\ UNCHANGED client /\ Fault
    /\ UNCHANGED <<sock, Switches, Network, calls, swallowed, stopped>>

(* catch: errorCallback needs the GIL, printing to cout does not. *)
Alert ==
    /\ ErrorCallback => GilFree
    /\ \/ Step("alert", "fallback") /\ UNCHANGED client
       \/ Step("realert", "top") /\ client' = NoClient
       \/ Step("lastalert", "unset") /\ UNCHANGED client
    /\ UNCHANGED <<sock, Switches, Network, calls, swallowed, stopped, faults>>

(* The second try block closes a client that is still there. *)
Fallback ==
    /\ \/ Step("fallback", "top") /\ client' = NoClient /\ NoFault
       \/ client # NoClient /\ Step("fallback", "realert") /\ UNCHANGED client /\ Fault
    /\ status' = [c \in Clients |-> IF c = client /\ status[c] = "open"
                                    THEN "dropped" ELSE status[c]]
    /\ UNCHANGED <<sock, Switches, accepts, calls, swallowed, stopped>>

(* closesocket(sock) resets the clients that nobody has accepted. *)
CloseSocket ==
    /\ \/ Step("closing", "unset") /\ NoFault
       \/ Step("closing", "lastalert") /\ Fault
    /\ sock' = "closed"
    /\ status' = [c \in Clients |-> IF c \in Queued THEN "dropped" ELSE status[c]]
    /\ UNCHANGED <<Switches, accepts, calls, client, swallowed, stopped>>

(* Mutant: `running` is reset before the socket is forgotten. *)
UnsetSocketLate ==
    /\ Step("unset", "end") /\ running' = FALSE
    /\ UNCHANGED <<sock, enabled, shutdown, Network, calls, client, swallowed, stopped, faults>>

UnsetSocket ==
    /\ Step("unset", "end") /\ sock' = "invalid"
    /\ UNCHANGED <<Switches, Network, calls, client, swallowed, stopped, faults>>

End ==
    /\ Step("end", "none") /\ running' = FALSE
    /\ UNCHANGED <<sock, enabled, shutdown, Network, calls, client, swallowed, stopped, faults>>

-----------------------------------------------------------------------------
Connect(c) ==
    /\ status[c] = "out" /\ sock = "listening"
    /\ Mark(c, "queued")
    /\ accepts' = IF accepts = "armed" THEN "recorded" ELSE accepts
    /\ UNCHANGED <<sock, Switches, calls, pc, client, swallowed, stopped, faults>>

CallStep == StopSet \/ StopReturn
PythonStep == Callback \/ CallbackStop \/ Alert
NativeStep ==
    \/ LoopTest \/ WaitShutdown \/ WaitClient \/ AcceptClient \/ AcceptFail
    \/ Recv \/ Send \/ Blocked \/ CloseClient \/ Fallback
    \/ CloseSocket \/ UnsetSocket \/ End
Next ==
    \/ StartFail \/ Start \/ OwnerStop \/ Destroy \/ CallStep
    \/ PythonStep \/ NativeStep
    \/ \E c \in Clients : Connect(c)

Spec == Init /\ [][Next]_vars

(* The thread is scheduled, a native call runs to its end, and CPython      *)
(* hands the GIL to a waiting thread when its holder drops it.              *)
FairSpec ==
    Spec /\ WF_vars(CallStep) /\ WF_vars(NativeStep) /\ SF_vars(PythonStep)

-----------------------------------------------------------------------------
(* Properties *)

(* A client in the queue is announced: FD_ACCEPT is recorded, or the thread *)
(* has taken it and is about to call accept() (lines 244-256), unless a     *)
(* blocked send() took it before (line 221).                                *)
QueueIsAnnounced ==
    sock = "listening" /\ Queued # {} /\ ~swallowed
        => accepts = "recorded" \/ pc = "accept"

(* One response at most is ever cut without a report (lines 213-232), and  *)
(* it is the last client's: a wait in send() ends with the shutdown event,  *)
(* which stays set, or with FD_ACCEPT, which only accept() arms again; so   *)
(* nobody is accepted any more, also after another start().                 *)
CutIsTheLast ==
    [][(\E c \in Clients : status[c] = "cut") =>
        \A c \in Clients : status'[c] = "open" => status[c] = "open"]_vars

(* The shutdown event is manual-reset and nothing resets it: once a stop()  *)
(* has returned no client is accepted any more, not even by a thread that   *)
(* another start() has created, which gave its clients a port.              *)
StoppedForGood ==
    [][stopped =>
        \A c \in Clients : status'[c] = "open" => status[c] = "open"]_vars

(* The server is destroyed only when its thread, which captured `this`, has *)
(* made its last access: `running` is reset after everything else.          *)
NoUseAfterDestroy == phase = "gone" => pc = "none"

(* Outside the receive loop no accepted client is left open.                *)
NoClientLeak ==
    pc \in {"none", "closing", "lastalert", "unset", "end", "top"} =>
        \A c \in Clients : status[c] # "open"

(* Nothing of a server is lost, whatever fails: neither the object under    *)
(* its thread nor a client's socket.                                        *)
ServerKept == TypeOK /\ NoUseAfterDestroy /\ NoClientLeak

Resolved(c) == status[c] \in {"answered", "cut", "dropped"}

(* stop() and a callback wait for each other: stop() for `running` with the *)
(* GIL, the callback for the GIL.  Nothing ends this, for lack of a limit.  *)
Deadlocked ==
    /\ call = "wait"
    /\ \/ caller = "callback" \/ pc = "callback"
       \/ ErrorCallback /\ pc \in {"alert", "realert", "lastalert"}

(* stop() comes back unless it met such a callback, whatever the thread was *)
(* doing when the event was set, a send() that is blocked included; and if  *)
(* it met one, never.                                                       *)
StopReturns ==
    /\ call = "set" ~> call = "none" \/ Deadlocked
    /\ [](Deadlocked => []Deadlocked)

(* Where no send() waits, a client in the queue is answered or dropped, or  *)
(* the server is in the deadlock.                                           *)
EveryClientResolved ==
    \A c \in Clients :
        status[c] = "queued" ~>
            Resolved(c) \/ Deadlocked \/ swallowed \/ pc = "blocked"

(* A server that is started once keeps the promise of ServerPromise: a      *)
(* response that is cut is a client disconnected, and the port is given up  *)
(* only for a stop() (lines 118-123 and 236-314).                           *)
Port == IF sock = "listening" THEN "open" ELSE "closed"
Seen(progress) == IF progress = "cut" THEN "dropped" ELSE progress
Abstract == INSTANCE ServerPromise
                WITH port <- Port, ending <- ~enabled, over <- phase \in {"stopped", "gone"},
                     status <- [c \in Clients |-> Seen(status[c])]

-----------------------------------------------------------------------------
(* Inductive invariants, proved in WinServerProofs *)

Serving == {"recv", "callback", "send", "blocked", "close", "alert", "fallback", "realert"}

(* For NoUseAfterDestroy: the owner believes the server started as long as  *)
(* the thread lives, which `running` says, and the port is open until the   *)
(* thread has closed it; a stop() by the callback never leaves it.          *)
LifeInv ==
    /\ GilFree <=> call = "none"
    /\ caller = "callback" => pc = "callback"
    /\ running <=> pc # "none"
    /\ pc # "none" => phase = "started"
    /\ sock = "listening" <=> pc \notin {"none", "lastalert", "unset", "end"}

(* For NoClientLeak: the open client is the local one, and it is closed     *)
(* before it is forgotten.                                                  *)
ClientInv ==
    /\ client # NoClient => pc \in Serving
    /\ \A c \in Clients : status[c] = "open" =>
          c = client /\ pc \in Serving \ {"close", "realert"}

(* For QueueIsAnnounced: only accept() arms FD_ACCEPT again, and whoever    *)
(* takes the event without a send() in the way goes there.                  *)
AnnounceInv ==
    /\ Queued # {} => sock = "listening"
    /\ accepts = "taken" => pc = "accept" \/ swallowed
    /\ QueueIsAnnounced

(* For StoppedForGood: stop() waits with the event set. *)
StopInv ==
    /\ call = "wait" => shutdown
    /\ stopped => shutdown /\ pc # "accept"

(* For CutIsTheLast: the thread has no way to accept() left, and a start()  *)
(* that gives it a new socket comes after a stop().                         *)
Cut == \E c \in Clients : status[c] = "cut"
CutInv == Cut => pc # "accept" /\ (shutdown \/ (accepts = "taken" /\ phase = "started"))

IInv == TypeOK /\ LifeInv /\ ClientInv /\ AnnounceInv /\ StopInv /\ CutInv

(* For the promise of a server that is started once: `enabled` is reset     *)
(* with every stop() and set only by the start(), and whoever is served has *)
(* an open connection.                                                      *)
OnceInv ==
    /\ call # "none" \/ shutdown \/ pc = "closing" \/ phase \in {"stopped", "gone"} => ~enabled
    /\ phase \in {"new", "failed"} /\ call = "none" => enabled
    /\ pc \in {"recv", "callback", "send", "blocked"} =>
          client \in Clients /\ status[client] = "open"
=============================================================================
