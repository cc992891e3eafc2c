---------------------------- MODULE Broadcaster ----------------------------
(***************************************************************************)
(* kankakee::Broadcaster: a UDP socket whose one sockaddr_in is both where *)
(* send() sends to and where recv() has the kernel write the sender        *)
(* (src/include/Broadcaster.h, on Windows src/include/WinBroadcaster.h).   *)
(*                                                                         *)
(* A program with one object calls it from one thread; the GIL is held in  *)
(* every call.  The hosts of the group, and the sockets of this machine    *)
(* that joined it, answer what they hear, with text or with an empty       *)
(* datagram, and in any order.  Datagrams of 8192 bytes and more, which    *)
(* leave buf without its terminator, are left out.                         *)
(***************************************************************************)
EXTENDS Integers, Sequences

CONSTANTS Hosts,     \* hosts of the group, elsewhere on the network
          Local,     \* members of the group on this machine
          MaxSends,  \* bound on calls of send()
          MaxFaults, \* bound on failing system calls
          Group      \* mult_addr

GroupAssumption == Group \notin Hosts \cup Local /\ Hosts \cap Local = {}
BoundsAssumption == MaxSends \in Nat /\ MaxFaults \in Nat

Peers == Hosts \cup Local
VARIABLES
    system,    \* WinBroadcaster.h or Broadcaster.h
    pc,        \* "none", "ctor", "live", "recv"
    option,    \* calls that the constructor has made after socket()
    broadcast_address, loopback, \* of the socket
    leaked,    \* descriptors that no object refers to
    asked,     \* peers that have heard something and not answered it
    inbox,     \* datagrams in the socket's buffer
    output,    \* of the recv() under way
    sends, faults,
    texts,     \* history: datagrams with text taken from the buffer
    looped,    \* history: enableLoopback(true) was called on this object
    returned,  \* history: datagrams returned to the program
    dropped    \* history: number of datagrams in the output of a recv() that threw

vars == <<system, pc, option, broadcast_address, loopback, leaked, asked, inbox, output,
          sends, faults, texts, looped, returned, dropped>>
network == <<asked, inbox>>
history == <<texts, looped, returned, dropped>>
object == <<option, broadcast_address, loopback, leaked>>

Datagram == [from : Peers, text : BOOLEAN]
Windows == system = "Windows"
Options == IF Windows THEN 4 ELSE 3 \* bind() and setsockopt() calls of the constructor

TypeOK ==
    /\ system \in {"POSIX", "Windows"}
    /\ pc \in {"none", "ctor", "live", "recv"} /\ option \in 0..Options
    /\ broadcast_address \in Peers \cup {Group} /\ loopback \in BOOLEAN
    /\ leaked \in 0..MaxFaults /\ asked \subseteq Peers
    /\ inbox \in Seq(Datagram) /\ output \in Seq(Datagram) /\ texts \in Seq(Datagram)
    /\ looped \in BOOLEAN /\ returned \in Seq(Datagram) /\ dropped \in Nat
    /\ sends \in 0..MaxSends /\ faults \in 0..MaxFaults

Init ==
    /\ system \in {"POSIX", "Windows"}
    /\ pc = "none" /\ option = 0 /\ broadcast_address = Group /\ loopback = TRUE
    /\ leaked = 0 /\ asked = {} /\ inbox = <<>> /\ output = <<>>
    /\ sends = 0 /\ faults = 0 /\ texts = <<>> /\ looped = FALSE /\ returned = <<>> /\ dropped = 0

-----------------------------------------------------------------------------
Fault == faults < MaxFaults /\ faults' = faults + 1

(* socket() succeeds. *)
Construct ==
    /\ pc = "none" /\ pc' = "ctor" /\ option' = 0 /\ loopback' = TRUE
    /\ broadcast_address' = Group /\ looped' = FALSE
    /\ UNCHANGED <<leaked, network, texts, returned, dropped, output, sends, faults>>

SocketFails == pc = "none" /\ Fault /\ UNCHANGED <<pc, object, network, history, output, sends>>

(* The last option is IP_MULTICAST_LOOP, which is switched off. *)
SetOption ==
    /\ pc = "ctor" /\ option < Options /\ option' = option + 1
    /\ loopback' = (option' < Options)
    /\ UNCHANGED <<pc, broadcast_address, leaked, network, history, output, sends, faults>>

(* error() throws out of the constructor, so the destructor never runs. *)
OptionFails ==
    /\ pc = "ctor" /\ option < Options /\ Fault
    /\ pc' = "none" /\ leaked' = leaked + 1
    /\ UNCHANGED <<option, broadcast_address, loopback, network, history, output, sends>>

Constructed ==
    /\ pc = "ctor" /\ option = Options /\ pc' = "live"
    /\ UNCHANGED <<object, network, history, output, sends, faults>>

(* The object goes, and what its socket's buffer holds goes with it. *)
Destroy ==
    /\ pc = "live" /\ pc' = "none" /\ inbox' = <<>> /\ asked' = {}
    /\ UNCHANGED <<object, history, output, sends, faults>>

-----------------------------------------------------------------------------
(* Who hears a datagram: the peer it is for, or the group.  On POSIX the   *)
(* sender's IP_MULTICAST_LOOP decides whether this machine is part of it;  *)
(* on Windows the option is one of the socket that receives, and Local,    *)
(* which are not sockets of this class, have it on as it is by default.    *)
Hear(to) ==
    IF to # Group THEN {to}
    ELSE IF Windows \/ loopback THEN Hosts \cup Local ELSE Hosts

(* Mutant: the group is what every send() goes to. *)
SendToGroup ==
    /\ pc = "live" /\ sends < MaxSends /\ sends' = sends + 1
    /\ asked' = asked \cup Hear(Group)
    /\ UNCHANGED <<pc, object, inbox, history, output, faults>>

Send ==
    /\ pc = "live" /\ sends < MaxSends /\ sends' = sends + 1
    /\ asked' = asked \cup Hear(broadcast_address)
    /\ UNCHANGED <<pc, object, inbox, history, output, faults>>

(* Reported with errorCallback on Linux and thrown on Windows: the object is as it was. *)
SendFails == pc = "live" /\ Fault /\ UNCHANGED <<pc, object, network, history, output, sends>>

EnableLoopback ==
    /\ pc = "live" /\ loopback' \in BOOLEAN /\ looped' = (looped \/ loopback')
    /\ UNCHANGED <<pc, option, broadcast_address, leaked, network, texts, returned, dropped,
                   output, sends, faults>>

Answer(p) ==
    /\ p \in asked /\ asked' = asked \ {p}
    /\ \E t \in BOOLEAN : inbox' = Append(inbox, [from |-> p, text |-> t])
    /\ UNCHANGED <<pc, object, history, output, sends, faults>>

-----------------------------------------------------------------------------
(* recv() *)

Recv ==
    /\ pc = "live" /\ pc' = "recv" /\ output' = <<>>
    /\ UNCHANGED <<object, network, history, sends, faults>>

(* recvfrom() writes the sender over broadcast_address, also that of an    *)
(* empty datagram, which ends recv() and leaves the others for the next.   *)
Take ==
    /\ inbox # <<>> /\ inbox' = Tail(inbox)
    /\ texts' = IF Head(inbox).text THEN Append(texts, Head(inbox)) ELSE texts
    /\ broadcast_address' = Head(inbox).from
    /\ UNCHANGED <<asked, option, loopback, leaked, looped, dropped, sends, faults>>

RecvText ==
    /\ pc = "recv" /\ Take /\ Head(inbox).text
    /\ output' = Append(output, Head(inbox))
    /\ UNCHANGED <<pc, returned>>

RecvEmpty ==
    /\ pc = "recv" /\ Take /\ ~Head(inbox).text
    /\ pc' = "live" /\ returned' = returned \o output
    /\ UNCHANGED output

(* Nothing for half a second: EAGAIN, WSAETIMEDOUT on Windows. *)
RecvTimeout ==
    /\ pc = "recv" /\ inbox = <<>>
    /\ pc' = "live" /\ returned' = returned \o output
    /\ UNCHANGED <<object, network, texts, looped, dropped, output, sends, faults>>

(* Mutant: an error is thrown past output on Linux too. *)
RecvFailsThrows ==
    /\ pc = "recv" /\ Fault /\ pc' = "live"
    /\ dropped' = dropped + Len(output) /\ UNCHANGED returned
    /\ UNCHANGED <<object, network, texts, looped, output, sends>>

(* Another error: on Linux alert(), and what came so far is returned; on   *)
(* Windows error() throws past output.                                     *)
RecvFails ==
    /\ pc = "recv" /\ Fault /\ pc' = "live"
    /\ IF Windows THEN dropped' = dropped + Len(output) /\ UNCHANGED returned
                  ELSE returned' = returned \o output /\ UNCHANGED dropped
    /\ UNCHANGED <<object, network, texts, looped, output, sends>>

Call == Recv \/ RecvText \/ RecvEmpty \/ RecvTimeout \/ RecvFails
Step ==
    \/ Construct \/ SocketFails \/ SetOption \/ OptionFails \/ Constructed \/ Destroy
    \/ Send \/ SendFails \/ EnableLoopback \/ Call \/ \E p \in Peers : Answer(p)
Next == Step /\ UNCHANGED system

Spec == Init /\ [][Next]_vars

-----------------------------------------------------------------------------
(* Properties *)

(* Whoever hears this object, has a datagram on the way to it or is where  *)
(* the next send() goes.                                                   *)
Senders == {inbox[i].from : i \in DOMAIN inbox}
Party == asked \cup Senders \cup {broadcast_address}

(* Once recv() has written an answer's sender over the group's address,    *)
(* the object speaks with nobody new, however calls, answers and failures  *)
(* follow: the group is never asked a second time, although send() still   *)
(* reads the member that the constructor set to mult_addr (Broadcaster.h   *)
(* lines 80, 85 and 99).                                                   *)
NobodyNewHears ==
    [][broadcast_address # Group /\ pc # "none" => Party' \subseteq Party]_vars

(* On POSIX an object on which enableLoopback(true) was never called is    *)
(* never heard on this machine, and hears nothing from it: not through the *)
(* option's default before the constructor ends, and not through an        *)
(* address that an answer left behind.  On Windows it may.                 *)
SilentWithoutLoopback == ~Windows /\ ~looped => Party \cap Local = {}

(* Every text that was taken from the socket was returned, in order and    *)
(* once, but for those of a recv() that threw on Windows: on Linux an error*)
(* after some datagrams loses none.                                        *)
NothingLostOnLinux ==
    ~Windows => texts = returned \o (IF pc = "recv" THEN output ELSE <<>>)
LostOnlyByThrowing ==
    Len(texts) = Len(returned) + dropped + (IF pc = "recv" THEN Len(output) ELSE 0)

NothingLost == TypeOK /\ NothingLostOnLinux /\ LostOnlyByThrowing

(* Who hears what send() sends, in both respects. *)
WhoHears == NobodyNewHears /\ []SilentWithoutLoopback

(* The default of the option is gone when the constructor ends, without a  *)
(* socket there is no conversation, and a descriptor is lost by a fault    *)
(* only: with these the rest is inductive.                                 *)
LoopbackIsAsked ==
    loopback => looped \/ pc = "none" \/ (pc = "ctor" /\ option < Options)
NobodyYet == pc \in {"none", "ctor"} => asked = {} /\ inbox = <<>>
LostByFault == leaked <= faults
IInv == NothingLost /\ SilentWithoutLoopback /\ LoopbackIsAsked /\ NobodyYet /\ LostByFault
=============================================================================
