------------------------------- MODULE MCHost -------------------------------
(* Instances for TLC of the classes that have no thread in common with a    *)
(* server: ClientPool and Broadcaster, on Linux and on Windows, and the     *)
(* three NetUtils.  They share no variable, so that each is checked by      *)
(* itself: `part` moves, the others stay as they start.                     *)
(*  - ClientPool: three requests and two descriptors, so that one request   *)
(*    meets an exhausted table;                                             *)
(*  - Broadcaster: a host and a socket of this machine, so that an answer   *)
(*    can change who hears the next question;                               *)
(*  - LinuxNetUtil: two interfaces, one of which may have a second address  *)
(*    without a broadcast, and routes that move between them;               *)
(*  - WinNetUtil: four adapters and a first buffer for one, so that the     *)
(*    list can outgrow every buffer;                                        *)
(*  - MacNetUtil: en1 is part of the name en10, an interface may have two   *)
(*    services, and one has no array of broadcast addresses.                *)
EXTENDS ClientPool, TLC

CONSTANTS Hosts, Members, MaxSends, MaxErrors, Group,             \* Broadcaster
          Interfaces, Within, ServiceTables, States, Routes, MaxEdits, \* MacNetUtil
          Indexes, Width, Configs, FirstSize, MaxChanges,              \* WinNetUtil
          Links, Types, InetLists, RouteTables, MaxMoves,              \* LinuxNetUtil
          None, r1, r2, r3, e1, e2, f1, f2, h1, l1,
          eth, wlan, a1, a2, b1, gw1, gw2, en1, en10, s1, s2, s3

ThreeRequests == {r1, r2, r3}
TwoFds == {f1, f2}
TwoEndpoints == {e1, e2}
Symmetric == Permutations(ThreeRequests) \cup Permutations(TwoFds)

Wide == [local |-> a1, prefixlen |-> 20, broadcast |-> b1, dynamic |-> TRUE]
Narrow == [local |-> a2, prefixlen |-> 32, broadcast |-> None, dynamic |-> FALSE]
Default(d, g, m) == [dev |-> d, gateway |-> g, metric |-> m]
Link(d, m) == [dev |-> d, gateway |-> None, metric |-> m]
TwoLinks == {eth, wlan}
TwoTypes == {<<"w", ":", "i">>, <<"w", " ", "i">>}
FourAddresses == {<<>>, <<Wide>>, <<Narrow>>, <<Wide, Narrow>>}
FourRouteTables ==
    {<<>>, <<Default(eth, gw1, 1), Link(eth, 2)>>, <<Default(wlan, gw2, 3), Link(wlan, 2)>>,
     <<Default(eth, gw1, 2), Default(wlan, gw2, None), Link(eth, 1)>>}

On(s, i) == [id |-> s, iface |-> i]
Lists == {"Address", "SubnetMask", "BroadcastAddress"}
Full == [l \in Lists |-> TRUE]
NoMask == [l \in Lists |-> l # "SubnetMask"]
PointToPoint == [l \in Lists \ {"BroadcastAddress"} |-> TRUE]
TwoInterfaces == <<en1, en10>>
OneWithinTheOther == {<<en1, en10>>}
TwoTables == {<<On(s1, en1), On(s2, en10)>>, <<On(s2, en10), On(s1, en1), On(s3, en10)>>}
ThreeStates == {Full, NoMask, PointToPoint}
NoneOrTwo ==
    {<<>>, <<[gateway |-> gw2, iface |-> en10], [gateway |-> gw1, iface |-> en1]>>}

FourIndexes == 1..4
TwoConfigs == {[ip |-> {}, mask |-> {}], [ip |-> {0, 2}, mask |-> {2, 3}]}

VARIABLES part,
          sending, option, broadcast_address, loopback, leaked, asked, inbox, output, sends,
          errors, texts, looped, returned, dropped,
          links, inet, routing, step, data, gdata, metrics, found, moves, networks,
          adapters, at, size, tries, heap, table, list, changes, broken,
          services, store, routes, function, item, adapter, result, owned, edits, seen

pool == <<addr, pc, target, sock, owner, got, ended, calls, intended, failed, faults>>
datagrams == <<sending, option, broadcast_address, loopback, leaked, asked, inbox, output, sends,
               errors, texts, looped, returned, dropped>>
linux == <<links, inet, routing, step, data, gdata, metrics, found, moves, networks>>
windows == <<adapters, at, size, tries, heap, table, list, changes, broken>>
macos == <<services, store, routes, function, item, adapter, result, owned, edits, seen>>
everything == <<part, vars, datagrams, linux, windows, macos>>

B == INSTANCE Broadcaster WITH Local <- Members, MaxFaults <- MaxErrors,
        pc <- sending, faults <- errors
L == INSTANCE LinuxNetUtil WITH Names <- Links, Addresses <- InetLists, MaxChanges <- MaxMoves,
        routes <- routing, pc <- step, result <- found, changes <- moves, seen <- networks
W == INSTANCE WinNetUtil WITH pc <- at, result <- list, failed <- broken
M == INSTANCE MacNetUtil WITH pc <- function, changes <- edits, MaxChanges <- MaxEdits

ASSUME HostAssumption ==
    /\ NoFdAssumption /\ BoundsAssumption /\ B!GroupAssumption /\ B!BoundsAssumption
    /\ L!NamesAssumption /\ L!AddressesAssumption /\ L!RoutesAssumption /\ L!TypesAssumption
    /\ W!WidthAssumption /\ W!IndexesAssumption /\ W!ConfigsAssumption /\ M!ListsAssumption

(* One initial state of a part that does not move is enough, and one        *)
(* interface of macOS that lacks a mask or a broadcast address.             *)
Begin ==
    /\ part \in {"client", "broadcaster",
                 "adapters, Linux", "adapters, Windows", "adapters, macOS"}
    /\ IF part = "client" THEN TRUE ELSE addr = e1
    /\ IF part \in {"client", "broadcaster"} THEN TRUE ELSE system = "POSIX"
    /\ IF part = "adapters, Linux" THEN TRUE
       ELSE links = {} /\ inet = [n \in {eth, wlan} |-> <<>>] /\ routing = <<>>
    /\ IF part = "adapters, Windows" THEN TRUE ELSE adapters = [x \in Indexes |-> None]
    /\ IF part = "adapters, macOS" THEN TRUE
       ELSE /\ services = <<On(s1, en1), On(s2, en10)>> /\ routes = <<>>
            /\ store = [n \in {en1, en10} |-> Full]
    /\ Init /\ B!Init /\ L!Init /\ W!Init /\ M!Init
    /\ Full \in {store[en1], store[en10]}

PartStep ==
    \/ part = "client" /\ Next /\ UNCHANGED <<part, datagrams, linux, windows, macos>>
    \/ part = "broadcaster" /\ B!Next /\ UNCHANGED <<part, pool, linux, windows, macos>>
    \/ part = "adapters, Linux" /\ L!Next /\ UNCHANGED <<part, vars, datagrams, windows, macos>>
    \/ part = "adapters, Windows" /\ W!Next /\ UNCHANGED <<part, vars, datagrams, linux, macos>>
    \/ part = "adapters, macOS" /\ M!Next /\ UNCHANGED <<part, vars, datagrams, linux, windows>>
Whole == Begin /\ [][PartStep]_everything

NothingLost == B!NothingLost
WhoHears == B!WhoHears
AdaptersAreTrue ==
    /\ part = "adapters, Linux" => L!AdaptersAreTrue
    /\ part = "adapters, Windows" => W!AdaptersAreTrue
    /\ part = "adapters, macOS" => M!AdaptersAreTrue
=============================================================================
