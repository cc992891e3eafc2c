---------------------------- MODULE LinuxNetUtil ----------------------------
(***************************************************************************)
(* NetUtil::getAllAdapters() of src/include/GnuNetUtil.h: three commands   *)
(* and one more for each adapter, and what is read out of their output.    *)
(* Between two commands the network may change.                            *)
(*                                                                         *)
(* The JSON that `ip -j` prints is modelled by the fields that are read;   *)
(* an `ip` that fails prints nothing, and json::parse("") throws.  Lines   *)
(* of `ip route` are sequences of tokens, as ParseIpRouteOutput() reads    *)
(* them, lines of nmcli sequences of characters.                           *)
(***************************************************************************)
EXTENDS Integers, Sequences, FiniteSets, SequencesExt, FiniteSetsExt, Folds

CONSTANTS Names,      \* interfaces
          Types,      \* device types, as sequences of characters
          Addresses,  \* sequences of inet entries that an interface may have
          RouteTables,\* sequences of routes that the kernel may have
          MaxChanges, \* bound on changes of the network in one call
          None        \* an absent JSON key, an empty string

NamesAssumption == IsFiniteSet(Names) /\ None \notin Names /\ MaxChanges \in Nat
AddressesAssumption ==
    \A a \in Addresses :
        a \in Seq(Range(a)) /\ \A i \in DOMAIN a : a[i].prefixlen \in 0..32
(* A route has a gateway or none; the kernel prints the default routes first.*)
RoutesAssumption ==
    \A t \in RouteTables :
        /\ t \in Seq(Range(t))
        /\ \A i \in DOMAIN t : t[i].dev \in Names /\ (t[i].metric = None \/ t[i].metric \in Nat)
        /\ \A i, j \in DOMAIN t : i < j /\ t[j].gateway # None => t[i].gateway # None
(* Words without blanks around them. *)
TypesAssumption ==
    \A t \in Types : t \in Seq(Range(t)) \ {<<>>} /\ t[1] # " " /\ t[Len(t)] # " "

-----------------------------------------------------------------------------
(* prefixLengthToMask(): 32 bits, the leftmost prefixLength of them set,    *)
(* written as four numbers.                                                 *)

Octet(prefixLength, shift) ==
    LET bit(b, value) == IF shift + b >= 32 - prefixLength THEN value ELSE 0
    IN  bit(7, 128) + bit(6, 64) + bit(5, 32) + bit(4, 16)
        + bit(3, 8) + bit(2, 4) + bit(1, 2) + bit(0, 1)

prefixLengthToMask(prefixLength) ==
    IF prefixLength \in 0..32 THEN [i \in 1..4 |-> Octet(prefixLength, 32 - 8 * i)] ELSE <<>>

-----------------------------------------------------------------------------
(* ParseIpRouteOutput(): the token after "dev" is the interface, the one    *)
(* after "metric" the metric; a line without either is skipped, and of the *)
(* lines of an interface the lowest metric counts.  A metric that is not a  *)
(* number reads as 0 and ends the line.                                     *)

RouteToken(line, token) ==
    CASE line.failed -> line
      [] line.expect = "dev" -> [line EXCEPT !.iface = token, !.expect = "any"]
      [] line.expect = "metric" /\ token \in Nat ->
            [line EXCEPT !.metric = token, !.expect = "any"]
      [] line.expect = "metric" /\ token \notin Nat ->
            [line EXCEPT !.metric = 0, !.failed = TRUE]
      [] line.expect = "any" /\ token \in {"dev", "metric"} -> [line EXCEPT !.expect = token]
      [] OTHER -> line

RouteLine(tokens) ==
    FoldLeft(RouteToken, [iface |-> None, metric |-> -1, expect |-> "any", failed |-> FALSE], tokens)

(* Mutant: the last line of an interface counts. *)
KeepLast(result, line) ==
    IF line.iface = None \/ line.metric < 0 THEN result
    ELSE [name \in DOMAIN result \cup {line.iface} |->
             IF name = line.iface THEN line.metric ELSE result[name]]

KeepLowest(result, line) ==
    IF line.iface = None \/ line.metric < 0 THEN result
    ELSE [name \in DOMAIN result \cup {line.iface} |->
             IF name # line.iface THEN result[name]
             ELSE IF name \notin DOMAIN result \/ line.metric < result[name] THEN line.metric
             ELSE result[name]]

ParseIpRouteOutput(lines) ==
    FoldLeft(LAMBDA result, tokens : KeepLowest(result, RouteLine(tokens)), <<>>, lines)

(* What `ip route` prints of a route. *)
Printed(route) ==
    (IF route.gateway = None THEN <<"link">> ELSE <<"default", "via", "gateway">>)
    \o <<"dev", route.dev>> \o (IF route.metric = None THEN <<>> ELSE <<"metric", route.metric>>)

-----------------------------------------------------------------------------
(* parseNMCLI(): up to the first colon the key, behind it the value, both   *)
(* trimmed; a line without a colon, or with nothing before it, is skipped.  *)

trim(s) ==
    LET ink == {i \in DOMAIN s : s[i] # " "}
    IN IF ink = {} THEN <<>> ELSE SubSeq(s, Min(ink), Max(ink))

ParseLine(line) ==
    LET colons == {i \in DOMAIN line : line[i] = ":"}
    IN IF colons = {} \/ Min(colons \cup {Len(line)}) = 1 THEN <<>>
       ELSE <<trim(SubSeq(line, 1, Min(colons) - 1)), trim(SubSeq(line, Min(colons) + 1, Len(line)))>>

-----------------------------------------------------------------------------
(* The call, and the network it looks at *)

VARIABLES
    links,    \* interfaces that exist
    inet,     \* their inet entries: [local, prefixlen, broadcast, dynamic]
    routes,   \* the routing table: [dev, gateway, metric]
    pc,       \* "ip addr", "default", "ip route", "nmcli", "done", "thrown"
    data, gdata, metrics, \* what the three commands gave
    result,   \* adapters so far (printed: history, what nmcli wrote)
    changes,
    seen      \* history: the networks there were since the call began

network == <<links, inet, routes>>
call == <<pc, data, gdata, metrics, result>>
vars == <<network, call, changes, seen>>
Network == [links |-> links, inet |-> inet, routes |-> routes]

TypeOK ==
    /\ links \subseteq Names /\ inet \in [Names -> Addresses] /\ routes \in RouteTables
    /\ pc \in {"ip addr", "default", "ip route", "nmcli", "done", "thrown"}
    /\ DOMAIN metrics \subseteq Names /\ Len(result) <= Len(data) /\ Len(data) <= Cardinality(Names)

Init ==
    /\ links \in SUBSET Names /\ inet \in [Names -> Addresses] /\ routes \in RouteTables
    /\ pc = "ip addr" /\ data = <<>> /\ gdata = <<>> /\ metrics = <<>> /\ result = <<>>
    /\ changes = 0 /\ seen = {Network}

(* A link comes or goes, an address or a route changes. *)
Change ==
    /\ pc \notin {"done", "thrown"} /\ changes < MaxChanges /\ changes' = changes + 1
    /\ \/ \E n \in Names : links' = (links \ {n}) \cup ({n} \ links)
          /\ UNCHANGED <<inet, routes>>
       \/ \E n \in Names, a \in Addresses : inet' = [inet EXCEPT ![n] = a]
          /\ UNCHANGED <<links, routes>>
       \/ routes' \in RouteTables /\ UNCHANGED <<links, inet>>
    /\ seen' = seen \cup {Network'} /\ UNCHANGED call

Command(from, to) == pc = from /\ pc' = to /\ UNCHANGED <<network, changes, seen>>

(* What a network prints for the three commands.                            *)
InOrder(net) == SetToSeq(net.links)
Listed(net) ==
    [i \in DOMAIN InOrder(net) |->
        [ifname |-> InOrder(net)[i], addr_info |-> net.inet[InOrder(net)[i]]]]
Defaults(net) ==
    [i \in {j \in DOMAIN net.routes : net.routes[j].gateway # None} |-> net.routes[i]]
Metrics(net) == ParseIpRouteOutput([i \in DOMAIN net.routes |-> Printed(net.routes[i])])

(* "ip -j addr" *)
IpAddr ==
    /\ Command("ip addr", "default")
    /\ data' = Listed(Network)
    /\ UNCHANGED <<gdata, metrics, result>>

(* "ip -j route show default" *)
IpDefault ==
    /\ Command("default", "ip route")
    /\ gdata' = Defaults(Network)
    /\ UNCHANGED <<data, metrics, result>>

(* parse_error of an empty output of `ip -j`, or popen() fails: the        *)
(* exception leaves getAllAdapters().                                       *)
Fails ==
    /\ \E from \in {"ip addr", "default", "ip route", "nmcli"} : Command(from, "thrown")
    /\ UNCHANGED <<data, gdata, metrics, result>>

(* "ip route"; no output is no metric. *)
IpRoute ==
    /\ Command("ip route", "nmcli")
    /\ metrics' \in {Metrics(Network), <<>>}
    /\ UNCHANGED <<data, gdata, result>>

(* One inet entry: the fields it has replace those of the one before.       *)
ReadAddress(adapter, addr) ==
    [adapter EXCEPT !.ip_address = addr.local, !.netmask = prefixLengthToMask(addr.prefixlen),
                    !.broadcast = IF addr.broadcast = None THEN @ ELSE addr.broadcast,
                    !.dhcp = {addr.dynamic}]

(* `dhcp` is not initialized: without an inet entry it may be either.       *)
Blank == [ip_address |-> None, netmask |-> <<>>, broadcast |-> None, dhcp |-> BOOLEAN]
Address(infos) == FoldLeft(ReadAddress, Blank, infos)

Gateway(name, defaults) ==
    FoldLeft(LAMBDA gateway, g : IF g.dev = name THEN g.gateway ELSE gateway, None, defaults)
Priority(name, lowest) == IF name \in DOMAIN lowest THEN lowest[name] ELSE -1

(* What "nmcli device show" prints of a field. *)
NmcliLine(key, value, pad) == key \o <<":">> \o pad \o value \o pad
TypeKey == <<"G", ".", "T">>

(* "nmcli device show <name>" for the next of data: the type is there if    *)
(* NetworkManager runs and the link still exists.                           *)
NextAdapter ==
    /\ Command("nmcli", "nmcli") /\ Len(result) < Len(data)
    /\ LET x == data[Len(result) + 1] IN
       \E type \in (IF x.ifname \in links THEN Types ELSE {}) \cup {None}, pad \in {<<>>, <<" ">>} :
         LET field == IF type = None THEN <<>> ELSE ParseLine(NmcliLine(TypeKey, type, pad)) IN
          result' = Append(result,
              [name |-> x.ifname, gateway |-> Gateway(x.ifname, gdata),
               priority |-> Priority(x.ifname, metrics), address |-> Address(x.addr_info),
               type |-> IF field # <<>> /\ field[1] = TypeKey THEN field[2] ELSE None,
               printed |-> type])
    /\ UNCHANGED <<data, gdata, metrics>>

Return ==
    /\ Command("nmcli", "done") /\ Len(result) = Len(data)
    /\ UNCHANGED <<data, gdata, metrics, result>>

Next == Change \/ IpAddr \/ IpDefault \/ Fails \/ IpRoute \/ NextAdapter \/ Return
Spec == Init /\ [][Next]_vars

-----------------------------------------------------------------------------
(* Properties *)

(* What a network says of an adapter, written without the program's loops.  *)
LastOf(s) == s[Len(s)]
MaskOf(n) == [i \in 1..4 |-> 256 - 2^(8 - Min({8, Max({0, n - 8 * (i - 1)})}))]
AddressIn(net, name) ==
    LET all == net.inet[name]
        wide == {i \in DOMAIN all : all[i].broadcast # None}
    IN IF all = <<>> THEN Blank
       ELSE [ip_address |-> LastOf(all).local, netmask |-> MaskOf(LastOf(all).prefixlen),
             broadcast |-> IF wide = {} THEN None ELSE all[Max(wide)].broadcast,
             dhcp |-> {LastOf(all).dynamic}]
GatewayIn(net, name) ==
    LET own == {i \in DOMAIN net.routes :
                   net.routes[i].dev = name /\ net.routes[i].gateway # None}
    IN IF own = {} THEN None ELSE net.routes[Max(own)].gateway
PriorityIn(net, name) ==
    LET own == {net.routes[i].metric : i \in {j \in DOMAIN net.routes :
                   net.routes[j].dev = name /\ net.routes[j].metric # None}}
    IN IF own = {} THEN -1 ELSE Min(own)

(* All names and addresses of a result are those of one moment of the call, *)
(* one adapter for each link of that moment and in the kernel's order.      *)
AddressesOfOneMoment ==
    pc = "done" => \E net \in seen :
        /\ [i \in DOMAIN result |-> result[i].name] = InOrder(net)
        /\ \A i \in DOMAIN result : result[i].address = AddressIn(net, result[i].name)

(* Each gateway is one that its adapter had at some moment of the call.     *)
GatewayOfSomeMoment ==
    \A i \in DOMAIN result : \E net \in seen : result[i].gateway = GatewayIn(net, result[i].name)

(* A priority is the lowest metric of the adapter's routes at some moment,  *)
(* or -1 where `ip route` had no answer.                                    *)
PriorityOfSomeMoment ==
    \A i \in DOMAIN result :
        \/ metrics = <<>> /\ result[i].priority = -1
        \/ \E net \in seen : result[i].priority = PriorityIn(net, result[i].name)

(* The type is the one that nmcli printed, colons in it and blanks around   *)
(* it notwithstanding (the regex and trim(), lines 106-131).                *)
TypeIsPrinted == \A i \in DOMAIN result : result[i].type = result[i].printed

(* How the list comes together while the network changes: names and         *)
(* addresses are what one network printed, gateways what a second one did,  *)
(* priorities what a third did or nobody, in a list of the length and order *)
(* of the first.                                                            *)
Joined(a, listed, defaults, lowest) ==
    /\ a.name = listed.ifname /\ a.address = Address(listed.addr_info)
    /\ a.gateway = Gateway(a.name, defaults) /\ a.priority = Priority(a.name, lowest)
ListOfThreeMoments ==
    pc = "done" =>
        \E one, two, three \in seen : \E lowest \in {Metrics(three), <<>>} :
            /\ Len(result) = Len(Listed(one))
            /\ \A i \in DOMAIN result : Joined(result[i], Listed(one)[i], Defaults(two), lowest)

(* What the adapters say is what the machine had. *)
AdaptersAreTrue ==
    /\ TypeOK /\ AddressesOfOneMoment /\ GatewayOfSomeMoment
    /\ PriorityOfSomeMoment /\ TypeIsPrinted /\ ListOfThreeMoments

(* What each command that has run gave, and what has been made of it: with  *)
(* the types this is inductive, and what it says of the networks that were  *)
(* asked is what AdaptersAreTrue says of the list.                          *)
Networks == [links : SUBSET Names, inet : [Names -> Addresses], routes : RouteTables]
MomentsInv ==
    /\ Network \in seen /\ seen \subseteq Networks
    /\ pc \in {"default", "ip route", "nmcli", "done"} \/ result # <<>> =>
          \E net \in seen : data = Listed(net)
    /\ pc \in {"ip route", "nmcli", "done"} \/ result # <<>> =>
          \E net \in seen : gdata = Defaults(net)
    /\ pc \in {"nmcli", "done"} \/ result # <<>> =>
          \E net \in seen : metrics \in {Metrics(net), <<>>}
ResultInv ==
    /\ result \in Seq(Range(result))
    /\ pc \in {"ip addr", "default", "ip route"} => result = <<>>
    /\ \A i \in DOMAIN result : Joined(result[i], data[i], gdata, metrics)
    /\ pc = "done" => Len(result) = Len(data)
IInv == TypeOK /\ MomentsInv /\ ResultInv /\ TypeIsPrinted
=============================================================================
