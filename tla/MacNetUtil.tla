----------------------------- MODULE MacNetUtil -----------------------------
(***************************************************************************)
(* NetUtil::getAllAdapters() of src/include/MacNetUtil.h: one interface    *)
(* after the other, a function for each field, and in each function the    *)
(* CoreFoundation references, descriptors and pipes that it takes and      *)
(* gives back.  Any call of the system may fail.                           *)
(*                                                                         *)
(* owned counts what the process has created or copied and not released,   *)
(* by kind; what a Get function returns is not owned.                      *)
(***************************************************************************)
EXTENDS Integers, Sequences, FiniteSetsExt, Functions

CONSTANTS Interfaces,    \* BSD names, in the order of SCNetworkInterfaceCopyAll()
          Within,        \* pairs <<a, b>>: the text of a is contained in that of b
          ServiceTables, \* sequences of [id, iface] that the preferences may hold
          States,        \* the arrays that the dynamic store may hold of an interface, and whether each has members
          Routes,        \* the default routes of netstat: sequences of [gateway, iface]
          MaxChanges,    \* bound on changes of the preferences in one call
          None

Names == Range(Interfaces)

(* A service has an identifier and belongs to an interface, a route leads   *)
(* to a gateway through one; one table of services is the longest.          *)
ListsAssumption ==
    /\ Interfaces \in Seq(Names) /\ MaxChanges \in Nat
    /\ \A t \in ServiceTables :
          /\ t \in Seq(Range(t))
          /\ \A i \in DOMAIN t : t[i] = [id |-> t[i].id, iface |-> t[i].iface]
    /\ \E t \in ServiceTables : \A s \in ServiceTables : Len(s) <= Len(t)
    /\ \A t \in Routes :
          /\ t \in Seq(Range(t))
          /\ \A i \in DOMAIN t : t[i] = [gateway |-> t[i].gateway, iface |-> t[i].iface]
Greps(line, name) == name = line \/ <<name, line>> \in Within
Lists == {"Address", "SubnetMask", "BroadcastAddress"}
Kinds == {"ifs", "prefs", "set", "order", "service", "services", "string",
          "store", "dhcpKey", "dhcpInfo", "dnsKey", "dnsInfo", "ipv4", "key", "fd", "pipe"}

VARIABLES services, store, routes, \* the system
          pc, item, adapter, result, owned, changes,
          seen                     \* history: service tables since the call began

system == <<services, store, routes>>
vars == <<system, pc, item, adapter, result, owned, changes, seen>>

Blank == [name |-> None, priority |-> -1, service |-> None, dhcp |-> FALSE,
          gateway |-> None, address |-> {}, dns |-> FALSE]

Init ==
    /\ services \in ServiceTables /\ store \in [Names -> States] /\ routes \in Routes
    /\ pc = (IF Interfaces = <<>> THEN "done" ELSE "priority") /\ item = 1 /\ adapter = Blank /\ result = <<>> /\ changes = 0
    /\ owned = [k \in Kinds |-> IF k = "ifs" THEN 1 ELSE 0] /\ seen = {services}

Change ==
    /\ pc \notin {"done", "crashed"} /\ changes < MaxChanges /\ changes' = changes + 1
    /\ services' \in ServiceTables /\ seen' = seen \cup {services'}
    /\ UNCHANGED <<store, routes, pc, item, adapter, result, owned>>

Name == Interfaces[item]
Goto(from, to) ==
    pc = from /\ pc' = to /\ UNCHANGED <<system, item, result, changes, seen>>

(* A function has taken and given back these, and lost as many of others.   *)
Keep(lost) == owned' = [k \in Kinds |-> owned[k] + IF k \in DOMAIN lost THEN lost[k] ELSE 0]
Nothing == Keep(<<>>)

-----------------------------------------------------------------------------
(* The place in the service order, counted from zero, of the last service   *)
(* of that name.                                                            *)
Position(name) ==
    LET all == {i \in DOMAIN services : services[i].iface = name}
    IN IF all = {} THEN -1 ELSE Max(all) - 1

(* getInterfacePriority(): each SCNetworkServiceCopy() is kept, and order,  *)
(* which a Get function returned, is released.                              *)
Priority ==
    /\ Goto("priority", "service")
    /\ \/ /\ adapter' = [Blank EXCEPT !.name = Name, !.priority = Position(Name)]
          /\ Keep([service |-> Len(services), order |-> -1])
       \/ adapter' = [Blank EXCEPT !.name = Name] /\ Nothing

(* getServiceIDForInterface(): the last service of that name, or "". *)
ServiceOf(name) ==
    LET own == {i \in DOMAIN services : services[i].iface = name}
    IN IF own = {} THEN None ELSE services[Max(own)].id

Service ==
    /\ Goto("service", "dhcp") /\ Nothing
    /\ \E id \in {ServiceOf(Name), None} : adapter' = [adapter EXCEPT !.service = id]

(* dhcpEnabled(): the string made for the key is never released.            *)
Dhcp ==
    /\ Goto("dhcp", "link")
    /\ \/ adapter.service = None /\ Nothing /\ UNCHANGED adapter
       \/ /\ adapter.service # None /\ Keep([string |-> 1])
          /\ \E found \in BOOLEAN : adapter' = [adapter EXCEPT !.dhcp = found]

(* interfaceHasLink(): the socket is closed on every path. *)
Link == Goto("link", "gateway") /\ UNCHANGED adapter /\ Nothing

(* getGateway(): "netstat -rn | grep default | grep <name>", the second     *)
(* word of what comes first, and "" where popen() fails.                    *)
FirstRoute(name) ==
    LET found == {i \in DOMAIN routes : Greps(routes[i].iface, name)}
    IN IF found = {} THEN None ELSE routes[Min(found)].gateway

Gateway ==
    /\ Goto("gateway", "ipv4") /\ Nothing
    /\ \E g \in {FirstRoute(Name), None} : adapter' = [adapter EXCEPT !.gateway = g]

(* The three .at() calls stop at the first key that is missing.             *)
Readable(lists) ==
    IF "Address" \notin lists THEN {}
    ELSE IF "SubnetMask" \notin lists THEN {"Address"}
    ELSE {"Address", "SubnetMask"} \cup (lists \cap {"BroadcastAddress"})

(* ipV4(), which may find no entry: an array that is missing from one is    *)
(* NULL, and CFArrayGetCount(NULL) ends the process; one may be empty.      *)
IpV4 ==
    /\ Nothing
    /\ \/ Goto("ipv4", "dns") /\ UNCHANGED adapter
       \/ /\ Goto("ipv4", "dns") /\ DOMAIN store[Name] = Lists
          /\ adapter' = [adapter EXCEPT !.address = Readable({l \in Lists : store[Name][l]})]
       \/ Goto("ipv4", "crashed") /\ DOMAIN store[Name] # Lists /\ UNCHANGED adapter

(* dnsForService(): the key is kept in a variable of the same name as the   *)
(* one that is released, and the string made for it is lost as well.        *)
Dns ==
    /\ Goto("dns", "push")
    /\ \/ Nothing /\ UNCHANGED adapter
       \/ /\ adapter.service # None /\ Keep([dnsKey |-> 1, string |-> 1])
          /\ \E found \in BOOLEAN : adapter' = [adapter EXCEPT !.dns = found]

Push ==
    /\ pc = "push" /\ result' = Append(result, adapter) /\ item' = item + 1
    /\ pc' = IF item = Len(Interfaces) THEN "done" ELSE "priority"
    /\ UNCHANGED <<system, adapter, owned, changes, seen>>

Next ==
    \/ Change \/ Priority \/ Service \/ Dhcp \/ Link \/ Gateway \/ IpV4 \/ Dns \/ Push
Spec == Init /\ [][Next]_vars

-----------------------------------------------------------------------------
(* Properties *)

Identifiers == UNION {{t[i].id : i \in DOMAIN t} : t \in ServiceTables}
Gateways == UNION {{t[i].gateway : i \in DOMAIN t} : t \in Routes}
Adapter == [name : Names \cup {None}, priority : Int, service : Identifiers \cup {None},
            dhcp : BOOLEAN, gateway : Gateways \cup {None}, address : SUBSET Lists,
            dns : BOOLEAN]

TypeOK ==
    /\ services \in seen /\ seen \subseteq ServiceTables
    /\ store \in [Names -> States] /\ routes \in Routes
    /\ pc \in {"priority", "service", "dhcp", "link", "gateway", "ipv4", "dns", "push",
               "done", "crashed"}
    /\ item \in Nat \ {0}
    /\ pc # "done" => item <= Len(Interfaces)
    /\ adapter \in Adapter /\ result \in Seq(Adapter) /\ Len(result) = item - 1
    /\ owned \in [Kinds -> Int]

(* What a call loses grows with the interfaces and the services and with    *)
(* nothing else; descriptors, pipes and stores are never lost, and nothing  *)
(* but the service order is released without being owned.                   *)
LongestTable == Max({Len(t) : t \in ServiceTables})
OnlyKnownLosses ==
    /\ \A k \in Kinds \ {"order"} : owned[k] >= 0
    /\ \A k \in Kinds \ {"ifs", "service", "string", "dnsKey", "order"} : owned[k] = 0
    /\ owned["string"] <= 2 * item /\ owned["dnsKey"] <= item
    /\ owned["service"] <= item * LongestTable

(* Priority and service belong to the interface, each at some moment.       *)
OfSomeMoment(a) ==
    /\ a.service # None => \E t \in seen : \E j \in DOMAIN t :
          /\ t[j] = [id |-> a.service, iface |-> a.name]
          /\ \A k \in j + 1..Len(t) : t[k].iface # a.name
    /\ a.priority # -1 => \E t \in seen :
          /\ a.priority + 1 \in DOMAIN t /\ t[a.priority + 1].iface = a.name
          /\ \A k \in a.priority + 2..Len(t) : t[k].iface # a.name
ServiceOfSomeMoment == \A i \in DOMAIN result : OfSomeMoment(result[i])

(* DHCP and DNS are those of a service: an interface without one has none.  *)
OfService(a) == a.service = None => ~a.dhcp /\ ~a.dns
NoServiceNoDhcp == \A i \in DOMAIN result : OfService(result[i])

(* A gateway is that of the interface if its name is within no other name   *)
(* that has a default route.                                                *)
OwnGateway(a) ==
    a.gateway # None /\ (\A j \in DOMAIN routes : <<a.name, routes[j].iface>> \notin Within) =>
        \E j \in DOMAIN routes : routes[j] = [gateway |-> a.gateway, iface |-> a.name]
GatewayIsOwn == \A i \in DOMAIN result : OwnGateway(result[i])

(* A mask comes with its address, a broadcast address with its mask.        *)
Nested(a) == a.address \in {{}, {"Address"}, {"Address", "SubnetMask"}, Lists}
AddressesNest == \A i \in DOMAIN result : Nested(result[i])

(* What the adapters say is what the machine had, and only what is known to *)
(* be lost is.                                                              *)
AdaptersAreTrue ==
    /\ TypeOK /\ OnlyKnownLosses /\ ServiceOfSomeMoment /\ NoServiceNoDhcp
    /\ GatewayIsOwn /\ AddressesNest

(* The adapter under way is true as far as it goes, and what the functions  *)
(* for this interface have lost is bounded by where the loop is.            *)
AsItWas(a) == OfSomeMoment(a) /\ OfService(a) /\ OwnGateway(a) /\ Nested(a)
Behind(steps) == IF pc \in steps THEN item - 1 ELSE item
AdapterInv ==
    pc \in {"service", "dhcp", "link", "gateway", "ipv4", "dns", "push"} =>
        /\ adapter.name = Name /\ AsItWas(adapter)
        /\ pc = "service" => ~adapter.dhcp /\ ~adapter.dns
LossInv ==
    /\ \A k \in Kinds \ {"order"} : owned[k] >= 0
    /\ \A k \in Kinds \ {"ifs", "service", "string", "dnsKey", "order"} : owned[k] = 0
    /\ owned["dnsKey"] <= Behind({"priority", "service", "dhcp", "link", "gateway", "ipv4", "dns", "done"})
    /\ owned["string"] <= Behind({"priority", "service", "dhcp", "done"})
          + Behind({"priority", "service", "dhcp", "link", "gateway", "ipv4", "dns", "done"})
    /\ owned["service"] <= Behind({"priority", "done"}) * LongestTable
IInv == AdaptersAreTrue /\ AdapterInv /\ LossInv
=============================================================================
