----------------------------- MODULE WinNetUtil -----------------------------
(***************************************************************************)
(* NetUtil::getAllAdapters() of src/include/WinNetUtil.h: two tables of    *)
(* the system are read one after the other, each into a buffer whose size  *)
(* has to be guessed, and joined by interface index.                       *)
(*                                                                         *)
(* Sizes count adapters.  An address is the set of its bits that are one:  *)
(* what getBroadcast() does to a uint32_t is set algebra.  Names, types and*)
(* the other fields that are copied from one table are left out.           *)
(***************************************************************************)
EXTENDS Integers, Sequences, FiniteSets, FiniteSetsExt, SequencesExt

CONSTANTS Indexes,    \* interface indexes, naturals
          Width,      \* bits of an address
          Configs,    \* records [ip, mask] of addresses that an adapter may have
          FirstSize,  \* adapters that WORKING_BUFFER_SIZE holds
          MaxChanges, \* bound on changes of the configuration in one call
          None

WidthAssumption == Width \in Nat \ {0} /\ FirstSize \in Nat \ {0} /\ MaxChanges \in Nat
IndexesAssumption == Indexes \subseteq Nat /\ IsFiniteSet(Indexes)

Bits == 0..Width - 1
ConfigsAssumption ==
    /\ None \notin Configs
    /\ \A c \in Configs : c.ip \subseteq Bits /\ c.mask \subseteq Bits

MaxTries == 3 \* MAX_TRIES

VARIABLES
    adapters, \* the configuration: adapters that exist, by index; None if absent
    pc,       \* "info size", "info", "addresses", "done"
    size,     \* ulOutBufLen, outBufLen
    tries,    \* Iterations
    heap,     \* buffers allocated and not freed
    table,    \* results of GetAllAdapters(): [SubnetMask, Broadcast] by index
    result,   \* index and fields of each adapter
    changes,
    failed    \* history: did a call fail for a reason of its own?

vars == <<adapters, pc, size, tries, heap, table, result, changes, failed>>

Present == {x \in Indexes : adapters[x] # None}
ListOf(set) == SetToSeq(set)

TypeOK ==
    /\ adapters \in [Indexes -> Configs \cup {None}]
    /\ pc \in {"info size", "info", "addresses", "done"}
    /\ size \in 1..Max({Cardinality(Indexes), FirstSize}) /\ tries \in 0..MaxTries
    /\ heap \subseteq {"info", "addresses"} /\ DOMAIN table \subseteq Indexes
    /\ failed \in BOOLEAN /\ changes \in 0..MaxChanges

Init ==
    /\ adapters \in [Indexes -> Configs \cup {None}]
    /\ pc = "info size" /\ size = 1 /\ tries = 0 /\ heap = {"info"} /\ table = <<>>
    /\ result = <<>> /\ changes = 0 /\ failed = FALSE

Change ==
    /\ pc # "done" /\ changes < MaxChanges /\ changes' = changes + 1
    /\ \E x \in Indexes, c \in Configs \cup {None} : adapters' = [adapters EXCEPT ![x] = c]
    /\ UNCHANGED <<pc, size, tries, heap, table, result, failed>>

-----------------------------------------------------------------------------
(* getBroadcast(): (ip & mask) | ~mask. *)
getBroadcast(ip, mask) == (ip \cap mask) \cup (Bits \ mask)

-----------------------------------------------------------------------------
(* GetAllAdapters(): GetAdaptersInfo() with room for one adapter, and again *)
(* with what it asked for.                                                  *)
InfoSize ==
    /\ pc = "info size" /\ pc' = "info"
    /\ size' = IF Cardinality(Present) > size THEN Cardinality(Present) ELSE size
    /\ UNCHANGED <<adapters, tries, heap, table, result, changes, failed>>

(* Entries without an address are left out of the table. *)
Parameters(x) ==
    [SubnetMask |-> adapters[x].mask, Broadcast |-> getBroadcast(adapters[x].ip, adapters[x].mask)]

(* The buffer is freed and the one for GetAdaptersAddresses() allocated.    *)
AddressesBuffer == heap' = {"addresses"} /\ size' = FirstSize /\ tries' = 0

Info ==
    /\ pc = "info" /\ Cardinality(Present) <= size
    /\ pc' = "addresses" /\ AddressesBuffer
    /\ table' = [x \in {y \in Present : adapters[y].ip # {}} |-> Parameters(x)]
    /\ UNCHANGED <<adapters, result, changes, failed>>

(* The call fails: no mask and no broadcast address for any adapter. *)
InfoError ==
    /\ pc = "info" /\ pc' = "addresses" /\ AddressesBuffer
    /\ UNCHANGED <<adapters, table, result, changes>>
InfoFails == InfoError /\ failed' = TRUE

(* The configuration grew since the first call, and there is no second try. *)
InfoOverflow == Cardinality(Present) > size /\ InfoError /\ UNCHANGED failed

(* ERROR_BUFFER_OVERFLOW: try again with the size that was asked for, three *)
(* times in all.                                                            *)
Overflow ==
    /\ pc = "addresses" /\ Cardinality(Present) > size
    /\ tries' = tries + 1
    /\ size' = Cardinality(Present)
    /\ IF tries' < MaxTries THEN UNCHANGED <<pc, heap>> ELSE pc' = "done" /\ heap' = {}
    /\ UNCHANGED <<adapters, table, result, changes, failed>>

(* Another error: printed, and an empty list returned. *)
AddressesFail ==
    /\ pc = "addresses" /\ pc' = "done" /\ heap' = {} /\ failed' = TRUE
    /\ UNCHANGED <<adapters, size, tries, table, result, changes>>

Join(x) == IF x \in DOMAIN table THEN table[x] ELSE [SubnetMask |-> None, Broadcast |-> None]

Built(x) == [index |-> x, ip_address |-> adapters[x].ip, joined |-> Join(x)]

Addresses ==
    /\ pc = "addresses" /\ Cardinality(Present) <= size
    /\ pc' = "done" /\ heap' = {}
    /\ result' = [i \in 1..Cardinality(Present) |-> Built(ListOf(Present)[i])]
    /\ UNCHANGED <<adapters, size, tries, table, changes, failed>>

Next ==
    \/ Change \/ InfoSize \/ Info \/ InfoFails \/ InfoOverflow \/ Overflow
    \/ AddressesFail \/ Addresses
Spec == Init /\ [][Next]_vars

-----------------------------------------------------------------------------
(* Properties *)

(* No path of the two functions keeps a buffer. *)
BuffersFreed == pc = "done" => heap = {}

(* A quiet configuration is listed in full unless a call failed, also if it *)
(* did not fit the first buffer; and it must have grown twice during the    *)
(* loop for the three tries to be used up.                                  *)
ListIsComplete ==
    pc = "done" /\ changes = 0 /\ ~failed => [i \in DOMAIN result |-> result[i].index] = ListOf(Present)
EmptyOnlyAfterThreeTries ==
    pc = "done" /\ ~failed /\ result = <<>> => Present = {} \/ changes >= MaxTries - 1

(* With a quiet configuration the broadcast address is the highest of the   *)
(* addresses that agree with the adapter's own on the bits of its mask: it  *)
(* has every bit that any of them has.                                      *)
SameNet(a, ip, mask) == a \cap mask = ip \cap mask
BroadcastIsHighest ==
    changes = 0 => \A i \in DOMAIN result :
        LET r == result[i] IN r.joined.Broadcast # None =>
            /\ SameNet(r.joined.Broadcast, r.ip_address, r.joined.SubnetMask)
            /\ \A a \in SUBSET Bits :
                  SameNet(a, r.ip_address, r.joined.SubnetMask) => a \subseteq r.joined.Broadcast

(* What the adapters say is what the machine had, and no buffer is lost.    *)
AdaptersAreTrue ==
    /\ TypeOK /\ BuffersFreed /\ ListIsComplete /\ EmptyOnlyAfterThreeTries
    /\ BroadcastIsHighest

(* Each try after the first was made in vain because the configuration had  *)
(* changed since the one before, and so was one that is yet to be.          *)
TriesInv ==
    /\ pc # "done" => result = <<>>
    /\ pc = "addresses" =>
          /\ tries < MaxTries
          /\ changes >= (IF Cardinality(Present) > size THEN tries ELSE tries - 1)

(* As long as nothing has changed, the table says of each adapter what the  *)
(* configuration does, and so does what was built from it.                  *)
TableInv ==
    changes = 0 =>
        /\ \A x \in DOMAIN table : x \in Present /\ table[x] = Parameters(x)
        /\ \A i \in DOMAIN result : \E x \in Present : result[i] = Built(x)
IInv == AdaptersAreTrue /\ TriesInv /\ TableInv
=============================================================================
