------------------------- MODULE SubscriptionsProofs -------------------------
(* Proofs about Subscriptions, for any number of topics, subscriptions,     *)
(* keys and failing requests.                                               *)
EXTENDS Subscriptions, FiniteSetTheorems, SequenceTheorems, TLAPS

(* A set of subscriptions is finite. *)
LEMMA IdsFinite ==
    ASSUME BoundsAssumption, NEW S \in SUBSET Ids
    PROVE  IsFiniteSet(S) /\ Cardinality(S) \in 0..MaxIds
  <1>1. IsFiniteSet(Ids) /\ Cardinality(Ids) = MaxIds
    BY FS_Interval DEF Ids, BoundsAssumption
  <1>2. IsFiniteSet(S) /\ Cardinality(S) <= Cardinality(Ids)
    BY <1>1, FS_Subset
  <1>3. Cardinality(S) \in Nat
    BY <1>2, FS_CardinalityType
  <1>4. QED
    BY <1>1, <1>2, <1>3 DEF BoundsAssumption

LEMMA NotMore ==
    ASSUME BoundsAssumption, NEW S \in SUBSET Ids, NEW T \in SUBSET S
    PROVE  Cardinality(T) <= Cardinality(S)
  BY IdsFinite, FS_Subset

LEMMA OneMore ==
    ASSUME BoundsAssumption, NEW S \in SUBSET Ids, NEW n \in Ids, NEW T \in SUBSET (S \cup {n})
    PROVE  Cardinality(T) <= Cardinality(S) + 1
  <1>1. IsFiniteSet(S) /\ Cardinality(S) \in Nat
    BY IdsFinite
  <1>2. Cardinality(S \cup {n}) <= Cardinality(S) + 1 /\ S \cup {n} \in SUBSET Ids
    BY <1>1, FS_AddElement
  <1>3. Cardinality(T) <= Cardinality(S \cup {n})
    BY <1>2, NotMore, Zenon
  <1>4. Cardinality(T) \in Nat /\ Cardinality(S \cup {n}) \in Nat
    BY <1>2, IdsFinite
  <1>5. QED
    BY <1>1, <1>2, <1>3, <1>4

(* A chain that moves on to another subscription is still one. *)
LEMMA OneForAnother ==
    ASSUME BoundsAssumption, NEW S \in SUBSET Ids, NEW n \in S, NEW h \in Ids,
           NEW T \in SUBSET ((S \ {n}) \cup {h})
    PROVE  Cardinality(T) <= Cardinality(S)
  <1>1. IsFiniteSet(S) /\ Cardinality(S) \in Nat
    BY IdsFinite
  <1>2. Cardinality(S \ {n}) = Cardinality(S) - 1
    BY <1>1, FS_RemoveElement
  <1>3. Cardinality(T) <= Cardinality(S \ {n}) + 1
    BY OneMore
  <1>4. Cardinality(T) \in Nat
    BY IdsFinite
  <1>5. QED
    BY <1>1, <1>2, <1>3, <1>4

(* The images of a set are not more than its elements. *)
LEMMA Images ==
    ASSUME BoundsAssumption, NEW S \in SUBSET Ids, NEW f \in [S -> Ids], NEW T \in SUBSET Ids,
           \A t \in T : \E s \in S : f[s] = t
    PROVE  Cardinality(T) <= Cardinality(S)
  <1> DEFINE U == {f[s] : s \in S}
  <1>1. f \in Surjection(S, U)
    BY DEF Surjection
  <1>2. U \in SUBSET Ids /\ T \in SUBSET U
    OBVIOUS
  <1>3. IsFiniteSet(S)
    BY IdsFinite
  <1> HIDE DEF U
  <1>4. Cardinality(U) <= Cardinality(S)
    BY <1>1, <1>3, FS_Surjection
  <1>5. Cardinality(T) <= Cardinality(U)
    BY <1>2, NotMore
  <1>6. Cardinality(T) \in Nat /\ Cardinality(U) \in Nat /\ Cardinality(S) \in Nat
    BY <1>2, IdsFinite
  <1>7. QED
    BY <1>4, <1>5, <1>6

(* A list without repetitions is no longer than there are subscriptions.    *)
LEMMA RefsLength ==
    ASSUME BoundsAssumption, TypeOK, RecordedOnce
    PROVE  Len(refs) \in 0..MaxIds
  <1>1. Len(refs) \in Nat /\ made \in 0..MaxIds /\ refs \in [1..Len(refs) -> 1..made]
    BY DEF TypeOK
  <1>2. IsFiniteSet(1..made) /\ Cardinality(1..made) = made
    BY <1>1, FS_Interval DEF BoundsAssumption
  <1>3. IsFiniteSet(1..Len(refs)) /\ Cardinality(1..Len(refs)) = Len(refs)
    <2>1. \A k \in Nat : IsFiniteSet(1..k) /\ Cardinality(1..k) = k
      BY FS_Interval
    <2>2. QED
      BY <1>1, <2>1, Zenon
  <1>4. ~(made < Len(refs))
    <2> SUFFICES ASSUME made < Len(refs) PROVE FALSE
      OBVIOUS
    <2>1. \E i, j \in 1..Len(refs) : i # j /\ refs[i] = refs[j]
      BY <1>1, <1>2, <1>3, FS_PigeonHole
    <2>2. QED
      BY <2>1 DEF RecordedOnce
  <1>5. QED
    BY <1>1, <1>4 DEF BoundsAssumption

(* append() keeps what is recorded and adds one. *)
LEMMA Appended ==
    ASSUME TypeOK, NEW n \in 1..made, refs' = Append(refs, n)
    PROVE  /\ Len(refs) \in Nat /\ Len(refs') = Len(refs) + 1
           /\ refs' \in Seq(1..made) /\ refs' # <<>>
           /\ \A i \in 1..Len(refs) : refs'[i] = refs[i]
           /\ refs'[Len(refs) + 1] = n
  <1>1. refs \in Seq(1..made) /\ Len(refs) \in Nat
    BY DEF TypeOK
  <1>2. refs' \in Seq(1..made) /\ Len(refs') = Len(refs) + 1
    BY <1>1
  <1>3. \A i \in 1..Len(refs) : refs'[i] = refs[i]
    BY <1>1
  <1>4. refs'[Len(refs) + 1] = n
    BY <1>1
  <1>5. refs' # <<>>
    BY <1>1, <1>2
  <1>6. QED
    BY <1>1, <1>2, <1>3, <1>4, <1>5

LEMMA AppendedRecorded ==
    ASSUME TypeOK, NEW n \in 1..made, refs' = Append(refs, n), NEW x
    PROVE  Recorded(x)' <=> Recorded(x) \/ x = n
  <1>1. /\ Len(refs) \in Nat /\ Len(refs') = Len(refs) + 1
        /\ \A i \in 1..Len(refs) : refs'[i] = refs[i]
        /\ refs'[Len(refs) + 1] = n
    BY Appended
  <1>2. \A i : i \in 1..Len(refs') <=> i \in 1..Len(refs) \/ i = Len(refs) + 1
    BY <1>1
  <1>3. QED
    BY <1>1, <1>2, Zenon DEF Recorded

(* A new subscription has a number of its own. *)
LEMMA Accepted ==
    ASSUME BoundsAssumption, TypeOK, Accepts
    PROVE  /\ made \in Nat /\ made' = made + 1 /\ made' \in 0..MaxIds
           /\ active' \subseteq 1..made' /\ refs \in Seq(1..made')
           /\ heir \in [Ids -> 0..made'] /\ own \in 0..made'
           /\ ~Recorded(made') /\ \A w \in Ids : heir[w] # made'
  <1>1. made \in Nat /\ made' = made + 1 /\ made' \in 0..MaxIds /\ 1..made \subseteq 1..made'
    BY DEF TypeOK, Accepts, BoundsAssumption
  <1>2. refs \in Seq(1..made')
    BY <1>1, SeqMonotonic DEF TypeOK
  <1>3. ~Recorded(made')
    BY <1>1 DEF TypeOK, Recorded
  <1>4. active' \subseteq 1..made'
    BY <1>1 DEF TypeOK, Accepts
  <1>5. QED
    BY <1>1, <1>2, <1>3, <1>4 DEF TypeOK

(* Every variable stays in its type under every step; the loop of           *)
(* unsubscribe_events() ends because nothing is recorded twice.             *)
LEMMA TypeStep ==
    BoundsAssumption /\ TypeOK /\ RecordedOnce /\ FreshInv /\ PlanInv /\ [Next]_vars => TypeOK'
  <1> SUFFICES ASSUME BoundsAssumption, TypeOK, RecordedOnce, FreshInv, PlanInv, [Next]_vars
               PROVE TypeOK'
    OBVIOUS
  <1> USE DEF TypeOK, BoundsAssumption, camera, ui, Fault, NoFault
  <1>1. CASE Key
    <2>1. Cardinality(Busy) \in 0..MaxIds
      BY IdsFinite DEF Busy
    <2>2. QED
      BY <1>1, <2>1 DEF Key
  <1>2. CASE UnsubscribeOne
    <2>1. at' \in 1..MaxIds + 1
      BY <1>2, RefsLength DEF UnsubscribeOne
    <2>2. timer' \in [Ids -> {"none", "running", "fired", "stopped"}]
      BY <1>2 DEF UnsubscribeOne, Set
    <2>3. active' \subseteq 1..made
      <3>1. active' \subseteq active
        BY <1>2, Zenon DEF UnsubscribeOne
      <3>2. QED
        BY <3>1, Zenon
    <2>4. faults' \in 0..MaxFaults
      BY <1>2 DEF UnsubscribeOne
    <2>5. QED
      BY <1>2, <2>1, <2>2, <2>3, <2>4, Zenon DEF UnsubscribeOne
  <1>3. CASE UnsubscribeEnd
    BY <1>3, Zenon DEF UnsubscribeEnd
  <1>4. CASE Clear
    <2>1. refs' \in Seq(1..made)
      BY <1>4, EmptySeq, Zenon DEF Clear
    <2>2. main' \in {"idle", "stop", "clear", "subscribe", "record"}
      BY <1>4, Zenon DEF Clear
    <2>3. QED
      BY <1>4, <2>1, <2>2, Zenon DEF Clear
  <1>5. CASE Subscribe
    <2>1. plan' \in 0..MaxTopics /\ faults' \in 0..MaxFaults
      BY <1>5 DEF Subscribe, NextTopic, AbandonKey, PlanInv
    <2>2. main' \in {"idle", "stop", "clear", "subscribe", "record"}
      BY <1>5, Zenon DEF Subscribe, NextTopic, AbandonKey
    <2>3. CASE Accepts /\ own' = made'
      <3>1. own' \in 0..made'
        BY <2>3, Accepted
      <3>2. QED
        BY <1>5, <2>1, <2>2, <2>3, <3>1, Accepted, Zenon DEF Subscribe
    <2>4. CASE UNCHANGED <<camera, own>>
      BY <1>5, <2>1, <2>2, <2>4, Zenon DEF Subscribe
    <2>5. QED
      BY <1>5, <2>3, <2>4, Zenon DEF Subscribe
  <1>6. CASE Record
    <2>1. plan' \in 0..MaxTopics
      BY <1>6 DEF Record, NextTopic, PlanInv
    <2>2. refs' \in Seq(1..made)
      <3>1. own \in 1..made
        BY <1>6 DEF Record, FreshInv
      <3>2. CASE refs' = Append(refs, own)
        BY <3>1, <3>2, Appended, Zenon
      <3>3. CASE refs' = refs
        BY <3>3, Zenon
      <3>4. QED
        BY <1>6, <3>2, <3>3, Zenon DEF Record
    <2>3. timer' \in [Ids -> {"none", "running", "fired", "stopped"}]
      BY <1>6 DEF Record, Set
    <2>4. own' \in 0..made
      BY <1>6 DEF Record, NoId
    <2>5. QED
      BY <1>6, <2>1, <2>2, <2>3, <2>4, Zenon DEF Record, NextTopic
  <1>7. ASSUME NEW n \in Ids, Fire(n) PROVE TypeOK'
    <2>1. timer' \in [Ids -> {"none", "running", "fired", "stopped"}]
      BY <1>7 DEF Fire, Set
    <2>2. worker' \in [Ids -> {"none", "post", "count", "call", "append"}]
      BY <1>7 DEF Fire, Work
    <2>3. QED
      BY <1>7, <2>1, <2>2, Zenon DEF Fire
  <1>8. ASSUME NEW n \in Ids, WorkerSubscribe(n) PROVE TypeOK'
    <2>1. worker' \in [Ids -> {"none", "post", "count", "call", "append"}]
      BY <1>8 DEF WorkerSubscribe, Work
    <2>2. faults' \in 0..MaxFaults
      BY <1>8 DEF WorkerSubscribe
    <2>3. CASE Accepts /\ heir' = [heir EXCEPT ![n] = made']
      <3>1. heir' \in [Ids -> 0..made']
        BY <2>3, Accepted
      <3>2. QED
        BY <1>8, <2>1, <2>2, <2>3, <3>1, Accepted, Zenon DEF WorkerSubscribe
    <2>4. CASE UNCHANGED <<camera, heir>>
      BY <1>8, <2>1, <2>2, <2>4, Zenon DEF WorkerSubscribe
    <2>5. QED
      BY <1>8, <2>3, <2>4, Zenon DEF WorkerSubscribe
  <1>9. ASSUME NEW n \in Ids, WorkerCount(n) \/ Schedule(n) PROVE TypeOK'
    BY <1>9 DEF WorkerCount, Schedule, Work, Set
  <1>10. ASSUME NEW n \in Ids, WorkerAppend(n) PROVE TypeOK'
    <2>1. refs' \in Seq(1..made)
      BY <1>10 DEF WorkerAppend, Work, FreshInv, Recording
    <2>2. QED
      BY <1>10, <2>1 DEF WorkerAppend, Work
  <1>11. ASSUME NEW n \in Ids, Expire(n) PROVE TypeOK'
    BY <1>11 DEF Expire
  <1>12. CASE UNCHANGED vars
    BY <1>12 DEF vars
  <1>13. QED
    BY <1>1, <1>2, <1>3, <1>4, <1>5, <1>6, <1>7, <1>8, <1>9, <1>10, <1>11, <1>12
       DEF Next, MainStep, WorkerStep

(* The list changes in three places only. *)
LEMMA RefsChange ==
    [Next]_vars => \/ refs' = refs
                   \/ Clear
                   \/ Record /\ refs' = Append(refs, own)
                   \/ \E n \in Ids : WorkerAppend(n)
  <1> SUFFICES ASSUME [Next]_vars
               PROVE  \/ refs' = refs
                      \/ Clear
                      \/ Record /\ refs' = Append(refs, own)
                      \/ \E n \in Ids : WorkerAppend(n)
    OBVIOUS
  <1>1. CASE MainStep
    BY <1>1, Zenon DEF MainStep, Key, UnsubscribeOne, UnsubscribeEnd, Subscribe, Record
  <1>2. ASSUME NEW n \in Ids, WorkerStep(n) \/ Expire(n) PROVE refs' = refs \/ WorkerAppend(n)
    BY <1>2, Zenon DEF WorkerStep, Fire, WorkerSubscribe, WorkerCount, Schedule, Expire
  <1>3. CASE UNCHANGED vars
    BY <1>3 DEF vars
  <1>4. QED
    BY <1>1, <1>2, <1>3, Zenon DEF Next

(* What is appended was not in the list. *)
LEMMA RecordedOnceStep ==
    TypeOK /\ FreshInv /\ RecordedOnce /\ [Next]_vars => RecordedOnce'
  <1> SUFFICES ASSUME TypeOK, FreshInv, RecordedOnce, [Next]_vars PROVE RecordedOnce'
    OBVIOUS
  <1>1. ASSUME NEW n \in 1..made, ~Recorded(n), refs' = Append(refs, n) PROVE RecordedOnce'
    <2>1. /\ Len(refs) \in Nat /\ Len(refs') = Len(refs) + 1
          /\ \A i \in 1..Len(refs) : refs'[i] = refs[i]
          /\ refs'[Len(refs) + 1] = n
      BY <1>1, Appended
    <2>2. QED
      BY <1>1, <2>1 DEF RecordedOnce, Recorded
  <1>2. CASE refs' = refs
    BY <1>2 DEF RecordedOnce
  <1>3. CASE Clear
    BY <1>3 DEF Clear, RecordedOnce
  <1>4. CASE Record /\ refs' = Append(refs, own)
    <2>1. own \in 1..made /\ ~Recorded(own)
      BY <1>4 DEF Record, FreshInv, TypeOK
    <2>2. QED
      BY <1>1, <1>4, <2>1
  <1>5. ASSUME NEW n \in Ids, WorkerAppend(n) PROVE RecordedOnce'
    <2>1. heir[n] \in 1..made /\ ~Recorded(heir[n]) /\ refs' = Append(refs, heir[n])
      BY <1>5 DEF WorkerAppend, Work, FreshInv, Recording, TypeOK
    <2>2. QED
      BY <1>1, <2>1
  <1>6. QED
    BY <1>2, <1>3, <1>4, <1>5, RefsChange

(* The main thread counts down what the key asked for. *)
LEMMA PlanStep == BoundsAssumption /\ TypeOK /\ PlanInv /\ [Next]_vars => PlanInv'
  <1> SUFFICES ASSUME BoundsAssumption, TypeOK, PlanInv, [Next]_vars PROVE PlanInv'
    OBVIOUS
  <1> USE DEF PlanInv, ui
  <1>1. CASE Key
    BY <1>1 DEF Key
  <1>2. CASE UnsubscribeOne \/ UnsubscribeEnd
    BY <1>2 DEF UnsubscribeOne, UnsubscribeEnd
  <1>3. CASE Clear
    BY <1>3 DEF Clear, TypeOK, BoundsAssumption
  <1>4. CASE Subscribe
    BY <1>4 DEF Subscribe, NextTopic, AbandonKey, TypeOK, BoundsAssumption
  <1>5. CASE Record
    BY <1>5 DEF Record, NextTopic, TypeOK, BoundsAssumption
  <1>6. ASSUME NEW n \in Ids, WorkerStep(n) \/ Expire(n) PROVE PlanInv'
    <2>1. UNCHANGED ui
      BY <1>6, Zenon
         DEF WorkerStep, Fire, WorkerSubscribe, WorkerCount, Schedule, WorkerAppend, Expire
    <2>2. QED
      BY <2>1
  <1>7. CASE UNCHANGED vars
    BY <1>7 DEF vars
  <1>8. QED
    BY <1>1, <1>2, <1>3, <1>4, <1>5, <1>6, <1>7 DEF Next, MainStep

(* Only the thread that has subscribed records what it has.                 *)
LEMMA FreshStep ==
    BoundsAssumption /\ TypeOK /\ FreshInv /\ [Next]_vars => FreshInv'
  <1> SUFFICES ASSUME BoundsAssumption, TypeOK, FreshInv, [Next]_vars PROVE FreshInv'
    OBVIOUS
  <1> USE DEF FreshInv, Recording, camera, ui
  <1>1. CASE Key \/ UnsubscribeOne \/ UnsubscribeEnd
    BY <1>1 DEF Key, UnsubscribeOne, UnsubscribeEnd, Recorded
  <1>2. CASE Clear
    BY <1>2 DEF Clear, Recorded
  <1>3. CASE Subscribe
    <2>1. CASE Accepts /\ own' = made'
      BY <1>3, <2>1, Accepted DEF Subscribe, Recorded
    <2>2. CASE main' # "record" /\ UNCHANGED own
      BY <1>3, <2>2 DEF Subscribe, Recorded
    <2>3. QED
      BY <1>3, <2>1, <2>2 DEF Subscribe, NextTopic, AbandonKey
  <1>4. CASE Record
    <2>1. main' # "record" /\ main = "record" /\ UNCHANGED <<worker, heir>>
      BY <1>4 DEF Record, NextTopic
    <2>2. own \in 1..made
      BY <2>1 DEF TypeOK
    <2>3. ASSUME NEW n PROVE Recorded(n)' => Recorded(n) \/ n = own
      <3>1. CASE refs' = Append(refs, own)
        BY <2>2, <3>1, AppendedRecorded
      <3>2. CASE refs' = refs
        BY <3>2 DEF Recorded
      <3>3. QED
        BY <1>4, <3>1, <3>2 DEF Record
    <2>4. QED
      BY <2>1, <2>3
  <1>5. ASSUME NEW n \in Ids, Fire(n) PROVE FreshInv'
    BY <1>5 DEF Fire, Work, Set, Recorded, TypeOK
  <1>6. ASSUME NEW n \in Ids, WorkerSubscribe(n) PROVE FreshInv'
    <2>1. CASE Accepts /\ heir' = [heir EXCEPT ![n] = made'] /\ Work(n, "post", "count")
      <3>1. made' > 0 /\ ~Recorded(made') /\ \A w \in Ids : heir[w] # made'
        BY <2>1, Accepted
      <3>2. main = "record" => made' # own
        BY <2>1, Accepted DEF TypeOK
      <3>3. \A w \in Ids : /\ worker'[w] = IF w = n THEN "count" ELSE worker[w]
                           /\ heir'[w] = IF w = n THEN made' ELSE heir[w]
        BY <2>1 DEF Work, TypeOK
      <3>4. \A m : Recorded(m)' <=> Recorded(m)
        BY <1>6 DEF WorkerSubscribe, Recorded
      <3>5. UNCHANGED <<main, own>>
        BY <1>6 DEF WorkerSubscribe
      <3>6. QED
        BY <3>1, <3>2, <3>3, <3>4, <3>5
    <2>2. CASE UNCHANGED <<camera, heir>> /\ Work(n, "post", "none")
      BY <1>6, <2>2 DEF WorkerSubscribe, Work, Recorded, TypeOK
    <2>3. QED
      BY <1>6, <2>1, <2>2 DEF WorkerSubscribe
  <1>7. ASSUME NEW n \in Ids, WorkerCount(n) \/ Schedule(n) PROVE FreshInv'
    <2>1. UNCHANGED <<main, own, heir>>
      BY <1>7, Zenon DEF WorkerCount, Schedule
    <2>2. \A m : Recorded(m)' <=> Recorded(m)
      BY <1>7 DEF WorkerCount, Schedule, Recorded
    <2>3. \A w \in Ids : Recording(w)' => Recording(w)
      <3>1. CASE WorkerCount(n)
        BY <3>1 DEF WorkerCount, Work, TypeOK
      <3>2. CASE Schedule(n)
        BY <3>2 DEF Schedule, Work, TypeOK
      <3>3. QED
        BY <1>7, <3>1, <3>2
    <2> HIDE DEF Recording
    <2>4. QED
      BY <2>1, <2>2, <2>3
  <1>8. ASSUME NEW n \in Ids, WorkerAppend(n) PROVE FreshInv'
    <2>1. heir[n] \in 1..made /\ refs' = Append(refs, heir[n])
      BY <1>8 DEF WorkerAppend, Work, TypeOK
    <2>2. ASSUME NEW m PROVE Recorded(m)' <=> Recorded(m) \/ m = heir[n]
      BY <2>1, AppendedRecorded
    <2>3. \A w \in Ids : worker'[w] = IF w = n THEN "none" ELSE worker[w]
      BY <1>8 DEF WorkerAppend, Work, TypeOK
    <2>4. worker[n] = "append" /\ UNCHANGED <<heir, main, own>>
      BY <1>8 DEF WorkerAppend, Work
    <2>5. QED
      BY <2>2, <2>3, <2>4
  <1>9. ASSUME NEW n \in Ids, Expire(n) PROVE FreshInv'
    BY <1>9 DEF Expire, Recorded
  <1>10. CASE UNCHANGED vars
    BY <1>10 DEF vars, Recorded
  <1>11. QED
    BY <1>1, <1>2, <1>3, <1>4, <1>5, <1>6, <1>7, <1>8, <1>9, <1>10
       DEF Next, MainStep, WorkerStep

(* A new subscription's timer is set by the thread that has subscribed.     *)
LEMMA TimerStep ==
    BoundsAssumption /\ TypeOK /\ FreshInv /\ TimerInv /\ [Next]_vars => TimerInv'
  <1> SUFFICES ASSUME BoundsAssumption, TypeOK, FreshInv, TimerInv, [Next]_vars PROVE TimerInv'
    OBVIOUS
  <1> USE DEF TimerInv, camera, ui
  <1>0. 1..made \subseteq Ids /\ made \in Nat /\ \A w \in Ids : heir[w] \in 0..made
    BY DEF TypeOK, BoundsAssumption, Ids
  <1>1. CASE Key \/ UnsubscribeEnd \/ Clear
    BY <1>1 DEF Key, UnsubscribeEnd, Clear
  <1>2. CASE UnsubscribeOne
    <2>1. main' # "record" /\ UNCHANGED <<worker, heir, made>>
      BY <1>2 DEF UnsubscribeOne
    <2>2. PICK r : \/ timer[r] = "running" /\ timer' = [timer EXCEPT ![r] = "stopped"]
                   \/ timer' = timer
      BY <1>2, Zenon DEF UnsubscribeOne, Set
    <2>3. \A n \in Ids : timer'[n] = timer[n] \/ timer[n] = "running"
      BY <2>2 DEF TypeOK
    <2>4. \A w \in Ids : worker[w] \in {"count", "call"} => heir[w] \in Ids
      BY <1>0 DEF FreshInv, Recording
    <2>5. \A n \in Ids : timer[n] \in {"none", "fired"} => timer'[n] = timer[n]
      BY <2>3
    <2>6. QED
      BY <2>1, <2>4, <2>5
  <1>3. CASE Subscribe
    <2>1. CASE Accepts /\ own' = made'
      BY <1>0, <1>3, <2>1, Accepted DEF Subscribe, Ids
    <2>2. CASE main' # "record" /\ UNCHANGED <<camera, own>>
      BY <1>3, <2>2 DEF Subscribe
    <2>3. QED
      BY <1>3, <2>1, <2>2 DEF Subscribe, NextTopic, AbandonKey
  <1>4. CASE Record
    <2>1. /\ main = "record" /\ main' # "record" /\ UNCHANGED <<worker, heir, made>>
          /\ own \in Ids /\ own <= made
      BY <1>0, <1>4 DEF Record, NextTopic, FreshInv, TypeOK
    <2>2. \A n \in Ids : timer'[n] = timer[n] \/ n = own
      BY <1>4 DEF Record, Set, TypeOK
    <2>3. \A w \in Ids : worker[w] \in {"count", "call"} => heir[w] \in Ids /\ heir[w] # own
      BY <1>0, <2>1 DEF FreshInv, Recording
    <2>4. QED
      BY <1>0, <2>1, <2>2, <2>3 DEF Ids
  <1>5. ASSUME NEW n \in Ids, Fire(n) PROVE TimerInv'
    <2>1. /\ main' # "record" /\ UNCHANGED <<heir, made>> /\ timer[n] = "running"
          /\ \A m \in Ids : /\ timer'[m] = IF m = n THEN "fired" ELSE timer[m]
                            /\ worker'[m] = IF m = n THEN "post" ELSE worker[m]
      BY <1>5 DEF Fire, Set, Work, TypeOK
    <2>2. \A w \in Ids : worker[w] \in {"count", "call"} => heir[w] \in Ids
      BY <1>0 DEF FreshInv, Recording
    <2>3. QED
      BY <2>1, <2>2
  <1>6. ASSUME NEW n \in Ids, WorkerSubscribe(n) PROVE TimerInv'
    <2>1. /\ UNCHANGED <<timer, main, own>> /\ worker[n] = "post"
          /\ \A m \in Ids : m # n => worker'[m] = worker[m]
      BY <1>6 DEF WorkerSubscribe, Work, TypeOK
    <2>2. CASE Accepts /\ heir' = [heir EXCEPT ![n] = made']
      <3>1. made' = made + 1 /\ made' \in Ids
        BY <1>0, <2>2, Accepted DEF Ids
      <3>2. \A m \in Ids : heir'[m] = IF m = n THEN made' ELSE heir[m]
        BY <2>2 DEF TypeOK
      <3>3. QED
        BY <1>0, <2>1, <3>1, <3>2 DEF Ids
    <2>3. CASE UNCHANGED <<camera, heir>> /\ Work(n, "post", "none")
      BY <2>1, <2>3 DEF Work, TypeOK
    <2>4. QED
      BY <1>6, <2>2, <2>3 DEF WorkerSubscribe
  <1>7. ASSUME NEW n \in Ids, WorkerCount(n) \/ WorkerAppend(n) PROVE TimerInv'
    BY <1>7 DEF WorkerCount, WorkerAppend, Work, TypeOK
  <1>8. ASSUME NEW n \in Ids, Schedule(n) PROVE TimerInv'
    <2>1. /\ main' # "record" /\ UNCHANGED <<heir, made>> /\ worker[n] = "call"
          /\ heir[n] \in Ids /\ heir[n] <= made
          /\ \A m \in Ids : /\ timer'[m] = IF m = heir[n] THEN "running" ELSE timer[m]
                            /\ worker'[m] = IF m = n THEN "append" ELSE worker[m]
      BY <1>0, <1>8 DEF Schedule, Set, Work, FreshInv, Recording, TypeOK
    <2>2. \A w \in Ids : worker[w] \in {"count", "call"} =>
              heir[w] \in Ids /\ (w # n => heir[w] # heir[n])
      BY <1>0, <2>1 DEF FreshInv, Recording
    <2>3. QED
      BY <1>0, <2>1, <2>2 DEF Ids
  <1>9. ASSUME NEW n \in Ids, Expire(n) PROVE TimerInv'
    BY <1>9 DEF Expire
  <1>10. CASE UNCHANGED vars
    BY <1>10 DEF vars
  <1>11. QED
    BY <1>1, <1>2, <1>3, <1>4, <1>5, <1>6, <1>7, <1>8, <1>9, <1>10
       DEF Next, MainStep, WorkerStep

(* unsubscribe_events() stops one timer after the other; meanwhile no timer *)
(* is set and none fires, as both need the main thread.                     *)
LEMMA StopStep ==
    BoundsAssumption /\ TypeOK /\ StopInv /\ [Next]_vars => StopInv'
  <1> SUFFICES ASSUME BoundsAssumption, TypeOK, StopInv, [Next]_vars,
                      main' \in {"stop", "clear"}
               PROVE  /\ at' <= Len(refs') + 1
                      /\ \A i \in 1..at' - 1 : timer'[refs'[i]] # "running"
                      /\ Cardinality(Busy') <= inFlight'
    BY DEF StopInv
  <1> USE DEF camera, ui
  <1>0. at \in Nat /\ Len(refs) \in Nat /\ refs \in [1..Len(refs) -> Ids] /\ inFlight \in Nat
        /\ Cardinality(Busy) \in Nat
    <2>1. Cardinality(Busy) \in 0..MaxIds
      BY IdsFinite DEF Busy
    <2>2. 1..made \subseteq Ids
      BY DEF TypeOK, BoundsAssumption, Ids
    <2>3. QED
      BY <2>1, <2>2 DEF TypeOK, BoundsAssumption
  <1>1. CASE Key
    <2>1. inFlight' = Cardinality(Busy) /\ Busy' = Busy /\ at' = 1 /\ UNCHANGED <<refs, timer>>
      BY <1>1 DEF Key, Busy
    <2>2. QED
      BY <1>0, <2>1
  <1>2. CASE UnsubscribeOne
    <2>1. /\ main = "stop" /\ at <= Len(refs) /\ at' = at + 1
          /\ Busy' = Busy /\ UNCHANGED <<refs, inFlight>>
      BY <1>2 DEF UnsubscribeOne, Busy
    <2>2. \A n \in Ids : timer'[n] = "running" => timer[n] = "running" /\ n # refs[at]
      BY <1>0, <1>2, <2>1 DEF UnsubscribeOne, Set, TypeOK
    <2>3. \A i \in 1..at : timer'[refs[i]] # "running"
      BY <1>0, <2>1, <2>2 DEF StopInv
    <2>4. QED
      BY <1>0, <2>1, <2>3 DEF StopInv
  <1>3. CASE UnsubscribeEnd
    BY <1>3 DEF UnsubscribeEnd, StopInv, Busy
  <1>4. CASE Clear \/ Subscribe \/ Record
    BY <1>4 DEF Clear, Subscribe, Record, NextTopic, AbandonKey
  <1>5. ASSUME NEW n \in Ids, Fire(n) \/ Schedule(n) PROVE FALSE
    BY <1>5 DEF Fire, Schedule
  <1>6. ASSUME NEW n \in Ids, WorkerSubscribe(n) \/ WorkerCount(n) \/ WorkerAppend(n)
        PROVE  /\ main \in {"stop", "clear"} /\ UNCHANGED <<at, timer, inFlight>>
               /\ Cardinality(Busy') <= inFlight'
    <2>1. UNCHANGED <<main, at, timer, inFlight>>
      BY <1>6 DEF WorkerSubscribe, WorkerCount, WorkerAppend
    <2>2. Busy' \in SUBSET Busy
      BY <1>6 DEF WorkerSubscribe, WorkerCount, WorkerAppend, Work, Busy, TypeOK
    <2>3. Cardinality(Busy') <= Cardinality(Busy) /\ Cardinality(Busy') \in Nat
      <3>1. Busy \in SUBSET Ids /\ Busy' \in SUBSET Ids
        BY <2>2 DEF Busy
      <3>2. QED
        BY <2>2, <3>1, NotMore, IdsFinite
    <2>4. QED
      BY <1>0, <2>1, <2>3 DEF StopInv
  <1>7. ASSUME NEW n \in Ids, WorkerSubscribe(n) \/ WorkerCount(n) PROVE refs' = refs
    BY <1>7 DEF WorkerSubscribe, WorkerCount
  <1>8. ASSUME NEW n \in Ids, WorkerAppend(n)
        PROVE  at' <= Len(refs') + 1 /\ \A i \in 1..at' - 1 : timer'[refs'[i]] # "running"
    <2>1. refs' = Append(refs, heir[n])
      BY <1>8 DEF WorkerAppend
    <2>2. Len(refs') = Len(refs) + 1 /\ \A i \in 1..Len(refs) : refs'[i] = refs[i]
      BY <1>0, <2>1
    <2>3. QED
      BY <1>0, <1>6, <1>8, <2>2 DEF StopInv
  <1>9. ASSUME NEW n \in Ids, Expire(n)
        PROVE UNCHANGED <<main, at, timer, refs, worker, inFlight>>
    BY <1>9 DEF Expire
  <1>10. CASE UNCHANGED <<main, at, timer, refs, worker, inFlight>>
    BY <1>10 DEF StopInv, Busy
  <1>11. CASE UNCHANGED vars
    BY <1>10, <1>11 DEF vars
  <1>12. ASSUME NEW n \in Ids, WorkerStep(n) \/ Expire(n)
         PROVE  /\ at' <= Len(refs') + 1
                /\ \A i \in 1..at' - 1 : timer'[refs'[i]] # "running"
                /\ Cardinality(Busy') <= inFlight'
    <2>1. CASE WorkerSubscribe(n) \/ WorkerCount(n)
      BY <1>6, <1>7, <2>1 DEF StopInv
    <2>2. CASE WorkerAppend(n)
      BY <1>6, <1>8, <2>2
    <2>3. CASE Fire(n) \/ Schedule(n) \/ Expire(n)
      BY <1>5, <1>9, <1>10, <2>3
    <2>4. QED
      BY <1>12, <2>1, <2>2, <2>3 DEF WorkerStep
  <1>13. QED
    BY <1>1, <1>2, <1>3, <1>4, <1>11, <1>12 DEF Next, MainStep

(* A timer is recorded by whoever has set it, and clear() drops stopped     *)
(* ones, or it slips.                                                       *)
LEMMA ReferencedStep ==
    TypeOK /\ FreshInv /\ StopInv /\ RunningTimerIsReferenced /\ [Next]_vars
        => RunningTimerIsReferenced'
  <1> DEFINE Known(n) == Recorded(n) \/ \E w \in Ids : worker[w] = "append" /\ heir[w] = n
  <1> SUFFICES ASSUME TypeOK, FreshInv, StopInv, RunningTimerIsReferenced, [Next]_vars,
                      ~slipped', NEW n \in Ids, timer'[n] = "running"
               PROVE  Known(n)'
    BY DEF RunningTimerIsReferenced, Running
  <1> USE DEF camera, ui
  <1>0. ASSUME ~slipped, timer[n] = "running" PROVE Known(n)
    BY <1>0 DEF RunningTimerIsReferenced, Running
  <1>1. CASE Key \/ UnsubscribeEnd \/ Subscribe
    BY <1>0, <1>1 DEF Key, UnsubscribeEnd, Subscribe, Recorded
  <1>2. CASE UnsubscribeOne
    <2>1. timer[n] = "running" /\ UNCHANGED <<refs, worker, heir, slipped>>
      BY <1>2 DEF UnsubscribeOne, Set, TypeOK
    <2>2. QED
      BY <1>0, <2>1 DEF Recorded
  <1>3. CASE Clear
    <2>1. ~slipped /\ main = "clear" /\ ~(at <= Len(refs)) /\ UNCHANGED <<timer, worker, heir>>
      BY <1>3, Zenon DEF Clear
    <2>2. ~Recorded(n)
      <3>1. Len(refs) \in Nat /\ at \in Nat
        BY DEF TypeOK
      <3>2. \A i \in 1..Len(refs) : timer[refs[i]] # "running"
        BY <2>1, <3>1 DEF StopInv
      <3>3. QED
        BY <2>1, <3>2 DEF Recorded
    <2>3. QED
      BY <1>0, <2>1, <2>2
  <1>4. CASE Record
    <2>1. UNCHANGED <<worker, heir, slipped>>
      BY <1>4 DEF Record
    <2>2. CASE refs' = Append(refs, own)
      <3>1. timer[n] = "running" \/ n = own
        BY <1>4 DEF Record, Set, TypeOK
      <3>2. own \in 1..made
        BY <1>4 DEF Record, FreshInv, TypeOK
      <3>3. QED
        BY <1>0, <2>1, <2>2, <3>1, <3>2, AppendedRecorded
    <2>3. CASE refs' = refs /\ timer' = timer
      BY <1>0, <2>1, <2>3 DEF Recorded
    <2>4. QED
      BY <1>4, <2>2, <2>3 DEF Record
  <1>5. ASSUME NEW m \in Ids, Fire(m) \/ WorkerSubscribe(m) \/ WorkerCount(m) PROVE Known(n)'
    <2>1. timer[n] = "running" /\ UNCHANGED <<refs, slipped>>
      BY <1>5 DEF Fire, WorkerSubscribe, WorkerCount, Set, TypeOK
    <2>2. \A w \in Ids : worker[w] = "append" => worker'[w] = "append" /\ heir'[w] = heir[w]
      BY <1>5 DEF Fire, WorkerSubscribe, WorkerCount, Work, TypeOK
    <2>3. QED
      BY <1>0, <2>1, <2>2 DEF Recorded
  <1>6. ASSUME NEW m \in Ids, Schedule(m) PROVE Known(n)'
    <2>1. timer[n] = "running" \/ n = heir[m]
      BY <1>6 DEF Schedule, Set, TypeOK
    <2>2. /\ \A w \in Ids : worker[w] = "append" => worker'[w] = "append"
          /\ worker'[m] = "append" /\ UNCHANGED <<heir, refs, slipped>>
      BY <1>6 DEF Schedule, Work, TypeOK
    <2>3. QED
      BY <1>0, <2>1, <2>2 DEF Recorded
  <1>7. ASSUME NEW m \in Ids, WorkerAppend(m) PROVE Known(n)'
    <2>1. timer[n] = "running" /\ UNCHANGED <<heir, slipped>> /\ refs' = Append(refs, heir[m])
      BY <1>7 DEF WorkerAppend
    <2>2. \A w \in Ids : w # m /\ worker[w] = "append" => worker'[w] = "append"
      BY <1>7 DEF WorkerAppend, Work, TypeOK
    <2>3. Recorded(n)' <=> Recorded(n) \/ n = heir[m]
      <3>1. heir[m] \in 1..made
        BY <1>7 DEF WorkerAppend, Work, FreshInv, Recording, TypeOK
      <3>2. QED
        BY <2>1, <3>1, AppendedRecorded
    <2>4. QED
      BY <1>0, <2>1, <2>2, <2>3
  <1>8. ASSUME NEW m \in Ids, Expire(m) PROVE Known(n)'
    BY <1>0, <1>8 DEF Expire, Recorded
  <1>9. CASE UNCHANGED vars
    BY <1>0, <1>9 DEF vars, Recorded
  <1>10. QED
    BY <1>1, <1>2, <1>3, <1>4, <1>5, <1>6, <1>7, <1>8, <1>9 DEF Next, MainStep, WorkerStep

(* Where clear() has dropped the stopped timers, each chain is a renewal    *)
(* that was in flight.                                                      *)
LEMMA ClearedChains ==
    ASSUME BoundsAssumption, TypeOK, StopInv, FreshInv, RunningTimerIsReferenced, Clear, ~slipped'
    PROVE  Cardinality(Chains') <= inFlight /\ UNCHANGED inFlight
  <1> DEFINE f == [w \in Busy |-> IF worker[w] = "append" THEN heir[w] ELSE w]
  <1>1. /\ ~slipped /\ main = "clear" /\ ~(at <= Len(refs))
        /\ UNCHANGED <<timer, worker, heir, inFlight>>
    BY Zenon DEF Clear
  <1>2. Chains' = Chains
    BY <1>1 DEF Chains, Running, Busy
  <1>3. \A n \in Running : ~Recorded(n)
    <2>1. Len(refs) \in Nat /\ at \in Nat
      BY DEF TypeOK
    <2>2. QED
      BY <1>1, <2>1 DEF StopInv, Recorded, Running
  <1>4. Busy \in SUBSET Ids /\ Chains \in SUBSET Ids
    BY DEF Busy, Chains, Running
  <1>5. f \in [Busy -> Ids]
    BY DEF Busy, FreshInv, Recording, TypeOK, Ids, BoundsAssumption
  <1>6. \A n \in Chains : \E w \in Busy : f[w] = n
    <2> SUFFICES ASSUME NEW n \in Chains PROVE \E w \in Busy : f[w] = n
      OBVIOUS
    <2>1. CASE n \in Running
      <3>1. PICK w \in Ids : worker[w] = "append" /\ heir[w] = n
        BY <1>1, <1>3, <2>1 DEF RunningTimerIsReferenced
      <3>2. w \in Busy /\ f[w] = n
        BY <3>1 DEF Busy
      <3>3. QED
        BY <3>2
    <2>2. CASE n \in Busy /\ worker[n] # "append"
      BY <2>2
    <2>3. QED
      BY <2>1, <2>2 DEF Chains
  <1> HIDE DEF f
  <1>7. Cardinality(Chains) <= Cardinality(Busy)
    BY <1>4, <1>5, <1>6, Images
  <1>8. Cardinality(Busy) <= inFlight
    BY <1>1 DEF StopInv
  <1>9. Cardinality(Chains) \in Nat /\ Cardinality(Busy) \in Nat /\ inFlight \in Nat
    BY <1>4, IdsFinite DEF TypeOK
  <1>10. QED
    BY <1>1, <1>2, <1>7, <1>8, <1>9

(* No other step but the first Record() after clear() makes chains more.    *)
LEMMA ChainsChange ==
    ASSUME BoundsAssumption, TypeOK, FreshInv, TimerInv, [Next]_vars
    PROVE  \/ Cardinality(Chains') <= Cardinality(Chains)
           \/ /\ Record /\ refs = <<>> /\ refs' # <<>>
              /\ Cardinality(Chains') <= Cardinality(Chains) + 1
  <1> USE DEF Chains, Running, Busy, camera, ui
  <1>0. Chains \in SUBSET Ids
    OBVIOUS
  <1>1. ASSUME Chains' \in SUBSET Chains PROVE Cardinality(Chains') <= Cardinality(Chains)
    <2> HIDE DEF Chains
    <2>1. QED
      BY <1>0, <1>1, NotMore
  <1>2. CASE Key \/ UnsubscribeEnd \/ Clear \/ Subscribe
    BY <1>1, <1>2 DEF Key, UnsubscribeEnd, Clear, Subscribe
  <1>3. CASE UnsubscribeOne
    <2>1. \A n \in Ids : timer'[n] = "running" => timer[n] = "running"
      BY <1>3 DEF UnsubscribeOne, Set, TypeOK
    <2>2. UNCHANGED worker
      BY <1>3 DEF UnsubscribeOne
    <2>3. QED
      BY <1>1, <2>1, <2>2
  <1>4. CASE Record
    <2>1. UNCHANGED worker
      BY <1>4 DEF Record
    <2>2. own \in 1..made /\ own \in Ids
      BY <1>4 DEF Record, FreshInv, TypeOK, BoundsAssumption, Ids
    <2>3. CASE kind = "push" /\ refs = <<>>
      <3>1. Chains' \in SUBSET (Chains \cup {own})
        BY <1>4, <2>1, <2>3 DEF Record, Set, TypeOK
      <3>2. refs' # <<>>
        BY <1>4, <2>2, <2>3, Appended DEF Record
      <3>3. Cardinality(Chains') <= Cardinality(Chains) + 1
        <4> HIDE DEF Chains
        <4>1. QED
          BY <1>0, <2>2, <3>1, OneMore
      <3>4. QED
        BY <1>4, <2>3, <3>2, <3>3
    <2>4. CASE ~(kind = "push" /\ refs = <<>>)
      BY <1>1, <1>4, <2>1, <2>4 DEF Record
    <2>5. QED
      BY <2>3, <2>4
  <1>5. ASSUME NEW n \in Ids, Fire(n) PROVE Cardinality(Chains') <= Cardinality(Chains)
    BY <1>1, <1>5 DEF Fire, Set, Work, TypeOK
  <1>6. ASSUME NEW n \in Ids, WorkerSubscribe(n) \/ WorkerCount(n) \/ WorkerAppend(n)
        PROVE  Cardinality(Chains') <= Cardinality(Chains)
    <2>1. UNCHANGED timer
      BY <1>6 DEF WorkerSubscribe, WorkerCount, WorkerAppend
    <2>2. \A w \in Ids : worker'[w] \notin {"none", "append"} => worker[w] \notin {"none", "append"}
      BY <1>6 DEF WorkerSubscribe, WorkerCount, WorkerAppend, Work, TypeOK
    <2>3. QED
      BY <1>1, <2>1, <2>2
  <1>7. ASSUME NEW n \in Ids, Schedule(n) PROVE Cardinality(Chains') <= Cardinality(Chains)
    <2>1. n \in Chains /\ heir[n] \in Ids
      BY <1>7 DEF Schedule, Work, FreshInv, Recording, TypeOK, BoundsAssumption, Ids
    <2>2. timer[n] # "running"
      BY <1>7 DEF Schedule, Work, TimerInv
    <2>3. Chains' \in SUBSET ((Chains \ {n}) \cup {heir[n]})
      BY <1>7, <2>2 DEF Schedule, Set, Work, TypeOK
    <2>4. QED
      <3> HIDE DEF Chains
      <3>1. QED
        BY <1>0, <2>1, <2>3, OneForAnother
  <1>8. ASSUME NEW n \in Ids, Expire(n) PROVE Cardinality(Chains') <= Cardinality(Chains)
    BY <1>1, <1>8 DEF Expire
  <1>9. CASE UNCHANGED vars
    BY <1>1, <1>9 DEF vars
  <1>10. QED
    BY <1>2, <1>3, <1>4, <1>5, <1>6, <1>7, <1>8, <1>9 DEF Next, MainStep, WorkerStep

(* A key, or the first topic after clear(), makes one chain more than the   *)
(* renewals that were in flight.                                            *)
LEMMA ChainStep ==
    /\ BoundsAssumption /\ TypeOK /\ PlanInv /\ FreshInv /\ TimerInv /\ StopInv
    /\ RunningTimerIsReferenced /\ ChainInv /\ FewChains /\ [Next]_vars
    => ChainInv' /\ FewChains'
  <1> SUFFICES ASSUME BoundsAssumption, TypeOK, PlanInv, FreshInv, TimerInv, StopInv,
                      RunningTimerIsReferenced, ChainInv, FewChains, [Next]_vars,
                      ~slipped', main' \notin {"stop", "clear"}
               PROVE  /\ main' \in {"subscribe", "record"} /\ refs' = <<>> =>
                             Cardinality(Chains') <= inFlight'
                      /\ Cardinality(Chains') <= inFlight' + (IF wanted' = 0 THEN 0 ELSE 1)
    BY DEF ChainInv, FewChains
  <1> DEFINE before == Cardinality(Chains)
             after == Cardinality(Chains')
  <1> USE DEF camera, ui
  <1>0. before \in Nat /\ after \in Nat /\ inFlight \in Nat /\ wanted \in Nat
    <2>1. Chains \in SUBSET Ids /\ Chains' \in SUBSET Ids
      BY DEF Chains, Running, Busy
    <2>2. QED
      BY <2>1, IdsFinite DEF TypeOK, BoundsAssumption
  <1>1. \/ after <= before
        \/ Record /\ refs = <<>> /\ refs' # <<>> /\ after <= before + 1
    BY ChainsChange
  <1> HIDE DEF before, after
  <1>2. CASE Key \/ UnsubscribeOne \/ UnsubscribeEnd
    BY <1>2 DEF Key, UnsubscribeOne, UnsubscribeEnd
  <1>3. CASE Clear
    <2>1. after <= inFlight /\ UNCHANGED inFlight
      BY <1>3, ClearedChains DEF after
    <2>2. QED
      BY <1>0, <2>1 DEF after
  <1>4. CASE Subscribe
    <2>1. /\ main = "subscribe" /\ ~slipped /\ wanted > 0
          /\ UNCHANGED <<refs, inFlight, wanted>> /\ after <= before
      BY <1>1, <1>4 DEF Subscribe, NextTopic, AbandonKey, Record, PlanInv
    <2>2. refs = <<>> => before <= inFlight
      BY <2>1 DEF ChainInv, before
    <2>3. before <= inFlight + 1
      BY <2>1 DEF FewChains, before
    <2>4. QED
      BY <1>0, <2>1, <2>2, <2>3 DEF after
  <1>5. CASE Record
    <2>1. main = "record" /\ ~slipped /\ wanted > 0 /\ UNCHANGED <<inFlight, wanted>>
      BY <1>5 DEF Record, PlanInv
    <2>2. refs' # <<>>
      <3>1. own \in 1..made
        BY <2>1 DEF FreshInv, TypeOK
      <3>2. CASE refs' = Append(refs, own)
        BY <3>1, <3>2, Appended
      <3>3. CASE refs # <<>> /\ refs' = refs
        BY <3>3
      <3>4. QED
        BY <1>5, <3>2, <3>3, Zenon DEF Record
    <2>3. after <= inFlight + 1
      <3>1. CASE after <= before
        <4>1. before <= inFlight + 1
          BY <2>1 DEF FewChains, before
        <4>2. QED
          BY <1>0, <3>1, <4>1
      <3>2. CASE refs = <<>> /\ after <= before + 1
        <4>1. before <= inFlight
          BY <2>1, <3>2 DEF ChainInv, before
        <4>2. QED
          BY <1>0, <3>2, <4>1
      <3>3. QED
        BY <1>1, <3>1, <3>2
    <2>4. QED
      BY <1>0, <2>1, <2>2, <2>3 DEF after
  <1>6. ASSUME UNCHANGED ui, UNCHANGED slipped, after <= before, refs' = refs \/ refs' # <<>>
        PROVE  /\ main' \in {"subscribe", "record"} /\ refs' = <<>> => after <= inFlight'
               /\ after <= inFlight' + (IF wanted' = 0 THEN 0 ELSE 1)
    <2>1. ~slipped /\ main \notin {"stop", "clear"} /\ UNCHANGED <<main, inFlight, wanted>>
      BY <1>6
    <2>2. before <= inFlight + (IF wanted = 0 THEN 0 ELSE 1)
      BY <2>1 DEF FewChains, before
    <2>3. main \in {"subscribe", "record"} /\ refs = <<>> => before <= inFlight
      BY <2>1 DEF ChainInv, before
    <2>4. QED
      BY <1>0, <1>6, <2>1, <2>2, <2>3
  <1>7. ASSUME NEW n \in Ids, WorkerStep(n) \/ Expire(n)
        PROVE  UNCHANGED ui /\ UNCHANGED slipped /\ after <= before /\ (refs' = refs \/ refs' # <<>>)
    <2>1. UNCHANGED ui /\ UNCHANGED slipped
      BY <1>7, Zenon
         DEF WorkerStep, Fire, WorkerSubscribe, WorkerCount, Schedule, WorkerAppend, Expire
    <2>2. refs' = refs \/ WorkerAppend(n)
      BY <1>7, Zenon DEF WorkerStep, Fire, WorkerSubscribe, WorkerCount, Schedule, Expire
    <2>3. ASSUME WorkerAppend(n) PROVE refs' # <<>>
      <3>1. heir[n] \in 1..made /\ refs' = Append(refs, heir[n])
        BY <2>3 DEF WorkerAppend, Work, FreshInv, Recording, TypeOK
      <3>2. QED
        BY <3>1, Appended
    <2>4. ~Record
      BY <2>1 DEF Record, NextTopic, TypeOK
    <2>5. QED
      BY <1>1, <2>1, <2>2, <2>3, <2>4
  <1>8. CASE UNCHANGED vars
    <2>1. ~Record
      BY <1>8 DEF vars, Record, NextTopic, TypeOK
    <2>2. QED
      BY <1>1, <1>6, <1>8, <2>1 DEF vars, after
  <1>9. QED
    BY <1>2, <1>3, <1>4, <1>5, <1>6, <1>7, <1>8 DEF Next, MainStep, after

LEMMA InvInit == BoundsAssumption /\ Init => IInv
  <1> SUFFICES ASSUME BoundsAssumption, Init PROVE IInv
    OBVIOUS
  <1> USE DEF Init, BoundsAssumption
  <1>1. TypeOK
    <2>1. refs \in Seq(1..made)
      BY EmptySeq
    <2>2. /\ at \in 1..MaxIds + 1 /\ plan \in 0..MaxTopics /\ keys \in 0..MaxKeys
          /\ faults \in 0..MaxFaults /\ wanted \in 0..MaxTopics /\ inFlight \in 0..MaxIds
          /\ made \in 0..MaxIds /\ own \in 0..made /\ heir \in [Ids -> 0..made]
      BY DEF NoId
    <2>3. QED
      BY <2>1, <2>2, Zenon DEF TypeOK
  <1>2. RecordedOnce /\ PlanInv /\ FreshInv /\ TimerInv
    BY DEF RecordedOnce, PlanInv, FreshInv, TimerInv, Recording
  <1>3. Chains = {}
    BY DEF Chains, Running, Busy
  <1>4. StopInv /\ RunningTimerIsReferenced /\ ChainInv
    BY DEF StopInv, RunningTimerIsReferenced, ChainInv, Running
  <1>5. FewChains
    BY <1>3, FS_EmptySet DEF FewChains
  <1>6. QED
    BY <1>1, <1>2, <1>4, <1>5 DEF IInv

LEMMA Invariant == ASSUME BoundsAssumption PROVE Spec => []IInv
  <1>1. IInv /\ [Next]_vars => IInv'
    BY TypeStep, RecordedOnceStep, PlanStep, FreshStep, TimerStep, StopStep, ReferencedStep,
       ChainStep DEF IInv
  <1>2. QED
    BY <1>1, InvInit, PTL DEF Spec

(* Type correctness, with it the bound of the index of the loop in          *)
(* unsubscribe_events(), which follows from nothing being recorded twice.   *)
THEOREM SubscriptionsTypes == ASSUME BoundsAssumption PROVE Spec => []TypeOK
  <1>1. IInv => TypeOK
    BY DEF IInv
  <1>2. QED
    BY <1>1, Invariant, PTL

(* For any number of topics, keys and renewals: each subscription is        *)
(* recorded once, a running timer can be stopped unless clear() dropped its *)
(* reference unseen, and after a key no more chains of renewals go on than  *)
(* there were renewals in flight and one.                                   *)
THEOREM SubscriptionsAreKept == ASSUME BoundsAssumption PROVE Spec => []SubscriptionsKept
  <1>1. IInv => SubscriptionsKept
    BY DEF IInv, SubscriptionsKept
  <1>2. QED
    BY <1>1, Invariant, PTL
=============================================================================
