---------------------------- MODULE Subscriptions ----------------------------
(***************************************************************************)
(* The event subscriptions of one camera in the text interface             *)
(* (src/examples/onvif/tui.py).  The main thread handles keys and timers   *)
(* one after the other and waits in them for the camera; a timer that      *)
(* fires renews its subscription, by a new one, on a worker thread.        *)
(*                                                                         *)
(* A subscription is named by a number, and of the topics selected their   *)
(* number counts; the camera forgets a subscription that was not renewed.  *)
(* Timers belong to the main thread: call_from_thread() refuses that       *)
(* thread, set_timer() any other.                                          *)
(***************************************************************************)
EXTENDS Integers, Sequences, FiniteSets

CONSTANTS MaxTopics, \* topics that the camera has in its topic_set
          MaxIds,   \* bound on subscriptions
          MaxKeys,  \* bound on keys pressed
          MaxFaults \* bound on requests that the camera does not answer

BoundsAssumption == MaxTopics \in Nat /\ MaxIds \in Nat /\ MaxKeys \in Nat /\ MaxFaults \in Nat

Ids == 1..MaxIds
NoId == 0

VARIABLES
    active,  \* subscriptions that the camera has
    made,    \* subscriptions 1..made were made
    refs,    \* camera.subscription_references
    timer,   \* resubscribe_timer of each
    main, at, plan, kind, \* the main thread: control, loop index, topics to do, push or pull
    own,     \* subscription that the main thread has just made
    worker,  \* renewal of each: control on its worker thread
    heir,    \* ... and the subscription that it has made
    keys, faults,
    wanted, inFlight, slipped \* history: topics of the last key, renewals in flight
             \* at it, was a reference cleared unseen?

camera == <<active, made>>
ui == <<main, at, plan, kind, own, keys, wanted, inFlight>>
vars == <<camera, refs, timer, ui, worker, heir, faults, slipped>>

TypeOK ==
    /\ active \subseteq 1..made /\ made \in 0..MaxIds
    /\ refs \in Seq(1..made)
    /\ timer \in [Ids -> {"none", "running", "fired", "stopped"}]
    /\ main \in {"idle", "stop", "clear", "subscribe", "record"}
    /\ at \in 1..MaxIds + 1 /\ plan \in 0..MaxTopics
    /\ kind \in {"push", "pull"} /\ own \in 0..made
    /\ worker \in [Ids -> {"none", "post", "count", "call", "append"}]
    /\ heir \in [Ids -> 0..made]
    /\ keys \in 0..MaxKeys /\ faults \in 0..MaxFaults
    /\ wanted \in 0..MaxTopics /\ inFlight \in 0..MaxIds
    /\ slipped \in BOOLEAN

Init ==
    /\ active = {} /\ made = 0
    /\ refs = <<>> /\ timer = [n \in Ids |-> "none"]
    /\ main = "idle" /\ at = 1 /\ plan = 0 /\ kind = "push" /\ own = NoId
    /\ worker = [n \in Ids |-> "none"] /\ heir = [n \in Ids |-> NoId]
    /\ keys = 0 /\ faults = 0
    /\ wanted = 0 /\ inFlight = 0 /\ slipped = FALSE

-----------------------------------------------------------------------------
Fault == faults < MaxFaults /\ faults' = faults + 1
NoFault == UNCHANGED faults
Busy == {n \in Ids : worker[n] # "none"}
Running == {n \in Ids : timer[n] = "running"}
Set(n, s) == timer' = [timer EXCEPT ![n] = s]
Recorded(n) == \E i \in 1..Len(refs) : refs[i] = n
Work(n, from, to) == worker[n] = from /\ worker' = [worker EXCEPT ![n] = to]

(* The camera accepts a new subscription: number made'. *)
Accepts == made < MaxIds /\ made' = made + 1 /\ active' = active \cup {made'}

(* Keys 'u' (nothing selected), 'r' or 'R' (push), 'p' or 'P' (pull): all   *)
(* of them unsubscribe first.  'R' and 'P' are one subscription.            *)
Key ==
    /\ main = "idle" /\ keys < MaxKeys /\ keys' = keys + 1
    /\ plan' \in 0..MaxTopics /\ wanted' = plan'
    /\ kind' \in {"push", "pull"}
    /\ main' = "stop" /\ at' = 1
    /\ inFlight' = Cardinality(Busy)
    /\ UNCHANGED <<camera, refs, timer, own, worker, heir, faults, slipped>>

(* Mutant: unsubscribe_events() leaves the timers alone, as on_unmount() does. *)
UnsubscribeOneTimed ==
    /\ main = "stop" /\ at <= Len(refs) /\ at' = at + 1
    /\ active' = active \ {refs[at]} /\ NoFault
    /\ UNCHANGED <<made, refs, timer, main, plan, kind, own, worker, heir, keys, wanted,
                   inFlight, slipped>>

(* The loop looks at the length again at every step: a reference that a     *)
(* worker appends meanwhile is seen.  safe_run() hides a failing request.   *)
UnsubscribeOne ==
    /\ main = "stop" /\ at <= Len(refs) /\ at' = at + 1
    /\ IF timer[refs[at]] = "running" THEN Set(refs[at], "stopped") ELSE UNCHANGED timer
    /\ \/ active' = active \ {refs[at]} /\ NoFault
       \/ UNCHANGED active /\ Fault
    /\ UNCHANGED <<made, refs, main, plan, kind, own, worker, heir, keys, wanted,
                   inFlight, slipped>>

UnsubscribeEnd ==
    /\ main = "stop" /\ at > Len(refs) /\ main' = "clear"
    /\ UNCHANGED <<camera, refs, timer, at, plan, kind, own, keys, wanted, inFlight,
                   worker, heir, faults, slipped>>

Clear ==
    /\ main = "clear" /\ main' = IF plan = 0 THEN "idle" ELSE "subscribe"
    /\ refs' = <<>> /\ slipped' = (slipped \/ at <= Len(refs))
    /\ UNCHANGED <<camera, timer, at, plan, kind, own, keys, wanted, inFlight,
                   worker, heir, faults>>

NextTopic == plan' = plan - 1 /\ main' = IF plan = 1 THEN "idle" ELSE "subscribe"

(* on_key() catches what the loop of a pull key threw: back to the interface. *)
AbandonKey == main' = "idle" /\ plan' = 0

(* The request, while the main thread waits.  Without an answer             *)
(* resubscribe_event() catches the error and the next topic's turn comes;   *)
(* of a pull key it ends the loop, and on_key() catches it, with the topics *)
(* done so far recorded.                                                    *)
Subscribe ==
    /\ main = "subscribe"
    /\ \/ /\ Accepts /\ own' = made' /\ NoFault
          /\ main' = "record" /\ UNCHANGED plan
       \/ /\ Fault /\ UNCHANGED <<camera, own>>
          /\ IF kind = "push" THEN NextTopic ELSE AbandonKey
    /\ UNCHANGED <<refs, timer, at, kind, keys, wanted, inFlight, worker, heir, slipped>>

(* With references in the list call_from_thread() is called, and raises on  *)
(* the main thread: the subscription is neither recorded nor renewed.       *)
Record ==
    /\ main = "record" /\ NextTopic
    /\ IF kind = "pull" \/ refs = <<>> THEN refs' = Append(refs, own) ELSE UNCHANGED refs
    /\ IF kind = "push" /\ refs = <<>> THEN Set(own, "running") ELSE UNCHANGED timer
    /\ own' = NoId
    /\ UNCHANGED <<camera, at, kind, keys, wanted, inFlight, worker, heir, faults, slipped>>

-----------------------------------------------------------------------------
(* A renewal.  The timer of n fires on the main thread and starts a worker. *)
Fire(n) ==
    /\ main = "idle" /\ timer[n] = "running" /\ Set(n, "fired")
    /\ Work(n, "none", "post")
    /\ UNCHANGED <<camera, refs, ui, heir, faults, slipped>>

(* No answer: the chain of renewals ends. *)
WorkerSubscribe(n) ==
    /\ \/ Work(n, "post", "count") /\ Accepts /\ NoFault
          /\ heir' = [heir EXCEPT ![n] = made']
       \/ Work(n, "post", "none") /\ UNCHANGED <<camera, heir>> /\ Fault
    /\ UNCHANGED <<refs, timer, ui, slipped>>

(* An empty list: set_timer() is called here, where no event loop runs.     *)
WorkerCount(n) ==
    /\ Work(n, "count", IF refs = <<>> THEN "none" ELSE "call")
    /\ UNCHANGED <<camera, refs, timer, ui, heir, faults, slipped>>

(* call_from_thread(): the worker waits until the main thread has set it.   *)
Schedule(n) ==
    /\ main = "idle" /\ Work(n, "call", "append") /\ Set(heir[n], "running")
    /\ UNCHANGED <<camera, refs, ui, heir, faults, slipped>>

WorkerAppend(n) ==
    /\ Work(n, "append", "none") /\ refs' = Append(refs, heir[n])
    /\ UNCHANGED <<camera, timer, ui, heir, faults, slipped>>

(* The camera forgets a subscription ten seconds after it was to be renewed. *)
Expire(n) ==
    /\ n \in active /\ timer[n] # "running" /\ active' = active \ {n}
    /\ UNCHANGED <<made, refs, timer, ui, worker, heir, faults, slipped>>

MainStep ==
    Key \/ UnsubscribeOne \/ UnsubscribeEnd \/ Clear \/ Subscribe \/ Record
WorkerStep(n) ==
    Fire(n) \/ WorkerSubscribe(n) \/ WorkerCount(n) \/ Schedule(n) \/ WorkerAppend(n)
Next == MainStep \/ \E n \in Ids : WorkerStep(n) \/ Expire(n)

Spec == Init /\ [][Next]_vars

-----------------------------------------------------------------------------
(* Properties *)

(* A timer that runs can be stopped: its subscription is referenced, or its *)
(* worker is about to record it, or the reference was appended between the  *)
(* end of the loop and clear() (lines 112-115).                             *)
RunningTimerIsReferenced ==
    ~slipped => \A n \in Running :
        Recorded(n) \/ \E w \in Ids : worker[w] = "append" /\ heir[w] = n

(* Chains of renewals: a timer that runs or a worker that has yet to set it. *)
Chains == Running \cup {n \in Busy : worker[n] # "append"}

(* Whatever was selected, once the old subscriptions have ended no more     *)
(* chains go on than there were renewals in flight when the key was pressed *)
(* (stopping a timer does not stop its worker) and one, if a topic was      *)
(* selected: of several only the first is renewed (line 146).               *)
FewChains ==
    ~slipped /\ main \notin {"stop", "clear"} =>
        Cardinality(Chains) <= inFlight + (IF wanted = 0 THEN 0 ELSE 1)

(* A subscription is recorded once, whoever recorded it. *)
RecordedOnce == \A i, j \in 1..Len(refs) : refs[i] = refs[j] => i = j

(* What holds of references, timers and workers together. *)
SubscriptionsKept == TypeOK /\ RunningTimerIsReferenced /\ FewChains /\ RecordedOnce

(* Expected by the help text (fields.py:588, "u - unsubscribe all events"): *)
(* the camera has no subscription left, where every request is answered and *)
(* no renewal is in flight.                                                 *)
AllAreUnsubscribed ==
    main = "idle" /\ wanted = 0 /\ faults = 0 /\ inFlight = 0 => active = {}

-----------------------------------------------------------------------------
(* Inductive invariants *)

Recording(w) == worker[w] \in {"count", "call", "append"}

(* There is a topic to do where one is done, and a key that asked for it.   *)
PlanInv ==
    /\ main \in {"stop", "clear"} => plan = wanted
    /\ main \in {"subscribe", "record"} => plan > 0 /\ wanted > 0

(* What a thread has subscribed and has yet to record is its own. *)
FreshInv ==
    /\ main = "record" => own > 0 /\ ~Recorded(own)
    /\ \A w \in Ids : Recording(w) =>
           /\ heir[w] > 0 /\ ~Recorded(heir[w])
           /\ main = "record" => heir[w] # own
           /\ \A v \in Ids : Recording(v) /\ heir[v] = heir[w] => v = w

(* A timer is set once: it is new, or it runs, or it has ended, and only    *)
(* one that has fired has a worker.                                         *)
TimerInv ==
    /\ \A n \in Ids : worker[n] # "none" => timer[n] = "fired"
    /\ \A n \in Ids : n > made => timer[n] = "none"
    /\ main = "record" => timer[own] = "none"
    /\ \A w \in Ids : worker[w] \in {"count", "call"} => timer[heir[w]] = "none"

(* unsubscribe_events() has stopped what it has passed, and no renewal has  *)
(* begun since the key.                                                     *)
StopInv ==
    main \in {"stop", "clear"} =>
        /\ at <= Len(refs) + 1
        /\ \A i \in 1..at - 1 : timer[refs[i]] # "running"
        /\ Cardinality(Busy) <= inFlight

(* The one chain more begins where nothing is recorded. *)
ChainInv ==
    ~slipped /\ main \in {"subscribe", "record"} /\ refs = <<>> =>
        Cardinality(Chains) <= inFlight

IInv ==
    /\ TypeOK /\ RecordedOnce /\ PlanInv /\ FreshInv /\ TimerInv /\ StopInv
    /\ RunningTimerIsReferenced /\ ChainInv /\ FewChains
=============================================================================
