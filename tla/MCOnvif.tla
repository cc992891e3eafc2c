------------------------------ MODULE MCOnvif ------------------------------
(* Instances for TLC of the three modules about the ONVIF examples.  They   *)
(* share no variable, so that each is checked by itself: `part` moves, the  *)
(* others stay as they start.                                               *)
(*  - Notifier: a second worker may start after the first one has failed,   *)
(*    or while it binds;                                                    *)
(*  - Subscriptions: two topics and ids for a renewal of each;              *)
(*  - Discovery: two cameras share an address, one has an address of no     *)
(*    use, one names an address twice, one can have a host name.            *)
EXTENDS Notifier, Sequences

CONSTANTS Parts, MaxTopics, MaxIds, MaxKeys, Lost,
          Cameras, XAddrs, Unparsable, Filtered, PoolSize, MaxAnswers, MaxRaised,
          w1, w2, m1, m2, c1, c2, c3, a1, a2, a3, a4, v6, name

TwoWorkers == {w1, w2}
TwoMessages == {m1, m2}
ThreeCameras == {c1, c2, c3}
Addresses == [c \in ThreeCameras |->
    IF c = c1 THEN <<a1, v6>> ELSE IF c = c2 THEN <<a2, a1, a3, a2>> ELSE <<a4, name>>]

VARIABLES part,
          active, made, refs, timer, key, at, plan, kind, own, worker, heir, keys,
          unanswered, wanted, inFlight, slipped,
          phase, responses, next, nth, jobs, job, tree, open, raised

S == INSTANCE Subscriptions
        WITH MaxFaults <- Lost, main <- key, faults <- unanswered
D == INSTANCE Discovery
        WITH Workers <- PoolSize, MaxFaults <- MaxRaised, at <- next, faults <- raised

ASSUME OnvifAssumption ==
    S!BoundsAssumption /\ D!XAddrsAssumption /\ D!BoundsAssumption

subscriptions == <<active, made, refs, timer, key, at, plan, kind, own, worker, heir,
                   keys, unanswered, wanted, inFlight, slipped>>
discovery == <<phase, responses, next, nth, jobs, job, tree, open, raised>>
everything == <<part, vars, subscriptions, discovery>>
Begin == part \in Parts /\ Init /\ S!Init /\ D!Init
PartStep ==
    \/ part = "notifier" /\ Next /\ UNCHANGED <<part, subscriptions, discovery>>
    \/ part = "subscriptions" /\ S!Next /\ UNCHANGED <<part, vars, discovery>>
    \/ part = "discovery" /\ D!Next /\ UNCHANGED <<part, vars, subscriptions>>
Whole == Begin /\ [][PartStep]_everything

(* The fairness of the parts, for the one that moves. *)
FairWhole ==
    /\ Whole
    /\ WF_everything(part = "notifier" /\ UnmountEnd /\ UNCHANGED <<part, subscriptions, discovery>>)
    /\ \A w \in Workers :
          WF_everything(part = "notifier" /\ WorkerStep(w) /\ UNCHANGED <<part, subscriptions, discovery>>)
    /\ \A m \in Messages :
          WF_everything(part = "notifier" /\ Show(m) /\ UNCHANGED <<part, subscriptions, discovery>>)
    /\ WF_everything(part = "discovery" /\ D!DiscoverStep /\ UNCHANGED <<part, vars, subscriptions>>)
    /\ \A i \in 1..4 :
          WF_everything(/\ part = "discovery" /\ i \in DOMAIN job /\ D!JobStep(i)
                        /\ UNCHANGED <<part, vars, subscriptions>>)

SubscriptionsKept == S!SubscriptionsKept
AllAreUnsubscribed == S!AllAreUnsubscribed
CamerasShown == D!CamerasShown
AllAnswersAreShown == D!AllAnswersAreShown
=============================================================================
