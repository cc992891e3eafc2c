----------------------------- MODULE OnvifProofs -----------------------------
(* Proofs about the three modules that MCOnvif puts together, for all       *)
(* values of its constants: of Notifier by itself, of Subscriptions through *)
(* SubscriptionsProofs, and of Discovery.                                   *)
EXTENDS MCOnvif, TLAPS

-----------------------------------------------------------------------------
(* Notifier *)

(* Every variable stays in its type under every step.                       *)
LEMMA TypeStep == TypeOK /\ [Next]_vars => TypeOK'
  <1> SUFFICES ASSUME TypeOK, [Next]_vars PROVE TypeOK'
    OBVIOUS
  <1> USE DEF TypeOK, Step
  <1>1. CASE Resubscribe
    BY <1>1, Zenon DEF Resubscribe
  <1>2. ASSUME NEW w \in Workers, Bind(w) PROVE TypeOK'
    BY <1>2, FaultsAssumption DEF Bind
  <1>3. ASSUME NEW w \in Workers, Record(w) \/ ServeEnd(w) \/ Close(w) \/ Report(w) \/ Forget(w)
        PROVE TypeOK'
    BY <1>3 DEF Record, ServeEnd, Close, Report, Forget
  <1>4. ASSUME NEW m \in Messages, Notify(m) \/ Read(m) \/ Show(m) PROVE TypeOK'
    BY <1>4 DEF Notify, Read, Show
  <1>5. CASE Unmount \/ UnmountEnd
    BY <1>5 DEF Unmount, UnmountEnd
  <1>6. CASE UNCHANGED vars
    BY <1>6 DEF vars
  <1>7. QED
    BY <1>1, <1>2, <1>3, <1>4, <1>5, <1>6 DEF Next, WorkerStep

LEMMA TypeInit == Init => TypeOK
  <1>1. Init => faults \in 0..MaxFaults
    BY FaultsAssumption DEF Init
  <1>2. QED
    BY <1>1, Zenon DEF Init, TypeOK

(* Type correctness: the server and its handlers never leave the states     *)
(* TypeOK names.                                                            *)
THEOREM NotifierTypes == Spec => []TypeOK
  BY TypeInit, TypeStep, PTL DEF Spec

(* Nobody but Resubscribe brings a worker to life, and that is recorded     *)
(* where another one was alive.                                             *)
LEMMA OneWorkerStep == TypeOK /\ OneWorker /\ [Next]_vars => OneWorker'
  <1> SUFFICES ASSUME TypeOK, OneWorker, [Next]_vars, ~raced', NEW v \in Alive', NEW w \in Alive'
               PROVE v = w
    BY DEF OneWorker
  <1> USE DEF OneWorker, Alive, Step
  <1>1. CASE Resubscribe
    <2>1. Alive = {}
      BY <1>1, Zenon DEF Resubscribe
    <2>2. PICK x \in Workers : Step(x, "none", "bind")
      BY <1>1 DEF Resubscribe
    <2>3. v = x /\ w = x
      BY <2>1, <2>2 DEF TypeOK
    <2>4. QED
      BY <2>3
  <1>2. ASSUME NEW x \in Workers, Bind(x) PROVE v = w
    BY <1>2 DEF Bind, TypeOK
  <1>3. ASSUME NEW x \in Workers,
               Record(x) \/ ServeEnd(x) \/ Close(x) \/ Report(x) \/ Forget(x)
        PROVE v = w
    BY <1>3 DEF Record, ServeEnd, Close, Report, Forget, TypeOK
  <1>4. CASE \E m \in Messages : Notify(m) \/ Read(m) \/ Show(m)
    BY <1>4 DEF Notify, Read, Show
  <1>5. CASE Unmount \/ UnmountEnd \/ UNCHANGED vars
    BY <1>5 DEF Unmount, UnmountEnd, vars
  <1>6. QED
    BY <1>1, <1>2, <1>3, <1>4, <1>5 DEF Next, WorkerStep

(* Record() makes the server known, and the one worker alive is the only    *)
(* one that could forget it.                                                *)
LEMMA KnownStep == TypeOK /\ OneWorker /\ ServerIsKnown /\ [Next]_vars => ServerIsKnown'
  <1> SUFFICES ASSUME TypeOK, OneWorker, ServerIsKnown, [Next]_vars, ~raced',
                      NEW w \in Workers, pc'[w] = "serve"
               PROVE httpd' = w
    BY DEF ServerIsKnown
  <1> USE DEF ServerIsKnown, Step, TypeOK
  <1>1. CASE Resubscribe
    BY <1>1 DEF Resubscribe
  <1>2. ASSUME NEW x \in Workers, Record(x) PROVE httpd' = w
    BY <1>2 DEF Record, OneWorker, Alive
  <1>3. ASSUME NEW x \in Workers, Forget(x) PROVE httpd' = w
    BY <1>3 DEF Forget, OneWorker, Alive
  <1>4. ASSUME NEW x \in Workers, Bind(x) \/ ServeEnd(x) \/ Close(x) \/ Report(x)
        PROVE httpd' = w
    BY <1>4 DEF Bind, ServeEnd, Close, Report
  <1>5. CASE \E m \in Messages : Notify(m) \/ Read(m) \/ Show(m)
    BY <1>5 DEF Notify, Read, Show
  <1>6. CASE Unmount \/ UnmountEnd \/ UNCHANGED vars
    BY <1>6 DEF Unmount, UnmountEnd, vars
  <1>7. QED
    BY <1>1, <1>2, <1>3, <1>4, <1>5, <1>6 DEF Next, WorkerStep

(* Close() waits for the handlers, and ServeEnd() leaves them at work.      *)
LEMMA HandlerStep == TypeOK /\ HandlerInv /\ [Next]_vars => HandlerInv'
  <1> SUFFICES ASSUME TypeOK, HandlerInv, [Next]_vars, NEW m \in Messages, Handled(m)'
               PROVE through'[m] \in Workers /\ pc'[through'[m]] \in {"serve", "close"}
    BY DEF HandlerInv
  <1> USE DEF HandlerInv, Handled, Step, TypeOK
  <1>1. CASE Resubscribe
    BY <1>1 DEF Resubscribe
  <1>2. ASSUME NEW x \in Workers, Close(x)
        PROVE through'[m] \in Workers /\ pc'[through'[m]] \in {"serve", "close"}
    BY <1>2 DEF Close, Pending
  <1>3. ASSUME NEW x \in Workers, Bind(x) \/ Record(x) \/ ServeEnd(x) \/ Report(x) \/ Forget(x)
        PROVE through'[m] \in Workers /\ pc'[through'[m]] \in {"serve", "close"}
    BY <1>3 DEF Bind, Record, ServeEnd, Report, Forget
  <1>4. ASSUME NEW n \in Messages, Notify(n) \/ Read(n) \/ Show(n)
        PROVE through'[m] \in Workers /\ pc'[through'[m]] \in {"serve", "close"}
    BY <1>4 DEF Notify, Read, Show
  <1>5. CASE Unmount \/ UnmountEnd \/ UNCHANGED vars
    BY <1>5 DEF Unmount, UnmountEnd, vars
  <1>6. QED
    BY <1>1, <1>2, <1>3, <1>4, <1>5 DEF Next, WorkerStep

LEMMA Invariant == Spec => []IInv
  <1>1. Init => IInv
    BY TypeInit DEF Init, IInv, OneWorker, Alive, ServerIsKnown, HandlerInv, Handled
  <1>2. IInv /\ [Next]_vars => IInv'
    BY TypeStep, OneWorkerStep, KnownStep, HandlerStep DEF IInv
  <1>3. QED
    BY <1>1, <1>2, PTL DEF Spec

(* A server that serves is the one in self.httpd, unless two subscriptions  *)
(* met an unset self.httpd, and a notification in a handler has a server    *)
(* that still waits for it, for any number of workers and cameras.          *)
THEOREM NotifierServerKept == Spec => []ServerKept
  <1>1. IInv => ServerKept
    BY DEF IInv, HandlerInv, EndedIsQuiet, ServerKept
  <1>2. QED
    BY <1>1, Invariant, PTL

-----------------------------------------------------------------------------
(* Subscriptions *)

P == INSTANCE SubscriptionsProofs
        WITH MaxFaults <- Lost, main <- key, faults <- unanswered

(* Both instances are of one module: a step of S is a step of P. *)
LEMMA SameStep == S!Next => P!Next
  BY DEF S!Next, S!MainStep, S!WorkerStep, S!Key, S!UnsubscribeOne, S!UnsubscribeEnd, S!Clear,
         S!Subscribe, S!Record, S!Fire, S!WorkerSubscribe, S!WorkerCount, S!Schedule,
         S!WorkerAppend, S!Expire, S!Fault, S!NoFault, S!Busy, S!Set, S!Work, S!Accepts,
         S!NextTopic, S!AbandonKey, S!camera, S!ui, S!Ids, S!NoId, S!Cardinality,
         P!Next, P!MainStep, P!WorkerStep, P!Key, P!UnsubscribeOne, P!UnsubscribeEnd, P!Clear,
         P!Subscribe, P!Record, P!Fire, P!WorkerSubscribe, P!WorkerCount, P!Schedule,
         P!WorkerAppend, P!Expire, P!Fault, P!NoFault, P!Busy, P!Set, P!Work, P!Accepts,
         P!NextTopic, P!AbandonKey, P!camera, P!ui, P!Ids, P!NoId, P!Cardinality

(* What P!SubscriptionsAreKept says of the module holds of the part of it.  *)
THEOREM OnvifSubscriptionsKept == Whole => []SubscriptionsKept
  <1>1. P!BoundsAssumption
    BY OnvifAssumption DEF S!BoundsAssumption, P!BoundsAssumption
  <1>2. Begin => P!Init
    BY DEF Begin, S!Init, P!Init, S!Ids, P!Ids, S!NoId, P!NoId
  <1>3. [PartStep]_everything => [P!Next]_P!vars
    BY SameStep DEF PartStep, everything, subscriptions, P!vars, P!camera, P!ui
  <1>4. P!SubscriptionsKept => SubscriptionsKept
    BY DEF SubscriptionsKept, S!SubscriptionsKept, S!TypeOK, S!RunningTimerIsReferenced,
           S!FewChains, S!RecordedOnce, S!Chains, S!Running, S!Busy, S!Recorded, S!Ids,
           S!Cardinality, P!SubscriptionsKept, P!TypeOK, P!RunningTimerIsReferenced,
           P!FewChains, P!RecordedOnce, P!Chains, P!Running, P!Busy, P!Recorded, P!Ids,
           P!Cardinality
  <1>5. P!Spec => []P!SubscriptionsKept
    BY <1>1, P!SubscriptionsAreKept
  <1>6. QED
    BY <1>2, <1>3, <1>4, <1>5, PTL DEF Whole, P!Spec

-----------------------------------------------------------------------------
(* Discovery *)

(* The types of the discovery. *)
LEMMA DiscoveryTypeInit == D!XAddrsAssumption /\ D!BoundsAssumption /\ D!Init => D!TypeOK
  BY DEF D!BoundsAssumption, D!Init, D!TypeOK

(* The address that the loops look at is one. *)
LEMMA AddressType ==
    ASSUME D!XAddrsAssumption, D!TypeOK, D!Filtering, nth <= Len(D!Listed)
    PROVE  /\ responses[next] \in D!Answers /\ D!Listed = XAddrs[responses[next].from]
           /\ nth \in DOMAIN D!Listed /\ D!Address \in D!Addrs
  <1>1. next \in 1..Len(responses) /\ responses[next] \in D!Answers
    BY DEF D!TypeOK, D!Filtering
  <1>2. D!Listed \in Seq(D!Addrs)
    BY <1>1 DEF D!XAddrsAssumption, D!Listed, D!Answers
  <1>3. QED
    BY <1>1, <1>2 DEF D!TypeOK, D!Listed, D!Address

(* A step of one job is a step of that job only. *)
LEMMA MoveType ==
    ASSUME D!TypeOK, NEW i \in DOMAIN job, NEW from,
           NEW to \in {"submitted", "running", "filled", "taken"}, D!Move(i, from, to)
    PROVE  /\ job' \in Seq({"submitted", "running", "filled", "taken"}) /\ Len(job') = Len(job)
           /\ \A k \in DOMAIN job : job'[k] = IF k = i THEN to ELSE job[k]
  BY DEF D!TypeOK, D!Move

(* The addresses of an answer are a sequence of addresses. *)
LEMMA ListedType ==
    ASSUME D!XAddrsAssumption, NEW s \in Seq(D!Answers), NEW i \in DOMAIN s
    PROVE  /\ XAddrs[s[i].from] \in Seq(D!Addrs) /\ i \in Nat
           /\ DOMAIN XAddrs[s[i].from] = 1..Len(XAddrs[s[i].from])
  <1>1. s[i] \in D!Answers /\ i \in Nat
    OBVIOUS
  <1>2. QED
    BY <1>1 DEF D!XAddrsAssumption, D!Answers

(* Every variable of the discovery stays in its type under every step.     *)
LEMMA DiscoveryTypeStep ==
    D!XAddrsAssumption /\ D!BoundsAssumption /\ D!TypeOK /\ [D!Next]_discovery => D!TypeOK'
  <1> SUFFICES ASSUME D!XAddrsAssumption, D!BoundsAssumption, D!TypeOK, [D!Next]_discovery
               PROVE D!TypeOK'
    OBVIOUS
  <1> USE DEF D!TypeOK
  <1>1. CASE D!Receive
    <2>1. PICK a \in D!Answers : responses' = Append(responses, a)
      BY <1>1 DEF D!Receive
    <2>2. responses' \in Seq(D!Answers) /\ Len(responses') = Len(responses) + 1
      BY <2>1
    <2>3. next \in 1..Len(responses') + 1 /\ Len(responses') <= MaxAnswers
      BY <1>1, <2>2 DEF D!Receive, D!BoundsAssumption
    <2>4. QED
      BY <1>1, <2>2, <2>3, Zenon DEF D!Receive
  <1>2. CASE D!Timeout
    BY <1>2 DEF D!Timeout
  <1>3. CASE D!Filter
    <2>1. D!Address \in D!Addrs
      BY <1>3, AddressType DEF D!Filter
    <2>2. jobs' \in Seq(D!Addrs) /\ Len(jobs') >= Len(jobs)
      BY <1>3, <2>1 DEF D!Filter
    <2>3. QED
      BY <1>3, <2>2 DEF D!Filter
  <1>4. CASE D!FilterNext \/ D!FilterRaise
    BY <1>4 DEF D!FilterNext, D!FilterRaise, D!Filtering
  <1>5. CASE D!Submit
    <2>1. job' \in Seq({"submitted", "running", "filled", "taken"}) /\ Len(job') = Len(jobs)
      BY <1>5 DEF D!Submit
    <2>2. QED
      BY <1>5, <2>1 DEF D!Submit
  <1>6. ASSUME NEW i \in DOMAIN job, D!Run(i) \/ D!Fill(i) PROVE D!TypeOK'
    <2>1. job' \in Seq({"submitted", "running", "filled", "taken"}) /\ Len(job') = Len(job)
      BY <1>6, MoveType DEF D!Run, D!Fill
    <2>2. QED
      BY <1>6, <2>1 DEF D!Run, D!Fill
  <1>7. ASSUME NEW i \in DOMAIN job, D!Show(i) PROVE D!TypeOK'
    BY <1>7 DEF D!Show, D!Move
  <1>8. ASSUME NEW i \in DOMAIN job, D!ShowRaise(i) PROVE D!TypeOK'
    BY <1>8 DEF D!ShowRaise, D!Move, D!BoundsAssumption
  <1>9. CASE D!Return \/ D!Quit
    BY <1>9 DEF D!Return, D!Quit
  <1>10. CASE UNCHANGED discovery
    BY <1>10 DEF discovery
  <1>11. QED
    BY <1>1, <1>2, <1>3, <1>4, <1>5, <1>6, <1>7, <1>8, <1>9, <1>10 DEF D!Next, D!DiscoverStep, D!JobStep

(* What was answered is answered, also while further answers come.          *)
LEMMA AnsweredStays == ASSUME D!TypeOK, responses' = responses PROVE D!Answered' = D!Answered
  BY DEF D!Answered

(* Only the loops make jobs, each of an address that is not one yet.        *)
LEMMA JobsStep ==
    D!XAddrsAssumption /\ D!TypeOK /\ D!PhaseInv /\ D!JobsInv /\ [D!Next]_discovery => D!JobsInv'
  <1> SUFFICES ASSUME D!XAddrsAssumption, D!TypeOK, D!PhaseInv, D!JobsInv, [D!Next]_discovery PROVE D!JobsInv'
    OBVIOUS
  <1>1. ASSUME UNCHANGED <<responses, next, nth, jobs>> PROVE D!JobsInv'
    BY <1>1 DEF D!JobsInv, D!Answered, D!Passed
  <1>2. CASE D!Receive
    <2>1. jobs = <<>> /\ next = 1 /\ nth = 1 /\ UNCHANGED <<next, nth, jobs>>
      BY <1>2 DEF D!Receive, D!PhaseInv
    <2>2. \A i \in DOMAIN responses', n \in Nat \ {0} : ~D!Passed(i, n)'
      BY <1>2, <2>1 DEF D!Receive, D!Passed, D!TypeOK
    <2>3. D!ToSet(jobs)' = {}
      BY <2>1 DEF D!ToSet
    <2>4. \A i \in DOMAIN responses' : XAddrs[responses'[i].from] \in Seq(D!Addrs)
      <3>1. responses' \in Seq(D!Answers)
        BY <1>2 DEF D!Receive, D!TypeOK
      <3>2. QED
        BY <3>1, ListedType
    <2>5. QED
      BY <2>1, <2>2, <2>3, <2>4 DEF D!JobsInv
  <1>3. CASE D!Filter
    <2> DEFINE answer == responses[next]
    <2>1. /\ answer \in D!Answers /\ answer.mine /\ D!Listed = XAddrs[answer.from]
          /\ nth \in DOMAIN D!Listed /\ D!Address \in D!Addrs /\ next \in DOMAIN responses
      BY <1>3, AddressType DEF D!Filter, D!Filtering, D!TypeOK
    <2>2. D!Address \in D!Answered
      BY <2>1 DEF D!Answered, D!ToSet, D!Address
    <2>3. UNCHANGED <<responses, next>> /\ nth' = nth + 1 /\ D!Address \notin Unparsable
      BY <1>3 DEF D!Filter, D!JobsInv
    <2>4. D!Answered' = D!Answered
      BY <2>3, AnsweredStays
    <2>5. \A i, j \in DOMAIN jobs' : jobs'[i] = jobs'[j] => i = j
      BY <1>3, <2>1 DEF D!Filter, D!JobsInv, D!ToSet, D!TypeOK
    <2>6. D!ToSet(jobs') \subseteq D!ToSet(jobs) \cup ({D!Address} \ Filtered)
      BY <1>3, <2>1 DEF D!Filter, D!ToSet, D!TypeOK
    <2>7. D!ToSet(jobs)' \subseteq (D!Answered \ (Filtered \cup Unparsable))'
      BY <2>2, <2>3, <2>4, <2>6 DEF D!JobsInv
    <2>8. ASSUME NEW i \in DOMAIN responses, responses[i].mine,
                 NEW n \in DOMAIN XAddrs[responses[i].from], D!Passed(i, n)'
          PROVE  XAddrs[responses[i].from][n] \notin Unparsable
      <3>1. CASE i = next /\ n = nth
        BY <2>1, <2>3, <3>1 DEF D!Address
      <3>2. CASE ~(i = next /\ n = nth)
        <4>1. n \in Nat
          BY <2>8, ListedType DEF D!TypeOK
        <4>2. D!Passed(i, n)
          BY <2>3, <2>8, <3>2, <4>1 DEF D!Passed, D!TypeOK
        <4>3. QED
          BY <2>8, <4>2 DEF D!JobsInv
      <3>3. QED
        BY <3>1, <3>2
    <2>9. QED
      BY <2>3, <2>5, <2>7, <2>8 DEF D!JobsInv
  <1>4. CASE D!FilterNext
    <2>1. D!Filtering /\ next' = next + 1 /\ nth' = 1 /\ UNCHANGED <<responses, jobs>>
      BY <1>4 DEF D!FilterNext
    <2>2. ASSUME NEW i \in DOMAIN responses, responses[i].mine,
                 NEW n \in DOMAIN XAddrs[responses[i].from], D!Passed(i, n)'
          PROVE  XAddrs[responses[i].from][n] \notin Unparsable
      <3>1. n \in 1..Len(XAddrs[responses[i].from]) /\ XAddrs[responses[i].from] \in Seq(D!Addrs)
        BY <2>2, ListedType DEF D!TypeOK
      <3>2. D!Passed(i, n)
        BY <1>4, <2>1, <2>2, <3>1 DEF D!Passed, D!FilterNext, D!Listed, D!TypeOK
      <3>3. QED
        BY <2>2, <3>2 DEF D!JobsInv
    <2>3. QED
      BY <2>1, <2>2, AnsweredStays DEF D!JobsInv
  <1>5. CASE D!Timeout \/ D!FilterRaise \/ D!Submit \/ D!Return \/ D!Quit
    BY <1>1, <1>5 DEF D!Timeout, D!FilterRaise, D!Submit, D!Return, D!Quit
  <1>6. ASSUME NEW i \in DOMAIN job, D!JobStep(i) PROVE D!JobsInv'
    BY <1>1, <1>6 DEF D!JobStep, D!Run, D!Fill, D!Show, D!ShowRaise
  <1>7. CASE UNCHANGED discovery
    BY <1>1, <1>7 DEF discovery
  <1>8. QED
    BY <1>2, <1>3, <1>4, <1>5, <1>6, <1>7 DEF D!Next, D!DiscoverStep

(* The phases follow one another, and nothing runs before it is submitted.  *)
LEMMA PhaseStep == D!TypeOK /\ D!PhaseInv /\ [D!Next]_discovery => D!PhaseInv'
  <1> SUFFICES ASSUME D!TypeOK, D!PhaseInv, [D!Next]_discovery PROVE D!PhaseInv'
    OBVIOUS
  <1> USE DEF D!PhaseInv, D!TypeOK
  <1>1. CASE D!Receive \/ D!Timeout
    BY <1>1 DEF D!Receive, D!Timeout
  <1>2. CASE D!Filter \/ D!FilterNext \/ D!FilterRaise
    BY <1>2 DEF D!Filter, D!FilterNext, D!FilterRaise, D!Filtering
  <1>3. CASE D!Submit
    BY <1>3 DEF D!Submit
  <1>4. ASSUME NEW i \in DOMAIN job, D!JobStep(i) PROVE D!PhaseInv'
    <2>1. job # <<>>
      BY <1>4
    <2>2. job' # <<>> /\ next > Len(responses)
      BY <1>4, <2>1 DEF D!JobStep, D!Run, D!Fill, D!Show, D!ShowRaise, D!Move
    <2>3. QED
      BY <1>4, <2>1, <2>2 DEF D!JobStep, D!Run, D!Fill, D!Show, D!ShowRaise
  <1>5. CASE D!Return \/ D!Quit \/ UNCHANGED discovery
    BY <1>5 DEF D!Return, D!Quit, discovery
  <1>6. QED
    BY <1>1, <1>2, <1>3, <1>4, <1>5 DEF D!Next, D!DiscoverStep

(* A job is taken once, and it is that job's address that is shown.         *)
LEMMA TreeStep ==
    D!TypeOK /\ D!PhaseInv /\ D!JobsInv /\ D!TreeInv /\ [D!Next]_discovery => D!TreeInv'
  <1> SUFFICES ASSUME D!TypeOK, D!PhaseInv, D!JobsInv, D!TreeInv, [D!Next]_discovery PROVE D!TreeInv'
    OBVIOUS
  <1> USE DEF D!TreeInv, D!ShownOnce, D!Of, D!TypeOK
  <1>1. ASSUME UNCHANGED <<tree, jobs, job>> PROVE D!TreeInv'
    BY <1>1
  <1>2. CASE D!Filter \/ D!FilterNext \/ D!FilterRaise \/ D!Submit
    BY <1>2 DEF D!Filter, D!FilterNext, D!FilterRaise, D!Filtering, D!Submit, D!PhaseInv
  <1>3. ASSUME NEW i \in DOMAIN job, D!Run(i) \/ D!Fill(i) \/ D!ShowRaise(i) PROVE D!TreeInv'
    <2>1. UNCHANGED <<tree, jobs>>
      BY <1>3 DEF D!Run, D!Fill, D!ShowRaise
    <2>2. job[i] # "taken" /\ DOMAIN job' = DOMAIN job
      BY <1>3, MoveType DEF D!Run, D!Fill, D!ShowRaise, D!Move
    <2>3. \A k \in DOMAIN job : k # i => job'[k] = job[k]
      BY <1>3, MoveType DEF D!Run, D!Fill, D!ShowRaise
    <2>4. D!Of("taken") \subseteq D!Of("taken")'
      BY <2>2, <2>3
    <2>5. QED
      BY <2>1, <2>4
  <1>4. ASSUME NEW i \in DOMAIN job, D!Show(i) PROVE D!TreeInv'
    <2>1. /\ tree' = Append(tree, jobs[i]) /\ job[i] = "filled" /\ jobs' = jobs
          /\ job' = [job EXCEPT ![i] = "taken"] /\ i \in DOMAIN jobs /\ jobs[i] \in D!Addrs
      BY <1>4 DEF D!Show, D!Move
    <2>2. \A k \in DOMAIN tree : tree[k] # jobs[i]
      <3>1. \A k \in DOMAIN tree : \E l \in DOMAIN job :
              job[l] = "taken" /\ l \in DOMAIN jobs /\ tree[k] = jobs[l]
        OBVIOUS
      <3>2. QED
        BY <2>1, <3>1 DEF D!JobsInv
    <2>3. \A k \in DOMAIN tree' : \/ k \in DOMAIN tree /\ tree'[k] = tree[k]
                                  \/ k = Len(tree) + 1 /\ tree'[k] = jobs[i]
      <3>1. Len(tree) \in Nat /\ DOMAIN tree = 1..Len(tree) /\ DOMAIN tree' = 1..(Len(tree) + 1)
        BY <2>1
      <3>2. tree'[Len(tree) + 1] = jobs[i] /\ \A k \in 1..Len(tree) : tree'[k] = tree[k]
        BY <2>1
      <3> HIDE DEF D!TreeInv, D!ShownOnce, D!Of, D!TypeOK
      <3>3. QED
        BY <3>1, <3>2
    <2>4. D!Of("taken")' = D!Of("taken") \cup {i}
      BY <2>1
    <2>5. ASSUME NEW k \in DOMAIN tree' PROVE \E l \in D!Of("taken")' : tree'[k] = jobs'[l]
      <3>1. CASE k \in DOMAIN tree /\ tree'[k] = tree[k]
        <4>1. PICK l \in D!Of("taken") : tree[k] = jobs[l]
          BY <3>1
        <4>2. QED
          BY <2>1, <2>4, <3>1, <4>1
      <3>2. CASE k = Len(tree) + 1 /\ tree'[k] = jobs[i]
        BY <2>1, <2>4, <3>2
      <3>3. QED
        BY <2>3, <3>1, <3>2
    <2>6. Len(tree) + 1 \notin DOMAIN tree
      OBVIOUS
    <2>7. ASSUME NEW k \in DOMAIN tree', NEW l \in DOMAIN tree', tree'[k] = tree'[l] PROVE k = l
      BY <2>2, <2>3, <2>7
    <2>8. QED
      BY <2>5, <2>7
  <1>5. CASE D!Receive \/ D!Timeout \/ D!Return \/ D!Quit \/ UNCHANGED discovery
    BY <1>1, <1>5 DEF D!Receive, D!Timeout, D!Return, D!Quit, discovery
  <1>6. QED
    BY <1>2, <1>3, <1>4, <1>5 DEF D!Next, D!DiscoverStep, D!JobStep

(* What is shown is taken from the jobs, and the jobs from the answers.     *)
LEMMA CamerasShownFollows == D!XAddrsAssumption /\ D!IInv => D!CamerasShown
  <1> SUFFICES ASSUME D!XAddrsAssumption, D!IInv PROVE D!CamerasShown
    OBVIOUS
  <1> USE DEF D!IInv
  <1>1. D!OnlyAnswered
    <2> SUFFICES ASSUME NEW i \in DOMAIN tree PROVE tree[i] \in D!Answered \ Filtered
      BY DEF D!OnlyAnswered, D!ToSet
    <2>1. PICK k \in DOMAIN job : tree[i] = jobs[k]
      BY DEF D!TreeInv, D!Of
    <2>2. k \in DOMAIN jobs
      BY <2>1 DEF D!TypeOK
    <2>3. QED
      BY <2>1, <2>2 DEF D!JobsInv, D!ToSet
  <1>2. D!AllOrNothing
    <2> SUFFICES ASSUME tree # <<>>, NEW x \in D!Answered PROVE x \notin Unparsable
      BY DEF D!AllOrNothing
    <2>1. job # <<>>
      <3>1. 1 \in DOMAIN tree
        BY DEF D!TypeOK
      <3>2. QED
        BY <3>1 DEF D!TreeInv, D!Of
    <2>2. next > Len(responses)
      BY <2>1 DEF D!PhaseInv
    <2>3. PICK i \in DOMAIN responses : responses[i].mine /\ x \in D!ToSet(XAddrs[responses[i].from])
      BY DEF D!Answered
    <2>4. PICK n \in DOMAIN XAddrs[responses[i].from] : x = XAddrs[responses[i].from][n]
      BY <2>3 DEF D!ToSet
    <2>5. D!Passed(i, n)
      BY <2>2 DEF D!Passed, D!TypeOK
    <2>6. QED
      BY <2>3, <2>4, <2>5 DEF D!JobsInv
  <1>3. QED
    BY <1>1, <1>2 DEF D!TreeInv, D!CamerasShown

LEMMA DiscoveryInit == D!XAddrsAssumption /\ D!BoundsAssumption /\ D!Init => D!IInv
  <1> SUFFICES ASSUME D!XAddrsAssumption, D!BoundsAssumption, D!Init PROVE D!IInv
    OBVIOUS
  <1>1. D!TypeOK
    BY DiscoveryTypeInit
  <1>2. D!JobsInv
    BY DEF D!Init, D!JobsInv, D!ToSet
  <1>3. D!PhaseInv /\ D!TreeInv
    BY DEF D!Init, D!PhaseInv, D!TreeInv, D!ShownOnce
  <1>4. QED
    BY <1>1, <1>2, <1>3 DEF D!IInv

(* For any cameras, addresses, answers and pool: a camera is shown once,    *)
(* only of those who answered this Probe, and none if an answer has a host  *)
(* name for an address.                                                     *)
THEOREM OnvifCamerasShown == Whole => []CamerasShown
  <1>1. D!XAddrsAssumption /\ D!BoundsAssumption
    BY OnvifAssumption
  <1>2. Begin => D!IInv
    BY <1>1, DiscoveryInit DEF Begin
  <1>3. [PartStep]_everything => [D!Next]_discovery
    BY DEF PartStep, everything
  <1>4. D!IInv /\ [D!Next]_discovery => D!IInv'
    BY <1>1, DiscoveryTypeStep, JobsStep, PhaseStep, TreeStep DEF D!IInv
  <1>5. D!IInv => CamerasShown
    BY <1>1, CamerasShownFollows DEF CamerasShown
  <1>6. QED
    BY <1>2, <1>3, <1>4, <1>5, PTL DEF Whole
=============================================================================
