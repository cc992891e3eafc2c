------------------------------ MODULE Discovery ------------------------------
(***************************************************************************)
(* The discovery of cameras: discover() in                                 *)
(* src/examples/onvif/devices/camera.py, run by discover_worker() of       *)
(* src/examples/onvif/tui.py on a thread.  One Probe is sent; answers are  *)
(* collected until none comes for half a second, then filtered; a pool of  *)
(* threads asks every camera for its data and the main thread shows them   *)
(* in the order in which they are complete.                                *)
(***************************************************************************)
EXTENDS Integers, Sequences, SequencesExt

CONSTANTS Cameras,    \* devices that answer
          XAddrs,     \* the addresses in the answer of each, a function to sequences
          Unparsable, \* addresses with a host name, which ip_address() refuses
          Filtered,   \* IPv6, link-local, loopback and 0.0.0.0
          Workers,    \* size of the pool
          MaxAnswers, \* bound on the answers received
          MaxFaults   \* bound on exceptions of camera_filled

BoundsAssumption ==
    Workers \in Nat \ {0} /\ MaxAnswers \in Nat /\ MaxFaults \in Nat

Addrs == UNION {ToSet(XAddrs[c]) : c \in Cameras}
XAddrsAssumption == \A c \in Cameras : XAddrs[c] \in Seq(Addrs)

VARIABLES
    phase,     \* discover(): window, filter, pool, returned or raised
    responses, \* the answers received: camera and the Probe they relate to
    at, nth,   \* the answer, and the address of it, that is to be filtered next
    jobs,      \* camera_jobs
    job,       \* what has become of each job
    tree,      \* the cameras that the interface shows
    open,      \* does the interface run?
    faults

vars == <<phase, responses, at, nth, jobs, job, tree, open, faults>>

Answers == [from : Cameras, mine : BOOLEAN]

TypeOK ==
    /\ phase \in {"window", "filter", "pool", "returned", "raised"}
    /\ responses \in Seq(Answers) /\ Len(responses) <= MaxAnswers
    /\ at \in 1..Len(responses) + 1 /\ nth \in Nat \ {0}
    /\ jobs \in Seq(Addrs)
    /\ job \in Seq({"submitted", "running", "filled", "taken"}) /\ Len(job) <= Len(jobs)
    /\ tree \in Seq(Addrs)
    /\ open \in BOOLEAN /\ faults \in 0..MaxFaults

Init ==
    /\ phase = "window" /\ responses = <<>> /\ at = 1 /\ nth = 1
    /\ jobs = <<>> /\ job = <<>> /\ tree = <<>>
    /\ open = TRUE /\ faults = 0

-----------------------------------------------------------------------------
(* recvfrom(): a camera may answer twice, or an earlier Probe; UDP reorders. *)
Receive ==
    /\ phase = "window" /\ Len(responses) < MaxAnswers
    /\ \E a \in Answers : responses' = Append(responses, a)
    /\ UNCHANGED <<phase, at, nth, jobs, job, tree, open, faults>>

(* socket.timeout: whatever comes later is lost. *)
Timeout ==
    /\ phase = "window" /\ phase' = "filter"
    /\ UNCHANGED <<responses, at, nth, jobs, job, tree, open, faults>>

(* The loop over the answers and, within, over the addresses of one.        *)
Filtering == phase = "filter" /\ at <= Len(responses)
Listed == XAddrs[responses[at].from]
Address == Listed[nth]

(* Mutant: an address that cannot be parsed is skipped. *)
FilterSkips ==
    /\ Filtering /\ responses[at].mine /\ nth <= Len(Listed) /\ nth' = nth + 1
    /\ jobs' = IF Address \in ToSet(jobs) \cup Filtered \cup Unparsable
               THEN jobs ELSE Append(jobs, Address)
    /\ UNCHANGED <<phase, responses, at, job, tree, open, faults>>

(* An address becomes a job unless it is one already or of no use.          *)
Filter ==
    /\ Filtering /\ responses[at].mine /\ nth <= Len(Listed) /\ nth' = nth + 1
    /\ Address \notin Unparsable \ ToSet(jobs)
    /\ jobs' = IF Address \in ToSet(jobs) \cup Filtered THEN jobs ELSE Append(jobs, Address)
    /\ UNCHANGED <<phase, responses, at, job, tree, open, faults>>

(* The next answer: this one is done, or it relates to another Probe.       *)
FilterNext ==
    /\ Filtering /\ (responses[at].mine => nth > Len(Listed))
    /\ at' = at + 1 /\ nth' = 1
    /\ UNCHANGED <<phase, responses, jobs, job, tree, open, faults>>

(* ip_address() raises, out of discover(): the other answers are lost too.  *)
FilterRaise ==
    /\ Filtering /\ responses[at].mine /\ nth <= Len(Listed)
    /\ Address \in Unparsable \ ToSet(jobs) /\ phase' = "raised"
    /\ UNCHANGED <<responses, at, nth, jobs, job, tree, open, faults>>

Submit ==
    /\ phase = "filter" /\ at > Len(responses) /\ phase' = "pool"
    /\ job' = [i \in DOMAIN jobs |-> "submitted"]
    /\ UNCHANGED <<responses, at, nth, jobs, tree, open, faults>>

-----------------------------------------------------------------------------
Of(state) == {i \in DOMAIN job : job[i] = state}
Move(i, from, to) == job[i] = from /\ job' = [job EXCEPT ![i] = to]

(* A thread of the pool takes the job that was submitted first.             *)
Run(i) ==
    /\ Cardinality(Of("running")) < Workers /\ Move(i, "submitted", "running")
    /\ \A j \in 1..i - 1 : job[j] # "submitted"
    /\ UNCHANGED <<phase, responses, at, nth, jobs, tree, open, faults>>

(* get_camera() returns a camera whatever its requests have come to.        *)
Fill(i) ==
    /\ Move(i, "running", "filled")
    /\ UNCHANGED <<phase, responses, at, nth, jobs, tree, open, faults>>

(* as_completed(), then camera_filled(): add_camera on the main thread.     *)
Show(i) ==
    /\ phase = "pool" /\ open /\ Move(i, "filled", "taken")
    /\ tree' = Append(tree, jobs[i])
    /\ UNCHANGED <<phase, responses, at, nth, jobs, open, faults>>

(* Mutant: what add_camera raises is ignored. *)
ShowIgnore(i) ==
    /\ phase = "pool" /\ Move(i, "filled", "taken")
    /\ IF open THEN faults < MaxFaults /\ faults' = faults + 1 ELSE UNCHANGED faults
    /\ UNCHANGED <<phase, responses, at, nth, jobs, tree, open>>

(* add_camera raises, or the interface has gone: no further camera is taken. *)
ShowRaise(i) ==
    /\ phase = "pool" /\ Move(i, "filled", "taken") /\ phase' = "raised"
    /\ IF open THEN faults < MaxFaults /\ faults' = faults + 1 ELSE UNCHANGED faults
    /\ UNCHANGED <<responses, at, nth, jobs, tree, open>>

Return ==
    /\ phase = "pool" /\ Of("taken") = DOMAIN job
    /\ phase' = "returned"
    /\ UNCHANGED <<responses, at, nth, jobs, job, tree, open, faults>>

(* The user leaves the interface. *)
Quit ==
    /\ open /\ open' = FALSE
    /\ UNCHANGED <<phase, responses, at, nth, jobs, job, tree, faults>>

JobStep(i) == Run(i) \/ Fill(i) \/ Show(i) \/ ShowRaise(i)
DiscoverStep == Timeout \/ Filter \/ FilterNext \/ FilterRaise \/ Submit \/ Return
Next == Receive \/ Quit \/ DiscoverStep \/ \E i \in DOMAIN job : JobStep(i)

Spec == Init /\ [][Next]_vars

(* The worker and the pool are scheduled; every request to a camera ends,   *)
(* as does the window: a network that never is silent keeps it open.        *)
FairSpec ==
    Spec /\ WF_vars(DiscoverStep) /\ \A i \in 1..Cardinality(Addrs) : WF_vars(i \in DOMAIN job /\ JobStep(i))

-----------------------------------------------------------------------------
(* Properties *)

(* The addresses that answered this Probe. *)
Answered ==
    UNION {ToSet(XAddrs[responses[i].from]) : i \in {j \in DOMAIN responses : responses[j].mine}}

(* However often a camera answers, and whatever it has in common with the   *)
(* next one, it is asked and shown once.                                    *)
ShownOnce ==
    \A i, j \in DOMAIN tree : tree[i] = tree[j] => i = j

(* Answers to an earlier Probe, and addresses that no camera can be reached *)
(* at from here, show nothing.                                              *)
OnlyAnswered == ToSet(tree) \subseteq Answered \ Filtered

(* One address with a host name loses all cameras (line 947): what is shown *)
(* at all is shown of a batch without any.                                  *)
AllOrNothing == tree # <<>> => Answered \cap Unparsable = {}

(* What the interface shows of the answers. *)
CamerasShown == TypeOK /\ ShownOnce /\ OnlyAnswered /\ AllOrNothing

(* What answered in time is shown, unless such an address, an exception of  *)
(* camera_filled or the user ends the discovery.                            *)
AllAnswersAreShown ==
    \A x \in Addrs \ Filtered :
        x \in Answered /\ phase = "filter" ~> x \in ToSet(tree) \/ phase = "raised"

-----------------------------------------------------------------------------
(* Inductive invariants *)

(* An answer, or an address of one, that the loops have passed.             *)
Passed(i, n) == i < at \/ (i = at /\ n < nth)

(* What the loops have made of what they have passed: no address twice, none*)
(* that nobody answered with, and none that would have raised.              *)
JobsInv ==
    /\ \A i, j \in DOMAIN jobs : jobs[i] = jobs[j] => i = j
    /\ ToSet(jobs) \subseteq Answered \ (Filtered \cup Unparsable)
    /\ \A i \in DOMAIN responses : responses[i].mine =>
          \A n \in DOMAIN XAddrs[responses[i].from] :
              Passed(i, n) => XAddrs[responses[i].from][n] \notin Unparsable

(* The phases follow one another: nothing is filtered while answers come,   *)
(* and nothing is submitted before all are filtered.                        *)
PhaseInv ==
    /\ phase = "window" => jobs = <<>> /\ at = 1 /\ nth = 1
    /\ phase \in {"window", "filter"} => job = <<>> /\ tree = <<>>
    /\ phase \in {"pool", "returned"} \/ job # <<>> => at > Len(responses)

(* The interface shows what was taken from the pool, once. *)
TreeInv ==
    /\ \A i \in DOMAIN tree : \E k \in Of("taken") : tree[i] = jobs[k]
    /\ ShownOnce

IInv == TypeOK /\ JobsInv /\ PhaseInv /\ TreeInv
=============================================================================
