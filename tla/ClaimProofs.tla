---------------------------- MODULE ClaimProofs -----------------------------
(***************************************************************************)
(* Theorems about the life of a claim.  ClaimBudget: cur_claim_max_age_secs*)
(* covers every call a job makes while it holds its claim, for every       *)
(* choice of the timeouts, on a host that does not sleep.  The inductive   *)
(* invariant says how much time the task can still spend: the age of the   *)
(* claim, what is left of the call in progress and the timeouts of all the *)
(* calls ahead stay within the budget.  Delivery: how often a job is       *)
(* started, and for what reason an entry ends where it does.               *)
(***************************************************************************)
EXTENDS ClaimBudget, Delivery, FiniteSetTheorems, SequenceTheorems, TLAPS

\* The budget without saturation.
CheckBudget == IF CompletionCheck THEN 6 * ApiTimeout ELSE 0
Budget ==
    JobMaxRuntime + 12 * ApiTimeout + CheckBudget + VM_PER_JOB_COMMAND_BUDGET

\* What the requests after request t of a GitHub call may take.
TripsAhead(t) == (6 - t) * ApiTimeout

\* What the calls after phase p may take.
PhasesAhead(p) ==
    CASE p = "mint" -> Budget - 6 * ApiTimeout
      [] p = "start" -> CopyTimeout + JobMaxRuntime + 2 * ListTimeout + StopTimeout
                          + DeleteTimeout + 6 * ApiTimeout + CheckBudget
      [] p = "copy" -> JobMaxRuntime + 2 * ListTimeout + StopTimeout
                          + DeleteTimeout + 6 * ApiTimeout + CheckBudget
      [] p = "shell" -> 2 * ListTimeout + StopTimeout
                          + DeleteTimeout + 6 * ApiTimeout + CheckBudget
      [] p = "capture" -> ListTimeout + StopTimeout
                          + DeleteTimeout + 6 * ApiTimeout + CheckBudget
      [] p = "stop" -> ListTimeout + DeleteTimeout + 6 * ApiTimeout + CheckBudget
      [] p = "delete" -> ListTimeout + 6 * ApiTimeout + CheckBudget
      [] p = "recheck" -> 6 * ApiTimeout + CheckBudget
      [] p = "dereg" -> CheckBudget
      [] p = "check" -> 0

Ahead == PhasesAhead(phase) + (IF phase \in GithubPhases THEN TripsAhead(trip) ELSE 0)

BudgetInv ==
    /\ TypeOK
    /\ stamp <= wall
    /\ now <= wall
    /\ phase # "none" => claim /\ (wall - stamp) + left + Ahead <= Budget
    /\ gc = "expire" => claim /\ phase = "none"
-----------------------------------------------------------------------------
LEMMA BudgetTypes ==
    /\ CheckBudget \in Nat
    /\ VM_PER_JOB_COMMAND_BUDGET \in Nat
    /\ Budget \in Nat
    /\ \A p \in Phases : Timeout(p) \in Nat
  BY BudgetAssumption
     DEF CheckBudget, VM_PER_JOB_COMMAND_BUDGET, Budget, Timeout, Phases,
         GithubPhases, LimaPhases

(* Saturation never makes the limit smaller than an age that can occur. *)
LEMMA LimitCoversBudget ==
    ASSUME NEW age \in Nat, age <= Budget, age <= U64Max
    PROVE  ~(age > cur_claim_max_age_secs)
  <1> DEFINE calls == IF CompletionCheck THEN 3 ELSE 2
             call == SatMul(ApiTimeout, GH_ROUNDTRIPS_PER_CALL)
             api == SatMul(call, calls)
             sum == SatAdd(JobMaxRuntime, api)
             vm == VM_PER_JOB_COMMAND_BUDGET
  <1>1. vm \in Nat
    BY BudgetTypes
  <1>2. call \in Nat /\ call = LeastOf(6 * ApiTimeout, U64Max)
    BY BudgetAssumption DEF SatMul, LeastOf, GH_ROUNDTRIPS_PER_CALL
  <1>3. api \in Nat /\ (api >= 12 * ApiTimeout + CheckBudget \/ api >= U64Max)
    <2>1. CASE CompletionCheck
      BY <2>1, <1>2, BudgetAssumption DEF SatMul, LeastOf, CheckBudget
    <2>2. CASE ~CompletionCheck
      BY <2>2, <1>2, BudgetAssumption DEF SatMul, LeastOf, CheckBudget
    <2> QED
      BY <2>1, <2>2
  <1>4. /\ sum \in Nat
        /\ \/ sum >= JobMaxRuntime + 12 * ApiTimeout + CheckBudget
           \/ sum >= U64Max
    BY <1>3, BudgetTypes, BudgetAssumption DEF SatAdd, LeastOf
  <1>5. SatAdd(sum, vm) \in Nat /\ (SatAdd(sum, vm) >= Budget \/ SatAdd(sum, vm) >= U64Max)
    BY <1>1, <1>4, BudgetTypes, BudgetAssumption DEF SatAdd, LeastOf, Budget
  <1>6. cur_claim_max_age_secs = SatAdd(sum, vm)
    BY DEF cur_claim_max_age_secs
  <1> QED
    BY <1>5, <1>6, BudgetTypes, BudgetAssumption

LEMMA TripsShrink ==
    ASSUME NEW t \in Trips, NEW u \in Trips, u > t
    PROVE  /\ TripsAhead(t) \in Nat /\ TripsAhead(u) \in Nat
           /\ ApiTimeout + TripsAhead(u) <= TripsAhead(t)
  <1>1. ApiTimeout \in Nat
    BY BudgetAssumption
  <1>2. t \in {1, 2, 3, 4, 5} /\ u \in {2, 3, 4, 5, 6}
    BY DEF Trips
  <1> QED
    BY <1>1, <1>2 DEF TripsAhead

LEMMA TripsType == \A t \in Trips : TripsAhead(t) \in Nat /\ TripsAhead(1) = 5 * ApiTimeout
  <1> SUFFICES ASSUME NEW t \in Trips
               PROVE  TripsAhead(t) \in Nat /\ TripsAhead(1) = 5 * ApiTimeout
    OBVIOUS
  <1>1. t \in {1, 2, 3, 4, 5, 6} /\ ApiTimeout \in Nat
    BY BudgetAssumption DEF Trips
  <1> QED
    BY <1>1 DEF TripsAhead

LEMMA AheadType ==
    ASSUME NEW p \in Phases, p # "none"
    PROVE  PhasesAhead(p) \in Nat
  BY BudgetTypes, BudgetAssumption
     DEF PhasesAhead, Phases, GithubPhases, LimaPhases, Budget, VM_PER_JOB_COMMAND_BUDGET

(* Entering the next call uses no more than what was ahead. *)
LEMMA EnterShrinks ==
    ASSUME BudgetInv, NEW p \in Phases, p # "none", phase # "none",
           Enter(p), wall' = wall, stamp' = stamp,
           Timeout(p) + PhasesAhead(p) + (IF p \in GithubPhases THEN 5 * ApiTimeout ELSE 0)
             <= PhasesAhead(phase)
    PROVE  /\ phase' = p /\ trip' \in Trips /\ left' \in Nat
           /\ (wall' - stamp') + left' + Ahead' <= Budget
  <1>1. /\ phase' = p /\ trip' = 1 /\ left' = Timeout(p)
        /\ phase \in Phases /\ trip \in Trips /\ left \in Nat
        /\ wall \in Nat /\ stamp \in Nat /\ wall >= stamp
    BY BudgetAssumption DEF Enter, BudgetInv, TypeOK
  <1>2. Ahead' = PhasesAhead(p) + (IF p \in GithubPhases THEN 5 * ApiTimeout ELSE 0)
    <2>1. Ahead' = PhasesAhead(p) + (IF p \in GithubPhases THEN TripsAhead(1) ELSE 0)
      BY <1>1 DEF Ahead, PhasesAhead, TripsAhead
    <2> QED
      BY <2>1, TripsType DEF Trips
  <1>3. PhasesAhead(phase) <= Ahead /\ Ahead \in Nat
    BY <1>1, AheadType, TripsType DEF Ahead
  <1>4. PhasesAhead(p) \in Nat /\ PhasesAhead(phase) \in Nat /\ Timeout(p) \in Nat
    BY <1>1, AheadType, BudgetTypes
  <1>5. (wall - stamp) + left + Ahead <= Budget
    BY DEF BudgetInv
  <1>6. Trips = 1..6
    BY DEF Trips
  <1> HIDE DEF Ahead
  <1>7. (wall' - stamp') + left' + Ahead' <= Budget
    BY <1>1, <1>2, <1>3, <1>4, <1>5, BudgetTypes, BudgetAssumption
  <1> QED
    BY <1>1, <1>4, <1>6, <1>7
-----------------------------------------------------------------------------
LEMMA BudgetInit == Init => BudgetInv
  <1> SUFFICES ASSUME Init PROVE BudgetInv
    OBVIOUS
  <1>1. phase = "none" /\ gc = "idle" /\ wall = 0 /\ stamp = 0 /\ now = 0
    BY DEF Init
  <1>2. TypeOK
    <2>1. "none" \in Phases /\ 1 \in Trips /\ 0 \in 0..MaxWall
      BY BudgetAssumption DEF Phases, Trips
    <2>2. claim = FALSE /\ ok = FALSE /\ trip = 1 /\ left = 0 /\ claims = 0
      BY DEF Init
    <2> QED
      BY <1>1, <2>1, <2>2 DEF TypeOK
  <1> QED
    BY <1>1, <1>2 DEF BudgetInv

(* Steps of the job task that move it to the next call. *)
LEMMA BudgetCalls ==
    ASSUME BudgetInv, RunStepEnds \/ TeardownStepEnds PROVE BudgetInv'
  <1>1. /\ phase # "none" /\ gc # "expire"
        /\ UNCHANGED <<wall, claim, stamp, gc, now, claims>>
        /\ claim /\ ok' \in BOOLEAN
    BY DEF RunStepEnds, TeardownStepEnds, BudgetInv, TypeOK
  <1>2. \E p \in Phases : p # "none" /\ Enter(p) /\
          Timeout(p) + PhasesAhead(p) + (IF p \in GithubPhases THEN 5 * ApiTimeout ELSE 0)
            <= PhasesAhead(phase)
    <2> USE BudgetAssumption, BudgetTypes
        DEF Timeout, PhasesAhead, Phases, GithubPhases, LimaPhases
    <2>1. CASE phase = "start" /\ Enter("copy")
      BY <2>1
    <2>2. CASE phase = "copy" /\ Enter("shell")
      BY <2>2
    <2>3. CASE phase \in {"start", "copy", "shell"} /\ Enter("capture")
      BY <2>3
    <2>4. CASE phase = "capture" /\ Enter("stop")
      BY <2>4
    <2>5. CASE phase = "stop" /\ Enter("delete")
      BY <2>5
    <2>6. CASE phase = "delete" /\ Enter("recheck")
      BY <2>6
    <2>7. CASE phase = "delete" /\ Enter("dereg")
      BY <2>7
    <2>8. CASE phase = "recheck" /\ Enter("dereg")
      BY <2>8
    <2> HIDE DEF Timeout, PhasesAhead, Phases, GithubPhases, LimaPhases
    <2> QED
      BY <2>1, <2>2, <2>3, <2>4, <2>5, <2>6, <2>7, <2>8
         DEF RunStepEnds, TeardownStepEnds
  <1>3. PICK p \in Phases : p # "none" /\ Enter(p) /\
          Timeout(p) + PhasesAhead(p) + (IF p \in GithubPhases THEN 5 * ApiTimeout ELSE 0)
            <= PhasesAhead(phase)
    BY <1>2
  <1>4. /\ phase' = p /\ trip' \in Trips /\ left' \in Nat
        /\ (wall' - stamp') + left' + Ahead' <= Budget
    BY <1>1, <1>3, EnterShrinks
  <1> QED
    BY <1>1, <1>3, <1>4 DEF BudgetInv, TypeOK

(* Steps that end the task, or start none. *)
LEMMA BudgetRests ==
    ASSUME BudgetInv, phase' = "none", trip' \in Trips, left' \in Nat,
           UNCHANGED <<wall, stamp, gc, now>>, claim' \in BOOLEAN, ok' \in BOOLEAN,
           claims' \in Nat, gc # "expire" \/ claim'
    PROVE  BudgetInv'
  BY DEF BudgetInv, TypeOK, Phases, GithubPhases, LimaPhases

LEMMA BudgetStep ==
    ASSUME SleepsInFlight = FALSE, BudgetInv, [Next]_vars PROVE BudgetInv'
  <1>0. TypeOK
    BY DEF BudgetInv
  <1>t. 1 \in Trips /\ 0 \in Nat
    BY DEF Trips
  <1>g. phase # "none" => gc # "expire"
    BY DEF BudgetInv
  <1>1. CASE Claim
    <2>1. /\ phase' = "mint" /\ trip' = 1 /\ left' = ApiTimeout
          /\ claim' /\ wall' = wall /\ stamp' = wall /\ ~claim
          /\ ok' = TRUE /\ claims' \in Nat /\ UNCHANGED <<gc, now>>
      BY <1>1, <1>0, BudgetAssumption
         DEF Claim, Enter, Timeout, GithubPhases, TypeOK
    <2>2. Ahead' = Budget - 6 * ApiTimeout + 5 * ApiTimeout
      BY <2>1, TripsType DEF Ahead, PhasesAhead, GithubPhases, TripsAhead, Trips
    <2>3. (wall' - stamp') + left' + Ahead' <= Budget
      BY <2>1, <2>2, <1>0, BudgetTypes, BudgetAssumption DEF TypeOK
    <2> QED
      BY <2>1, <2>3, <1>t, BudgetAssumption
         DEF BudgetInv, TypeOK, Phases, GithubPhases
  <1>2. CASE NextTrip
    <2>1. /\ phase \in GithubPhases /\ phase # "none" /\ trip \in Trips
          /\ trip' \in Trips /\ trip' > trip /\ left' = ApiTimeout
          /\ UNCHANGED <<wall, claim, stamp, phase, ok, gc, now, claims>>
      BY <1>2, <1>0 DEF NextTrip, TypeOK, Trips, GithubPhases
    <2>2. /\ Ahead = PhasesAhead(phase) + TripsAhead(trip)
          /\ Ahead' = PhasesAhead(phase) + TripsAhead(trip')
          /\ PhasesAhead(phase) \in Nat
      BY <2>1, AheadType DEF Ahead, PhasesAhead, TripsAhead, Phases
    <2>3. /\ TripsAhead(trip) \in Nat /\ TripsAhead(trip') \in Nat
          /\ ApiTimeout + TripsAhead(trip') <= TripsAhead(trip)
      BY <2>1, TripsShrink
    <2>4. (wall - stamp) + left + Ahead <= Budget
      BY <2>1 DEF BudgetInv
    <2>5. (wall' - stamp') + left' + Ahead' <= Budget
      <3> HIDE DEF Ahead
      <3> QED
        BY <2>1, <2>2, <2>3, <2>4, <1>0, BudgetTypes, BudgetAssumption DEF TypeOK
    <2> QED
      BY <2>1, <2>5, BudgetAssumption DEF BudgetInv, TypeOK
  <1>3. CASE MintEnds
    <2>1. CASE Enter("start") /\ UNCHANGED claim
      <3>1. /\ UNCHANGED <<wall, claim, stamp, ok, gc, now, claims>>
            /\ phase = "mint" /\ "start" \in Phases
        BY <1>3, <2>1 DEF MintEnds, Phases, LimaPhases
      <3>2. Timeout("start") + PhasesAhead("start")
              + (IF "start" \in GithubPhases THEN 5 * ApiTimeout ELSE 0)
              <= PhasesAhead(phase)
        BY <3>1, BudgetTypes, BudgetAssumption
           DEF Timeout, PhasesAhead, GithubPhases, Budget, VM_PER_JOB_COMMAND_BUDGET
      <3>3. /\ phase' = "start" /\ trip' \in Trips /\ left' \in Nat
            /\ (wall' - stamp') + left' + Ahead' <= Budget
        BY <2>1, <3>1, <3>2, EnterShrinks
      <3> QED
        BY <3>1, <3>3, <1>g DEF BudgetInv, TypeOK
    <2>2. CASE Finalize
      BY <1>3, <2>2, <1>0, <1>t, <1>g, BudgetRests DEF MintEnds, Finalize, TypeOK
    <2> QED
      BY <1>3, <2>1, <2>2 DEF MintEnds
  <1>4. CASE RunStepEnds \/ TeardownStepEnds
    BY <1>4, BudgetCalls
  <1>5. CASE DeregEnds
    <2>1. CASE ok /\ CompletionCheck
      <3>1. /\ UNCHANGED <<wall, claim, stamp, ok, gc, now, claims>>
            /\ phase = "dereg" /\ Enter("check") /\ "check" \in Phases
        BY <1>5, <2>1 DEF DeregEnds, Phases, GithubPhases
      <3>2. Timeout("check") + PhasesAhead("check")
              + (IF "check" \in GithubPhases THEN 5 * ApiTimeout ELSE 0)
              <= PhasesAhead(phase)
        BY <2>1, <3>1, BudgetTypes, BudgetAssumption
           DEF Timeout, PhasesAhead, GithubPhases, CheckBudget
      <3>3. /\ phase' = "check" /\ trip' \in Trips /\ left' \in Nat
            /\ (wall' - stamp') + left' + Ahead' <= Budget
        BY <3>1, <3>2, EnterShrinks
      <3> QED
        BY <3>1, <3>3, <1>g DEF BudgetInv, TypeOK
    <2>2. CASE ~(ok /\ CompletionCheck)
      BY <1>5, <2>2, <1>0, <1>t, <1>g, BudgetRests DEF DeregEnds, Finalize, TypeOK
    <2> QED
      BY <2>1, <2>2
  <1>6. CASE CheckEnds
    BY <1>6, <1>0, <1>t, <1>g, BudgetRests DEF CheckEnds, Finalize, TypeOK
  <1>7. CASE TaskDies
    BY <1>7, <1>0, <1>t, <1>g, BudgetRests DEF TaskDies, TypeOK
  <1>8. CASE Tick
    <2>1. /\ wall' = wall + 1 /\ wall < MaxWall
          /\ UNCHANGED <<claim, stamp, phase, trip, ok, gc, now, claims>>
          /\ phase # "none" => left > 0 /\ left' = left - 1
          /\ phase = "none" => left' = left
      BY <1>8 DEF Tick
    <2>2. Ahead' = Ahead
      BY <2>1 DEF Ahead, PhasesAhead, TripsAhead
    <2>3. phase # "none" => Ahead \in Nat
      BY <1>0, AheadType, TripsType DEF Ahead, TypeOK
    <2> QED
      BY <2>1, <2>2, <2>3, <1>0, BudgetTypes, BudgetAssumption DEF BudgetInv, TypeOK
  <1>9. CASE GcBegin
    <2>1. Ahead' = Ahead
      BY <1>9 DEF GcBegin, Ahead, PhasesAhead, TripsAhead, task
    <2> QED
      BY <1>9, <2>1, BudgetAssumption DEF GcBegin, BudgetInv, TypeOK, task
  <1>10. CASE GcJudge
    <2>1. /\ UNCHANGED <<wall, claim, stamp, phase, trip, left, ok, now, claims>>
          /\ gc' \in {"idle", "expire"}
          /\ gc' = "expire" => claim /\ Age > cur_claim_max_age_secs
      BY <1>10 DEF GcJudge, task
    <2>2. phase # "none" => gc' # "expire"
      <3> SUFFICES ASSUME phase # "none" PROVE ~(Age > cur_claim_max_age_secs)
        BY <2>1
      <3>1. Ahead \in Nat
        BY <1>0, AheadType, TripsType DEF Ahead, TypeOK
      <3>2. /\ wall \in Nat /\ stamp \in Nat /\ now \in Nat /\ left \in Nat
            /\ stamp <= wall /\ now <= wall /\ wall <= U64Max
            /\ (wall - stamp) + left + Ahead <= Budget
        BY <1>0, BudgetAssumption DEF BudgetInv, TypeOK
      <3>3. Age \in Nat /\ Age <= Budget /\ Age <= U64Max
        <4> HIDE DEF Ahead
        <4> QED
          BY <3>1, <3>2, BudgetTypes, BudgetAssumption DEF Age
      <3> QED
        BY <3>3, LimitCoversBudget
    <2>3. Ahead' = Ahead
      BY <2>1 DEF Ahead, PhasesAhead, TripsAhead
    <2> QED
      BY <2>1, <2>2, <2>3 DEF BudgetInv, TypeOK
  <1>11. CASE GcExpire
    BY <1>11 DEF GcExpire, BudgetInv, TypeOK, task
  <1>12. CASE UNCHANGED vars
    <2>1. Ahead' = Ahead
      BY <1>12 DEF vars, Ahead, PhasesAhead, TripsAhead
    <2> QED
      BY <1>12, <2>1 DEF vars, BudgetInv, TypeOK
  <1>13. CASE Sleep
    <2>1. phase = "none"
      BY <1>13 DEF Sleep
    <2>2. /\ wall < MaxWall /\ wall' = wall + 1
          /\ UNCHANGED <<claim, stamp, phase, trip, left, ok, gc, now, claims>>
      BY <1>13 DEF Sleep, task
    <2> QED
      BY <2>1, <2>2, BudgetAssumption DEF BudgetInv, TypeOK
  <1> QED
    BY <1>1, <1>2, <1>3, <1>4, <1>5, <1>6, <1>7, <1>8, <1>9, <1>10, <1>11,
       <1>12, <1>13 DEF Next, JobStep, Expire

(* For every choice of the timeouts, of job_max_runtime_secs and of the
   saturation bound, and with the completion check on or off, the collector's
   age limit never takes the claim of a job that is in flight, as long as the
   host does not sleep while a job runs. *)
THEOREM NeverReapedAwake ==
    ASSUME SleepsInFlight = FALSE PROVE Spec => []InFlightNeverReaped
  <1>1. BudgetInv /\ [Next]_vars => BudgetInv'
    BY BudgetStep
  <1>2. BudgetInv => InFlightNeverReaped
    BY DEF BudgetInv, InFlightNeverReaped
  <1> QED
    BY BudgetInit, <1>1, <1>2, PTL DEF Spec

(* For every choice of the timeouts the job task and the collector keep to the
   types: the remaining time of a call never goes below zero, the requests of a
   GitHub call stay within the six the limit counts. *)
THEOREM BudgetTypeCorrect ==
    ASSUME SleepsInFlight = FALSE PROVE Spec => []TypeOK
  <1>1. BudgetInv /\ [Next]_vars => BudgetInv'
    BY BudgetStep
  <1>2. BudgetInv => TypeOK
    BY DEF BudgetInv
  <1> QED
    BY BudgetInit, <1>1, <1>2, PTL DEF Spec

-----------------------------------------------------------------------------
(* Delivery, the other half of the dispatch loop: what becomes of a name that
   has a permit.  How often a job is started is bounded by what a start leaves
   behind, a claim or a marker, and by the stats of a marker that failed. *)

\* The dispatch loop has claimed the name and has its verdict to carry out.
Judging(n) == disp.pc = "classify" /\ disp.name = n

\* Where the dispatch loop is, it has a name or waits for one.
Placed == disp = [pc |-> "recv"] \/ \E p, n : disp = [pc |-> p, name |-> n]

\* What is worked on is in cur/, and the dispatch loop's name is no task's.
InHand ==
    /\ \A n \in tasks : n \in cur
    /\ \A n : Judging(n) => n \in cur /\ n \notin tasks

\* A start leaves a claim or a marker, and every other one was paid for by the
\* stat of a marker that failed in try_claim's second look.
Paid ==
    \A i \in Ids :
        /\ runs[i] > 0 => Claimed(NameOf(i))
        /\ runs[i] <= 1 + faults
        /\ Judging(NameOf(i)) => runs[i] <= faults

\* Only what passes every check is started, and every task was.
Passed ==
    \A i \in Ids :
        /\ runs[i] > 0 => Verdict(NameOf(i)) = "run"
        /\ NameOf(i) \in tasks => runs[i] > 0

DeliveryInv ==
    /\ says \in [Ids -> Contents] /\ runs \in [Ids -> Nat] /\ faults \in Nat
    /\ Placed /\ InHand /\ Paid /\ Passed /\ FateExplained

LEMMA NamesDiffer ==
    /\ \A i, j \in Ids : NameOf(i) = NameOf(j) => i = j
    /\ \A i \in Ids : NameOf(i) \in Canonical /\ NameOf(i).id = i
    /\ \A n \in Canonical : \E i \in Ids : n = NameOf(i)
  BY DEF NameOf, Canonical

\* The order of the checks, against what README.md says is accepted.
LEMMA Verdicts ==
    ASSUME says \in [Ids -> Contents], NEW i \in Ids
    PROVE  /\ Verdict(NameOf(i)) \in {"run", "drop", "reject"}
           /\ Verdict(NameOf(i)) = "run" =>
                ~Declined(says[i]) /\ ~Malformed(says[i])
           /\ Verdict(NameOf(i)) = "drop" => Declined(says[i])
           /\ Verdict(NameOf(i)) = "reject" => Malformed(says[i])
  <1> DEFINE c == says[i]
  <1>1. c \in Contents /\ c.bad \subseteq Defects
    BY DeliveryAssumption DEF DeliveryAssumption
  <1>2. Verdict(NameOf(i)) = IF c.bad \cap ReadChecks # {} THEN "reject"
                                     ELSE classify_validated_entry(c)
    BY NamesDiffer DEF Verdict
  <1> HIDE DEF c
  <1>3. classify_job_labels(c.labels) <=>
          /\ Lower[RunnerLabel] \in {Lower[l] : l \in c.labels}
          /\ {Lower[l] : l \in c.labels} \ {Lower[a] : a \in RunnerLabels} = {}
    <2>1. (\E l \in c.labels : Lower[l] = Lower[RunnerLabel]) <=>
            Lower[RunnerLabel] \in {Lower[l] : l \in c.labels}
      BY SMT
    <2>2. (\A l \in c.labels : \E a \in RunnerLabels : Lower[a] = Lower[l]) <=>
            {Lower[l] : l \in c.labels} \ {Lower[a] : a \in RunnerLabels} = {}
      <3> DEFINE L == {Lower[l] : l \in c.labels}
                 A == {Lower[a] : a \in RunnerLabels}
      <3>1. \A x : x \in L <=> \E l \in c.labels : x = Lower[l]
        OBVIOUS
      <3>2. \A x : x \in A <=> \E a \in RunnerLabels : x = Lower[a]
        OBVIOUS
      <3> HIDE DEF L, A
      <3>3. (\A l \in c.labels : \E a \in RunnerLabels : Lower[a] = Lower[l]) <=>
              \A x \in L : x \in A
        BY <3>1, <3>2
      <3>4. (\A x \in L : x \in A) <=> L \ A = {}
        OBVIOUS
      <3> QED
        BY <3>3, <3>4 DEF L, A
    <2> QED
      BY <2>1, <2>2 DEF classify_job_labels
  <1> QED
    BY <1>1, <1>2, <1>3 DEF c, classify_validated_entry, Rejected, Declined,
       Malformed, Defects, ReadChecks, EnvelopeChecks, BodyChecks

\* A step that files and starts nothing.
LEMMA QuietDelivery ==
    ASSUME DeliveryInv, UNCHANGED <<says, done, error, tasks, runs>>, Placed',
           cur \subseteq cur', faults' \in Nat, faults <= faults',
           \A n : Judging(n)' => Judging(n)
    PROVE  DeliveryInv'
  <1>1. InHand'
    BY DEF DeliveryInv, InHand
  <1>2. Paid'
    <2> SUFFICES ASSUME NEW i \in Ids
                 PROVE  /\ runs[i] > 0 => Claimed(NameOf(i))'
                        /\ runs[i] <= 1 + faults'
                        /\ Judging(NameOf(i))' => runs[i] <= faults'
      BY DEF Paid, Claimed, NameOf, Judging
    <2>1. runs[i] \in Nat /\ faults \in Nat
      BY DEF DeliveryInv
    <2> QED
      BY <2>1 DEF DeliveryInv, Paid, Claimed, NameOf
  <1>3. Passed' /\ FateExplained'
    BY DEF DeliveryInv, Passed, FateExplained, Verdict
  <1> QED
    BY <1>1, <1>2, <1>3 DEF DeliveryInv

LEMMA DeliveryInvInit == DeliveryInit => DeliveryInv
  BY DEF DeliveryInit, DeliveryInv, Placed, InHand, Paid, Passed, FateExplained, Judging

\* The steps before the rename, and everyone else's.
LEMMA EarlyDelivery ==
    ASSUME DeliveryInv,
           \/ \E n \in Names : Deliver(n)
           \/ Watcher \/ DispRecv \/ DispAcquire \/ DispLook
           \/ (\E t \in Lifelong : LifelongDies(t)) \/ Supervise
    PROVE  DeliveryInv'
  <1>0. faults \in Nat /\ Placed
    BY DEF DeliveryInv
  <1>1. UNCHANGED <<says, cur, done, error, tasks, runs>>
    BY DEF Deliver, Watcher, WatchWakes, WatchSends, WatchEnds,
       DispRecv, DispAcquire, DispLook, LifelongDies, Supervise,
       dirs, jobs, world
  <1>2. faults' \in Nat /\ faults <= faults'
    <2>1. CASE UNCHANGED faults
      BY <1>0, <2>1
    <2>2. CASE \E k \in Nat : faults' = faults + k
      BY <1>0, <2>2
    <2>3. \A n : Markers(n) \in Nat
      BY DEF Markers
    <2> QED
      BY <2>1, <2>2, <2>3
         DEF Deliver, Watcher, WatchWakes, WatchSends, WatchEnds,
         DispRecv, DispAcquire, DispLook, LifelongDies, Supervise,
         Fault, Faults, Unseen
  <1>3. /\ Placed'
        /\ disp' = disp \/ disp'.pc # "classify"
    <2>1. CASE UNCHANGED disp
      BY <1>0, <2>1 DEF Placed
    <2>2. CASE disp' = [pc |-> "recv"]
      BY <2>2 DEF Placed
    <2>3. CASE \E n : disp' = [pc |-> "permit", name |-> n]
      <3>1. PICK n : disp' = [pc |-> "permit", name |-> n]
        BY <2>3
      <3>2. disp'.pc # "classify"
        BY <3>1
      <3> QED
        BY <3>1, <3>2 DEF Placed
    <2>4. ASSUME NEW q, q # "classify", disp.pc # "recv", disp' = [disp EXCEPT !.pc = q]
          PROVE  Placed' /\ disp'.pc # "classify"
      <3>1. PICK p, n : disp = [pc |-> p, name |-> n]
        BY <1>0, <2>4 DEF Placed
      <3>2. disp' = [pc |-> q, name |-> n]
        BY <2>4, <3>1
      <3> QED
        BY <2>4, <3>2 DEF Placed
    <2> QED
      BY <2>1, <2>2, <2>3, <2>4
         DEF Deliver, Watcher, WatchWakes, WatchSends, WatchEnds,
         DispRecv, DispAcquire, DispLook, LifelongDies, Supervise,
         daemon
  <1> QED
    BY <1>1, <1>2, <1>3, QuietDelivery DEF Judging

\* The rename and the second look: what was started before is paid for.
LEMMA RenameDelivery ==
    ASSUME DeliveryInv, DispRename
    PROVE  DeliveryInv'
  <1>0. faults \in Nat /\ Placed
    BY DEF DeliveryInv
  <1>1. UNCHANGED <<says, done, error, tasks, runs>> /\ disp.pc = "rename"
    BY DEF DispRename, jobs, world
  <1>2. CASE disp' = [pc |-> "recv"]
    <2>1. cur \subseteq cur' /\ faults' \in Nat /\ faults <= faults'
      <3>1. CASE UNCHANGED faults
        BY <1>0, <1>2, <3>1 DEF DispRename, SecondLook
      <3>2. CASE faults' = faults + 1
        BY <1>0, <1>2, <3>2 DEF DispRename, SecondLook
      <3>3. ASSUME NEW n, SecondLook(n) PROVE faults' = faults \/ faults' = faults + 1
        <4>1. disp'.pc # "classify"
          BY <1>2
        <4>2. ~(disp' = [disp EXCEPT !.pc = "classify"])
          <5>1. PICK p, m : disp = [pc |-> p, name |-> m]
            BY <1>0, <1>1 DEF Placed
          <5> QED
            BY <4>1, <5>1
        <4> QED
          BY <3>3, <4>2 DEF SecondLook, Fault, Faults
      <3> QED
        BY <3>1, <3>2, <3>3 DEF DispRename, Fault, Faults
    <2>2. Placed' /\ \A n : ~Judging(n)'
      BY <1>2 DEF Placed, Judging
    <2> QED
      BY <1>1, <2>1, <2>2, QuietDelivery
  <1>3. CASE disp' # [pc |-> "recv"]
    <2>n. PICK m : disp = [pc |-> "rename", name |-> m]
      BY <1>0, <1>1 DEF Placed
    <2>1. /\ m \in new \ cur /\ Unseen(m)
          /\ cur' = cur \cup {m} /\ disp' = [disp EXCEPT !.pc = "classify"]
      BY <1>3, <2>n DEF DispRename, SecondLook
    <2>2. disp' = [pc |-> "classify", name |-> m]
      BY <2>1, <2>n
    <2>3. \A n : Judging(n)' <=> n = m
      BY <2>2 DEF Judging
    <2>4. Placed'
      BY <2>2 DEF Placed
    <2>5. InHand'
      BY <1>1, <2>1, <2>3 DEF DeliveryInv, InHand
    <2>6. /\ faults' = faults + Markers(m) /\ Markers(m) \in Nat
          /\ m \in done \cup error => Markers(m) >= 1
      BY <2>1 DEF Unseen, Faults, Markers
    <2>7. faults' \in Nat /\ faults <= faults'
      BY <1>0, <2>6
    <2>8. Paid'
      <3> SUFFICES ASSUME NEW i \in Ids
                   PROVE  /\ runs[i] > 0 => Claimed(NameOf(i))'
                          /\ runs[i] <= 1 + faults'
                          /\ Judging(NameOf(i))' => runs[i] <= faults'
        BY <1>1 DEF Paid, Claimed, NameOf, Judging
      <3>1. runs[i] \in Nat /\ runs[i] <= 1 + faults
        BY DEF DeliveryInv, Paid
      <3>2. runs[i] > 0 => Claimed(NameOf(i))
        BY DEF DeliveryInv, Paid
      <3>3. runs[i] > 0 => Claimed(NameOf(i))'
        BY <1>1, <2>1, <3>2 DEF Claimed, NameOf
      <3>4. ASSUME m = NameOf(i) PROVE runs[i] <= faults'
        <4>1. CASE runs[i] = 0
          BY <2>7, <4>1
        <4>2. CASE runs[i] > 0
          <5>1. m \in done \cup error
            BY <2>1, <3>2, <3>4, <4>2 DEF Claimed
          <5> QED
            BY <1>0, <2>6, <3>1, <5>1
        <4> QED
          BY <3>1, <4>1, <4>2
      <3> QED
        BY <1>0, <2>3, <2>7, <3>1, <3>3, <3>4
    <2>9. Passed' /\ FateExplained'
      BY <1>0, <1>1, <2>7 DEF DeliveryInv, Passed, FateExplained, Verdict
    <2> QED
      BY <1>1, <2>4, <2>5, <2>7, <2>8, <2>9 DEF DeliveryInv
  <1> QED
    BY <1>2, <1>3

\* The fate of an archived name: its verdict put it there, or a call failed.
LEMMA ArchivedFate ==
    ASSUME DeliveryInv, NEW m, m \in cur,
           UNCHANGED <<says, runs>>, faults' \in Nat, faults <= faults',
           done' \subseteq done \cup {m}, error' \subseteq error \cup {m},
           \A i \in Ids : NameOf(i) = m /\ runs[i] = 0 =>
               /\ m \in done' \ done => Verdict(m) = "drop"
               /\ m \in error' \ error => Verdict(m) = "reject" \/ faults' > 0
    PROVE  FateExplained'
  <1> SUFFICES ASSUME NEW i \in Ids
               PROVE  IF runs[i] > 0
                      THEN ~Declined(says[i]) /\ ~Malformed(says[i])
                      ELSE /\ NameOf(i) \in done' => Declined(says[i])
                           /\ NameOf(i) \in error' /\ faults' = 0 =>
                                Malformed(says[i])
    BY DEF FateExplained, NameOf, Declined, Malformed
  <1>0. /\ faults \in Nat /\ runs[i] \in Nat
        /\ IF runs[i] > 0
           THEN ~Declined(says[i]) /\ ~Malformed(says[i])
           ELSE /\ NameOf(i) \in done => Declined(says[i])
                /\ NameOf(i) \in error /\ faults = 0 => Malformed(says[i])
    BY DEF DeliveryInv, FateExplained
  <1>1. CASE runs[i] > 0
    BY <1>0, <1>1
  <1>2. CASE runs[i] = 0
    <2>1. /\ Verdict(NameOf(i)) = "drop" => Declined(says[i])
          /\ Verdict(NameOf(i)) = "reject" => Malformed(says[i])
      BY Verdicts DEF DeliveryInv
    <2>2. ASSUME NameOf(i) \in done' PROVE Declined(says[i])
      BY <1>0, <1>2, <2>1, <2>2
    <2>3. ASSUME NameOf(i) \in error', faults' = 0 PROVE Malformed(says[i])
      <3>1. faults = 0
        BY <1>0, <2>3
      <3>2. CASE NameOf(i) \in error
        BY <1>0, <1>2, <3>1, <3>2
      <3>3. CASE NameOf(i) \notin error
        BY <1>2, <2>1, <2>3, <3>3
      <3> QED
        BY <3>2, <3>3
    <2> QED
      BY <1>0, <1>2, <2>2, <2>3
  <1> QED
    BY <1>0, <1>1, <1>2

\* A name leaves cur/ for an archive, or stays: nobody works on it any more.
LEMMA FiledDelivery ==
    ASSUME DeliveryInv, NEW m, Placed', FateExplained',
           UNCHANGED <<says, runs>>, faults' \in Nat, faults <= faults',
           cur \ {m} \subseteq cur', m \in cur' \cup done' \cup error',
           done \subseteq done', error \subseteq error',
           tasks' \subseteq tasks \ {m}, \A n : ~Judging(n)' \/ (Judging(n) /\ n # m)
    PROVE  DeliveryInv'
  <1>1. InHand'
    BY DEF DeliveryInv, InHand
  <1>2. Paid'
    <2> SUFFICES ASSUME NEW i \in Ids
                 PROVE  /\ runs[i] > 0 => Claimed(NameOf(i))'
                        /\ runs[i] <= 1 + faults'
                        /\ Judging(NameOf(i))' => runs[i] <= faults'
      BY DEF Paid, Claimed, NameOf, Judging
    <2>1. runs[i] \in Nat /\ faults \in Nat /\ runs[i] <= 1 + faults
      BY DEF DeliveryInv, Paid
    <2>2. runs[i] > 0 => NameOf(i) \in cur \cup done \cup error
      BY DEF DeliveryInv, Paid, Claimed
    <2>3. runs[i] > 0 => Claimed(NameOf(i))'
      BY <2>2 DEF Claimed, NameOf
    <2>4. Judging(NameOf(i))' => runs[i] <= faults
      BY DEF DeliveryInv, Paid
    <2> QED
      BY <2>1, <2>3, <2>4
  <1>3. Passed'
    BY DEF DeliveryInv, Passed, Verdict
  <1> QED
    BY <1>1, <1>2, <1>3 DEF DeliveryInv

\* The verdict is carried out.
LEMMA ClassifyDelivery ==
    ASSUME DeliveryInv, DispClassify
    PROVE  DeliveryInv'
  <1>0. faults \in Nat /\ Placed /\ says \in [Ids -> Contents] /\ runs \in [Ids -> Nat]
    BY DEF DeliveryInv
  <1>1. disp.pc = "classify" /\ disp' = [pc |-> "recv"] /\ UNCHANGED says
    BY DEF DispClassify, world
  <1>2. PICK m : disp = [pc |-> "classify", name |-> m]
    BY <1>0, <1>1 DEF Placed
  <1>3. m = disp.name /\ Judging(m) /\ m \in cur /\ m \notin tasks
    BY <1>2 DEF Judging, DeliveryInv, InHand
  <1>4. Placed' /\ \A n : ~Judging(n)'
    BY <1>1 DEF Placed, Judging
  <1>5. CASE /\ Verdict(m) = "run" /\ tasks' = tasks \cup {m}
             /\ runs' = [runs EXCEPT ![m.id] = @ + 1]
             /\ UNCHANGED <<cur, done, error, faults>>
    <2>1. m \in Canonical
      BY <1>5 DEF Verdict
    <2>2. PICK i \in Ids : m = NameOf(i)
      BY <2>1, NamesDiffer
    <2>3. m.id = i
      BY <2>2, NamesDiffer
    <2>4. /\ runs' \in [Ids -> Nat] /\ runs'[i] = runs[i] + 1 /\ runs[i] \in Nat
          /\ \A j \in Ids : j # i => runs'[j] = runs[j]
      BY <1>0, <1>5, <2>3
    <2>5. runs[i] <= faults
      BY <1>3, <2>2 DEF DeliveryInv, Paid
    <2>6. InHand'
      BY <1>3, <1>4, <1>5 DEF DeliveryInv, InHand
    <2>7. Paid'
      <3> SUFFICES ASSUME NEW j \in Ids
                   PROVE  /\ runs'[j] > 0 => Claimed(NameOf(j))
                          /\ runs'[j] <= 1 + faults
        BY <1>4, <1>5 DEF Paid, Claimed, NameOf
      <3>1. CASE j = i
        BY <1>0, <1>3, <2>2, <2>4, <2>5, <3>1 DEF Claimed
      <3>2. CASE j # i
        BY <2>4, <3>2 DEF DeliveryInv, Paid
      <3> QED
        BY <3>1, <3>2
    <2>8. Passed'
      <3> SUFFICES ASSUME NEW j \in Ids
                   PROVE  /\ runs'[j] > 0 => Verdict(NameOf(j)) = "run"
                          /\ NameOf(j) \in tasks' => runs'[j] > 0
        BY <1>1 DEF Passed, Verdict, NameOf
      <3>1. CASE j = i
        BY <1>5, <2>2, <2>4, <3>1
      <3>2. CASE j # i
        <4>1. NameOf(j) # m
          BY <2>2, <3>2, NamesDiffer
        <4> QED
          BY <1>5, <2>4, <3>2, <4>1 DEF DeliveryInv, Passed
      <3> QED
        BY <3>1, <3>2
    <2>9. FateExplained'
      <3> SUFFICES ASSUME NEW j \in Ids
                   PROVE  IF runs'[j] > 0
                          THEN ~Declined(says[j]) /\ ~Malformed(says[j])
                          ELSE /\ NameOf(j) \in done => Declined(says[j])
                               /\ NameOf(j) \in error /\ faults = 0 =>
                                    Malformed(says[j])
        BY <1>1, <1>5 DEF FateExplained, NameOf, Declined, Malformed
      <3>1. CASE j = i
        <4>1. ~Declined(says[i]) /\ ~Malformed(says[i])
          BY <1>0, <1>5, <2>2, Verdicts
        <4> QED
          BY <2>4, <3>1, <4>1
      <3>2. CASE j # i
        BY <2>4, <3>2 DEF DeliveryInv, FateExplained
      <3> QED
        BY <3>1, <3>2
    <2> QED
      BY <1>0, <1>1, <1>4, <1>5, <2>4, <2>6, <2>7, <2>8, <2>9 DEF DeliveryInv
  <1>6. CASE /\ Verdict(m) # "run"
             /\ Archive(m, IF Verdict(m) = "reject" THEN "error" ELSE "done")
             /\ UNCHANGED <<tasks, runs>>
    <2>1. faults' \in Nat /\ faults <= faults'
      BY <1>0, <1>6 DEF Archive, Fault, Faults
    <2>2. /\ cur \ {m} \subseteq cur' /\ done \subseteq done' /\ error \subseteq error'
          /\ done' \subseteq done \cup {m} /\ error' \subseteq error \cup {m}
          /\ m \in cur' \cup done' \cup error'
      BY <1>3, <1>6 DEF Archive
    <2>3. /\ m \in done' \ done => Verdict(m) # "reject"
          /\ m \in error' \ error => Verdict(m) = "reject"
      BY <1>6 DEF Archive
    <2>4. ASSUME NEW i \in Ids, NameOf(i) = m
          PROVE  Verdict(m) \in {"run", "drop", "reject"}
      BY <1>0, <2>4, Verdicts
    <2>5. FateExplained'
      BY <1>1, <1>3, <1>6, <2>1, <2>2, <2>3, <2>4, ArchivedFate
    <2> QED
      BY <1>1, <1>3, <1>4, <1>6, <2>1, <2>2, <2>5, FiledDelivery
  <1>7. CASE /\ Fault /\ cur' = cur \ {m} /\ error' = error \cup {m}
             /\ UNCHANGED <<done, tasks, runs>>
    <2>1. faults' \in Nat /\ faults <= faults' /\ faults' > 0
      BY <1>0, <1>7 DEF Fault, Faults
    <2>2. FateExplained'
      BY <1>1, <1>3, <1>7, <2>1, ArchivedFate
    <2> QED
      BY <1>1, <1>3, <1>4, <1>7, <2>1, <2>2, FiledDelivery
  <1> QED
    BY <1>3, <1>5, <1>6, <1>7 DEF DispClassify, dirs, jobs

\* A job ends: it was started, whatever its marker says.
LEMMA JobEndsDelivery ==
    ASSUME DeliveryInv, NEW m, JobEnds(m)
    PROVE  DeliveryInv'
  <1>0. faults \in Nat /\ Placed /\ runs \in [Ids -> Nat]
    BY DEF DeliveryInv
  <1>1. m \in tasks /\ tasks' = tasks \ {m} /\ UNCHANGED <<disp, says, runs>> /\ m \in cur
    BY DEF JobEnds, daemon, world, DeliveryInv, InHand
  <1>2. PICK dir \in {"done", "error"} : Archive(m, dir)
    BY DEF JobEnds
  <1>3. faults' \in Nat /\ faults <= faults'
    BY <1>0, <1>2 DEF Archive, Fault, Faults
  <1>4. /\ cur \ {m} \subseteq cur' /\ done \subseteq done' /\ error \subseteq error'
        /\ done' \subseteq done \cup {m} /\ error' \subseteq error \cup {m}
        /\ m \in cur' \cup done' \cup error'
    BY <1>1, <1>2 DEF Archive
  <1>5. \A i \in Ids : NameOf(i) = m => runs[i] > 0
    BY <1>1 DEF DeliveryInv, Passed
  <1>6. FateExplained'
    BY <1>0, <1>1, <1>3, <1>4, <1>5, ArchivedFate
  <1>7. \A n : ~Judging(n)' \/ (Judging(n) /\ n # m)
    BY <1>1 DEF Judging, DeliveryInv, InHand
  <1>8. Placed'
    BY <1>0, <1>1 DEF Placed
  <1> QED
    BY <1>1, <1>3, <1>4, <1>6, <1>7, <1>8, FiledDelivery

LEMMA DeliveryStep ==
    ASSUME DeliveryInv, [DeliveryNext]_delivery
    PROVE  DeliveryInv'
  <1>1. CASE \E n \in Names : JobEnds(n)
    BY <1>1, JobEndsDelivery
  <1>2. CASE DispClassify
    BY <1>2, ClassifyDelivery
  <1>3. CASE DispRename
    BY <1>3, RenameDelivery
  <1>4. CASE UNCHANGED delivery
    <2>1. UNCHANGED <<says, cur, done, error, disp, tasks, runs, faults>>
      BY <1>4 DEF delivery, dirs, daemon, jobs, world
    <2>2. faults \in Nat /\ Placed
      BY DEF DeliveryInv
    <2> QED
      BY <2>1, <2>2, QuietDelivery DEF Placed, Judging
  <1>5. CASE \/ \E n \in Names : Deliver(n)
             \/ Watcher \/ DispRecv \/ DispAcquire \/ DispLook
             \/ (\E t \in Lifelong : LifelongDies(t)) \/ Supervise
    BY <1>5, EarlyDelivery
  <1> QED
    BY <1>1, <1>2, <1>3, <1>4, <1>5 DEF DeliveryNext, Dispatch

\* Spec => []RunsOnce of Delivery, for every set of ids and entries, every capacity
\* of the channel, number of permits and number of failing calls: a job is started
\* once, and every further start has cost a failing stat of try_claim's second look.
\* spool.rs, try_claim and is_archived; supervisor.rs, prepare.
THEOREM DeliveryRunsOnce ==
    DeliverySpec => []RunsOnce
  <1>1. DeliveryInit => DeliveryInv
    BY DeliveryInvInit
  <1>2. DeliveryInv /\ [DeliveryNext]_delivery => DeliveryInv'
    BY DeliveryStep
  <1>3. DeliveryInv => RunsOnce
    BY DEF DeliveryInv, Paid, RunsOnce
  <1> QED
    BY <1>1, <1>2, <1>3, PTL DEF DeliverySpec

\* Spec => []FateExplained of Delivery: what was started passes every check that
\* classify_validated_entry and the spool's reader make, what only done/ knows of
\* is declined, and what is in error/ without a failing call is malformed.
THEOREM DeliveryFateExplained ==
    DeliverySpec => []FateExplained
  <1>1. DeliveryInit => DeliveryInv
    BY DeliveryInvInit
  <1>2. DeliveryInv /\ [DeliveryNext]_delivery => DeliveryInv'
    BY DeliveryStep
  <1>3. DeliveryInv => FateExplained
    BY DEF DeliveryInv
  <1> QED
    BY <1>1, <1>2, <1>3, PTL DEF DeliverySpec

\* The permit that the dispatch loop has acquired is still free for its task.
Permitted ==
    /\ IsFiniteSet(tasks)
    /\ disp.pc \in {"claim", "rename", "classify"} => Cardinality(tasks) < MaxConcurrency

LEMMA PermittedStep ==
    ASSUME DeliveryInv, DeliveryTypeOK, Permitted, [DeliveryNext]_delivery
    PROVE  Permitted' /\ Cardinality(tasks') <= MaxConcurrency
  <1>0. /\ IsFiniteSet(tasks) /\ Cardinality(tasks) <= MaxConcurrency
        /\ Cardinality(tasks) \in Nat /\ MaxConcurrency \in Nat
    BY DeliveryAssumption, FS_CardinalityType
       DEF Permitted, DeliveryTypeOK, DeliveryAssumption
  <1>1. CASE \E n \in Names : JobEnds(n)
    <2>1. PICK n : tasks' = tasks \ {n} /\ disp' = disp
      BY <1>1 DEF JobEnds, daemon
    <2>2. IsFiniteSet(tasks') /\ Cardinality(tasks') <= Cardinality(tasks) /\ Cardinality(tasks') \in Nat
      BY <1>0, <2>1, FS_Subset, FS_CardinalityType
    <2> QED
      BY <1>0, <2>1, <2>2 DEF Permitted
  <1>2. CASE DispClassify
    <2>1. /\ disp' = [pc |-> "recv"] /\ Cardinality(tasks) < MaxConcurrency
          /\ tasks' = tasks \/ \E n : tasks' = tasks \cup {n}
      BY <1>2 DEF DispClassify, jobs, Permitted
    <2>2. IsFiniteSet(tasks') /\ Cardinality(tasks') <= Cardinality(tasks) + 1
      <3>1. CASE tasks' = tasks
        BY <1>0, <3>1
      <3>2. CASE \E n : tasks' = tasks \cup {n}
        <4>1. PICK n : tasks' = tasks \cup {n}
          BY <3>2
        <4>2. /\ IsFiniteSet(tasks \cup {n})
              /\ \/ Cardinality(tasks \cup {n}) = Cardinality(tasks)
                 \/ Cardinality(tasks \cup {n}) = Cardinality(tasks) + 1
          BY <1>0, FS_AddElement
        <4> QED
          BY <1>0, <4>1, <4>2
      <3> QED
        BY <2>1, <3>1, <3>2
    <2>3. Cardinality(tasks') \in Nat
      BY <2>2, FS_CardinalityType
    <2> QED
      BY <1>0, <2>1, <2>2, <2>3 DEF Permitted
  <1>3. CASE UNCHANGED tasks
    <2>1. ASSUME disp'.pc \in {"claim", "rename", "classify"}, UNCHANGED disp
          PROVE  Cardinality(tasks) < MaxConcurrency
      BY <2>1 DEF Permitted
    <2>2. CASE DispRecv \/ DispAcquire \/ DispLook \/ DispRename
      <3>1. CASE disp.pc \in {"claim", "rename"}
        BY <1>0, <1>3, <3>1 DEF Permitted
      <3>2. CASE DispAcquire
        BY <1>0, <1>3, <3>2 DEF Permitted, DispAcquire
      <3>3. CASE DispRecv
        <4>1. disp'.pc = "permit"
          BY <3>3 DEF DispRecv
        <4> QED
          BY <1>0, <1>3, <4>1 DEF Permitted
      <3> QED
        BY <2>2, <3>1, <3>2, <3>3 DEF DispLook, DispRename
    <2>3. CASE UNCHANGED disp
      BY <1>0, <1>3, <2>1, <2>3 DEF Permitted
    <2> QED
      BY <1>2, <1>1, <2>2, <2>3
         DEF DeliveryNext, Dispatch, Deliver, Watcher, WatchWakes, WatchSends,
         WatchEnds, LifelongDies, Supervise, delivery, daemon
  <1> QED
    BY <1>1, <1>2, <1>3
       DEF DeliveryNext, Dispatch, Deliver, Watcher, WatchWakes, WatchSends,
       WatchEnds, DispRecv, DispAcquire, DispLook, DispRename,
       LifelongDies, Supervise, delivery, jobs

LEMMA DeliveryTypeStep ==
    ASSUME DeliveryInv, DeliveryInv', DeliveryTypeOK, Permitted,
           [DeliveryNext]_delivery
    PROVE  DeliveryTypeOK'
  <1>0. /\ Placed /\ says' \in [Ids -> Contents] /\ runs' \in [Ids -> Nat] /\ faults' \in Nat
        /\ Capacity \in Nat
    BY DeliveryAssumption DEF DeliveryInv, DeliveryAssumption
  <1>c. Cardinality(tasks') <= MaxConcurrency
    BY PermittedStep
  <1>1. /\ disp'.pc \in {"recv", "permit", "claim", "rename", "classify"}
        /\ disp'.pc # "recv" => disp'.name \in Names
    <2>1. CASE UNCHANGED disp
      BY <2>1 DEF DeliveryTypeOK
    <2>2. CASE disp' = [pc |-> "recv"]
      BY <2>2
    <2>3. CASE DispRecv
      <3>1. Head(chan) \in Names
        BY <2>3 DEF DispRecv, DeliveryTypeOK
      <3>2. PICK h \in Names : h = Head(chan)
        BY <3>1
      <3>3. disp' = [pc |-> "permit", name |-> h]
        BY <2>3, <3>2 DEF DispRecv
      <3> QED
        BY <3>3
    <2>4. ASSUME NEW q \in {"claim", "rename", "classify"}, disp.pc # "recv",
                 disp' = [disp EXCEPT !.pc = q]
          PROVE  disp'.pc = q /\ disp'.name \in Names
      <3>1. PICK p, n : disp = [pc |-> p, name |-> n]
        BY <1>0, <2>4 DEF Placed
      <3>2. n \in Names
        BY <2>4, <3>1 DEF DeliveryTypeOK
      <3>3. disp' = [pc |-> q, name |-> n]
        BY <2>4, <3>1
      <3> QED
        BY <3>2, <3>3
    <2> QED
      BY <2>1, <2>2, <2>3, <2>4
         DEF DeliveryNext, Dispatch, Deliver, JobEnds, Watcher, WatchWakes,
         WatchSends, WatchEnds, DispAcquire, DispLook, DispRename,
         SecondLook, DispClassify, LifelongDies, Supervise, delivery, daemon
  <1>n. disp.pc # "recv" => disp.name \in Names
    BY DEF DeliveryTypeOK
  <1>2. {new, cur, done, error, tasks}' \subseteq SUBSET Names
    <2>0. {new, cur, done, error, tasks} \subseteq SUBSET Names
      BY DEF DeliveryTypeOK
    <2>1. CASE UNCHANGED <<new, cur, done, error, tasks>>
      BY <2>0, <2>1
    <2>2. CASE \E n \in Names : Deliver(n)
      BY <2>0, <2>2 DEF Deliver, jobs
    <2>3. CASE \E n \in Names : JobEnds(n)
      BY <2>0, <2>3 DEF JobEnds, Archive
    <2>4. CASE DispLook
      BY <2>0, <2>4, <1>n DEF DispLook, Unlink, jobs
    <2>5. CASE DispRename
      BY <2>0, <2>5, <1>n DEF DispRename, SecondLook, Unlink, jobs
    <2>6. CASE DispClassify
      BY <2>0, <2>6, <1>n DEF DispClassify, Archive, jobs, dirs
    <2> QED
      BY <2>1, <2>2, <2>3, <2>4, <2>5, <2>6
         DEF DeliveryNext, Dispatch, Watcher, WatchWakes, WatchSends,
         WatchEnds, DispRecv, DispAcquire, LifelongDies, Supervise,
         delivery, dirs, jobs
  <1>3. /\ watch' \in [pc : {"first", "idle", "scan"}, todo : SUBSET Names]
        /\ event' \in BOOLEAN
    <2>0. /\ watch \in [pc : {"first", "idle", "scan"}, todo : SUBSET Names]
          /\ event \in BOOLEAN /\ new \subseteq Names
      BY DEF DeliveryTypeOK
    <2>1. CASE WatchWakes \/ WatchSends \/ WatchEnds
      <3>1. event' \in BOOLEAN
        BY <2>0, <2>1 DEF WatchWakes, WatchSends, WatchEnds
      <3>2. \/ watch' \in {watch, [pc |-> "scan", todo |-> new], [pc |-> "idle", todo |-> {}]}
            \/ \E n : watch' = [watch EXCEPT !.todo = @ \ {n}]
        BY <2>1 DEF WatchWakes, WatchSends, WatchEnds
      <3> QED
        BY <2>0, <3>1, <3>2
    <2>2. CASE UNCHANGED watch
      BY <2>2 DEF DeliveryTypeOK,
         DeliveryNext, Dispatch, Deliver, JobEnds, Watcher, WatchWakes,
         WatchSends, WatchEnds, DispRecv, DispAcquire, DispLook,
         DispRename, DispClassify, LifelongDies, Supervise, delivery,
         daemon, Notify, Unlink
    <2> QED
      BY <2>1, <2>2
         DEF DeliveryNext, Dispatch, Deliver, JobEnds, Watcher, DispRecv,
         DispAcquire, DispLook, DispRename, DispClassify, LifelongDies,
         Supervise, delivery, daemon
  <1>4. chan' \in Seq(Names) /\ Len(chan') <= Capacity
    <2>1. CASE WatchSends
      <3>1. PICK n \in Names : chan' = chan \/ (Len(chan) < Capacity /\ chan' = Append(chan, n))
        BY <2>1 DEF WatchSends, DeliveryTypeOK
      <3>2. chan \in Seq(Names) /\ Len(chan) <= Capacity
        BY DEF DeliveryTypeOK
      <3>3. CASE Len(chan) < Capacity /\ chan' = Append(chan, n)
        <4>1. chan' \in Seq(Names)
          BY <3>2, <3>3, AppendProperties
        <4>2. Len(chan') = Len(chan) + 1 /\ Len(chan) \in Nat
          BY <3>2, <3>3, AppendProperties, LenProperties
        <4> QED
          BY <1>0, <3>3, <4>1, <4>2
      <3> QED
        BY <3>1, <3>2, <3>3
    <2>2. CASE DispRecv
      BY <1>0, <2>2 DEF DispRecv, DeliveryTypeOK
    <2>3. CASE UNCHANGED chan
      BY <2>3 DEF DeliveryTypeOK
    <2> QED
      BY <2>1, <2>2, <2>3
         DEF DeliveryNext, Dispatch, Deliver, JobEnds, Watcher, WatchWakes,
         WatchEnds, DispAcquire, DispLook, DispRename, DispClassify,
         LifelongDies, Supervise, delivery, daemon
  <1>5. dead' \subseteq Lifelong /\ up' \in BOOLEAN /\ delivered' \in Nat
    <2>0. dead \subseteq Lifelong /\ up \in BOOLEAN /\ delivered \in Nat
      BY DEF DeliveryTypeOK
    <2>1. CASE \E n \in Names : Deliver(n)
      BY <2>0, <2>1 DEF Deliver
    <2>2. CASE \E t \in Lifelong : LifelongDies(t)
      BY <2>0, <2>2 DEF LifelongDies, world
    <2>3. CASE Supervise
      BY <2>0, <2>3 DEF Supervise, world
    <2>4. CASE UNCHANGED <<dead, up, delivered>>
      BY <2>0, <2>4
    <2> QED
      BY <2>1, <2>2, <2>3, <2>4
         DEF DeliveryNext, Dispatch, JobEnds, Watcher, WatchWakes,
         WatchSends, WatchEnds, DispRecv, DispAcquire, DispLook,
         DispRename, DispClassify, delivery, world
  <1> QED
    BY <1>0, <1>c, <1>1, <1>2, <1>3, <1>4, <1>5 DEF DeliveryTypeOK

\* Spec => []TypeOK of Delivery: among others, the channel never holds more than its
\* capacity and no more tasks run than max_concurrency, the permit being acquired
\* before the claim (spool.rs, watch; supervisor.rs, dispatch loop).
THEOREM DeliveryTypeCorrect ==
    DeliverySpec => []DeliveryTypeOK
  <1> DEFINE Inv == DeliveryInv /\ DeliveryTypeOK /\ Permitted
  <1>1. DeliveryInit => Inv
    <2> SUFFICES ASSUME DeliveryInit PROVE Inv
      OBVIOUS
    <2>1. DeliveryInv
      BY DeliveryInvInit
    <2>2. IsFiniteSet(tasks) /\ Cardinality(tasks) = 0
      BY FS_EmptySet DEF DeliveryInit
    <2>3. Permitted
      BY <2>2 DEF Permitted, DeliveryInit
    <2>4. DeliveryTypeOK
      <3>1. /\ new \subseteq Names /\ cur = {} /\ done = {} /\ error = {} /\ tasks = {}
            /\ watch = [pc |-> "first", todo |-> new] /\ chan = <<>>
            /\ disp = [pc |-> "recv"] /\ dead = {} /\ up = TRUE /\ event = FALSE
            /\ delivered = 0 /\ faults = 0
        BY DEF DeliveryInit, Names
      <3>2. says \in [Ids -> Contents] /\ runs \in [Ids -> Nat]
        BY <2>1 DEF DeliveryInv
      <3>3. Capacity \in Nat /\ MaxConcurrency \in Nat
        BY DeliveryAssumption DEF DeliveryAssumption
      <3>4. watch \in [pc : {"first", "idle", "scan"}, todo : SUBSET Names]
        BY <3>1
      <3>5. chan \in Seq(Names) /\ Len(chan) <= Capacity
        BY <3>1, <3>3
      <3>6. {new, cur, done, error, tasks} \subseteq SUBSET Names
        BY <3>1
      <3>7. /\ disp.pc = "recv" /\ event \in BOOLEAN /\ up \in BOOLEAN
            /\ dead \subseteq Lifelong /\ delivered \in Nat /\ faults \in Nat
        BY <3>1
      <3>8. Cardinality(tasks) <= MaxConcurrency
        BY <2>2, <3>3
      <3> QED
        BY <3>2, <3>4, <3>5, <3>6, <3>7, <3>8 DEF DeliveryTypeOK
    <2> QED
      BY <2>1, <2>3, <2>4
  <1>2. Inv /\ [DeliveryNext]_delivery => Inv'
    BY DeliveryStep, DeliveryTypeStep, PermittedStep
  <1>3. Inv => DeliveryTypeOK
    OBVIOUS
  <1> HIDE DEF Inv
  <1> QED
    BY <1>1, <1>2, <1>3, PTL DEF DeliverySpec

=============================================================================
