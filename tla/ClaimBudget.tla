---------------------------- MODULE ClaimBudget ----------------------------
(***************************************************************************)
(* How long a job may keep its claim, against the age at which the         *)
(* collector calls a claim in cur/ a leftover (gc.rs,                      *)
(* cur_claim_max_age_secs and expire_stale_cur).                           *)
(*                                                                         *)
(* One claim and the job task that holds it (spawn_job, run_job,           *)
(* run_in_vm, teardown) as a sequence of external calls, each with a       *)
(* timeout.  `left` is what is left of the timeout of the call in          *)
(* progress; a call ends at any moment before it runs out.  Local file     *)
(* work takes no time, as the comment on VM_PER_JOB_COMMAND_BUDGET says.   *)
(*                                                                         *)
(* There are two clocks.  Timeouts run on the monotonic clock, file ages   *)
(* are wall-clock differences.  They advance together (Tick) except while  *)
(* the host sleeps (Sleep), when only the wall clock does.                 *)
(***************************************************************************)
EXTENDS Naturals

CONSTANTS
    ApiTimeout,       \* api_timeout_secs, of one HTTP request
    StartTimeout, CopyTimeout, StopTimeout, DeleteTimeout, ListTimeout,
    JobMaxRuntime,    \* job_max_runtime_secs, of `limactl shell`
    CompletionCheck,  \* job_completion_check
    U64Max,           \* where saturating arithmetic stops
    SleepsInFlight,   \* whether the host may be suspended while a job runs
    MaxWall,          \* bound: the wall clock
    LastClaim,        \* bound: no claim is made later
    MaxClaims         \* bound: claims in a behaviour

ASSUME BudgetAssumption ==
    /\ ApiTimeout \in Nat /\ StartTimeout \in Nat /\ CopyTimeout \in Nat
    /\ StopTimeout \in Nat /\ DeleteTimeout \in Nat /\ ListTimeout \in Nat
    /\ JobMaxRuntime \in Nat
    /\ CompletionCheck \in BOOLEAN
    /\ SleepsInFlight \in BOOLEAN
    /\ U64Max \in Nat /\ MaxWall \in Nat /\ MaxClaims \in Nat /\ LastClaim \in Nat
    /\ MaxWall <= U64Max

VARIABLES
    wall,     \* the wall clock, in seconds
    claim,    \* whether cur/<id>.job exists
    stamp,    \* its mtime
    phase,    \* the call the job task is in; "none" when there is no task
    trip,     \* which request of a GitHub call
    left,     \* what is left of the timeout of the call
    ok,       \* run_in_vm has succeeded so far
    gc,       \* the collector inside expire_stale_cur
    now,      \* the `now` of its scan
    claims    \* claims made

vars == <<wall, claim, stamp, phase, trip, left, ok, gc, now, claims>>
task == <<phase, trip, left, ok>>
-----------------------------------------------------------------------------
(* The age limit. *)

LeastOf(a, b) == IF a < b THEN a ELSE b

SatAdd(a, b) == LeastOf(a + b, U64Max)
SatMul(a, b) == LeastOf(a * b, U64Max)

GH_ROUNDTRIPS_PER_CALL == 6

\* Mutant of VM_PER_JOB_COMMAND_BUDGET: one of the two `list` calls forgotten.
VmBudgetOneList ==
    StartTimeout + CopyTimeout + StopTimeout + DeleteTimeout + ListTimeout

VM_PER_JOB_COMMAND_BUDGET ==
    StartTimeout + CopyTimeout + StopTimeout + DeleteTimeout + 2 * ListTimeout

cur_claim_max_age_secs ==
    LET gh_calls == IF CompletionCheck THEN 3 ELSE 2
        api_budget == SatMul(SatMul(ApiTimeout, GH_ROUNDTRIPS_PER_CALL), gh_calls)
    IN  SatAdd(SatAdd(JobMaxRuntime, api_budget), VM_PER_JOB_COMMAND_BUDGET)
-----------------------------------------------------------------------------
(* The job task. *)

\* send_authed: look up the installation and mint a token when they are not
\* cached (requests 1 and 2), send (3), and all over again on a 401 (4 to 6).
Trips == 1..6
GithubPhases == {"mint", "dereg", "check"}
LimaPhases == {"start", "copy", "shell", "capture", "stop", "delete", "recheck"}
Phases == GithubPhases \cup LimaPhases \cup {"none"}

Timeout(p) ==
    CASE p \in GithubPhases -> ApiTimeout
      [] p = "start" -> StartTimeout
      [] p = "copy" -> CopyTimeout
      [] p = "shell" -> JobMaxRuntime
      [] p \in {"capture", "recheck"} -> ListTimeout
      [] p = "stop" -> StopTimeout
      [] p = "delete" -> DeleteTimeout
      [] p = "none" -> 0

TypeOK ==
    /\ wall \in 0..MaxWall
    /\ claim \in BOOLEAN
    /\ stamp \in 0..MaxWall
    /\ phase \in Phases
    /\ trip \in Trips
    /\ left \in Nat
    /\ ok \in BOOLEAN
    /\ gc \in {"idle", "scan", "expire"}
    /\ now \in 0..MaxWall
    /\ claims \in Nat

Init ==
    /\ wall = 0
    /\ claim = FALSE
    /\ stamp = 0
    /\ phase = "none"
    /\ trip = 1
    /\ left = 0
    /\ ok = FALSE
    /\ gc = "idle"
    /\ now = 0
    /\ claims = 0

Enter(p) ==
    /\ phase' = p
    /\ trip' = 1
    /\ left' = Timeout(p)

\* try_claim or write_synthetic_claim stamps the claim; spawn_job starts.
Claim ==
    /\ ~claim
    /\ phase = "none"
    /\ claims < MaxClaims
    /\ wall <= LastClaim
    /\ claims' = claims + 1
    /\ claim' = TRUE
    /\ stamp' = wall
    /\ ok' = TRUE
    /\ Enter("mint")
    /\ UNCHANGED <<wall, gc, now>>

\* The next request of a GitHub call: 1 and 4 are skipped when the installation
\* id is known, 2 and 5 when a token is cached; only a 401 leads from 3 on.
NextTrip ==
    /\ phase \in GithubPhases
    /\ trip < 6
    /\ trip' \in (trip + 1)..(IF trip < 3 THEN 3 ELSE 6)
    /\ left' = ApiTimeout
    /\ UNCHANGED <<wall, claim, stamp, phase, ok, gc, now, claims>>

\* finalize_done or finalize_error: the task lets go of the claim.
Finalize ==
    /\ claim' = FALSE
    /\ phase' = "none"
    /\ trip' = 1
    /\ left' = 0

\* generate_jit_config: an error is final, and nothing has to be torn down.
MintEnds ==
    /\ phase = "mint"
    /\ \/ Enter("start") /\ UNCHANGED claim
       \/ Finalize
    /\ UNCHANGED <<wall, stamp, ok, gc, now, claims>>

\* start, copy and shell: the next one, or an error that goes to teardown.
\* The watchdog's abort is such an error of shell.
RunStepEnds ==
    /\ phase \in {"start", "copy", "shell"}
    /\ \/ /\ Enter(CASE phase = "start" -> "copy"
                     [] phase = "copy" -> "shell"
                     [] phase = "shell" -> "capture")
          /\ UNCHANGED ok
       \/ Enter("capture") /\ ok' = FALSE
    /\ UNCHANGED <<wall, claim, stamp, gc, now, claims>>

\* capture_oom_evidence, then teardown: stop, delete, and a presence re-check
\* when delete has not exited 0, then delete_runner.  Errors are ignored.
TeardownStepEnds ==
    /\ \/ phase = "capture" /\ Enter("stop")
       \/ phase = "stop" /\ Enter("delete")
       \/ phase = "delete" /\ (Enter("recheck") \/ Enter("dereg"))
       \/ phase = "recheck" /\ Enter("dereg")
    /\ UNCHANGED <<wall, claim, stamp, ok, gc, now, claims>>

\* After delete_runner a successful job asks GitHub about its own job, and a
\* failed one is filed.
DeregEnds ==
    /\ phase = "dereg"
    /\ IF ok /\ CompletionCheck
       THEN Enter("check") /\ UNCHANGED claim
       ELSE Finalize
    /\ UNCHANGED <<wall, stamp, ok, gc, now, claims>>

CheckEnds ==
    /\ phase = "check"
    /\ Finalize
    /\ UNCHANGED <<wall, stamp, ok, gc, now, claims>>

\* The task panics, or the process dies and startup files nothing: the claim
\* stays behind.
TaskDies ==
    /\ phase # "none"
    /\ phase' = "none"
    /\ trip' = 1
    /\ left' = 0
    /\ UNCHANGED <<wall, claim, stamp, ok, gc, now, claims>>

JobStep ==
    Claim \/ NextTrip \/ MintEnds \/ RunStepEnds \/ TeardownStepEnds
    \/ DeregEnds \/ CheckEnds \/ TaskDies
-----------------------------------------------------------------------------
(* Time passes only within the timeout of the call in progress. *)

Tick ==
    /\ wall < MaxWall
    /\ phase # "none" => left > 0
    /\ wall' = wall + 1
    /\ left' = IF phase = "none" THEN left ELSE left - 1
    /\ UNCHANGED <<claim, stamp, phase, trip, ok, gc, now, claims>>

\* The host is suspended: `Instant` stands still.
Sleep ==
    /\ phase # "none" => SleepsInFlight
    /\ wall < MaxWall
    /\ wall' = wall + 1
    /\ UNCHANGED <<claim, stamp, task, gc, now, claims>>
-----------------------------------------------------------------------------
(* expire_stale_cur: `now` is read after the directory is opened, the entry's
   age is judged later, and the expired entry is filed by name. *)
GcBegin ==
    /\ gc = "idle"
    /\ gc' = "scan"
    /\ now' = wall
    /\ UNCHANGED <<wall, claim, stamp, task, claims>>

\* Mutant of Age: the operands of duration_since are swapped.
AgeSwapped == IF stamp > now THEN stamp - now ELSE 0

\* duration_since fails for a file of the future: unwrap_or_default.
Age == IF now > stamp THEN now - stamp ELSE 0

GcJudge ==
    /\ gc = "scan"
    /\ gc' = IF claim /\ Age > cur_claim_max_age_secs THEN "expire" ELSE "idle"
    /\ UNCHANGED <<wall, claim, stamp, task, now, claims>>

GcExpire ==
    /\ gc = "expire"
    /\ gc' = "idle"
    /\ claim' = FALSE
    /\ UNCHANGED <<wall, stamp, task, now, claims>>

Expire == GcBegin \/ GcJudge \/ GcExpire

Next == JobStep \/ Tick \/ Sleep \/ Expire

Spec == Init /\ [][Next]_vars

(* Time goes on, and the collector's interval loop sweeps again and again.
   Nothing makes the external calls of a job end early. *)
FairSpec == Spec /\ WF_vars(Tick) /\ WF_vars(Expire)
-----------------------------------------------------------------------------
(* PROPERTIES *)

(* "Pad the threshold by the full non-shell overhead so an in-flight job is
   never reaped" (cur_claim_max_age_secs): however slow its calls are, a job
   task finds its claim in cur/ until it files it. *)
InFlightNeverReaped == phase # "none" => claim

(* A claim whose task died without filing it does not block its id for ever:
   some sweep files it. *)
OrphanReleased == (claim /\ phase = "none") ~> ~claim
=============================================================================
