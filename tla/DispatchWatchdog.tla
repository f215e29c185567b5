-------------------------- MODULE DispatchWatchdog --------------------------
(***************************************************************************)
(* The watchdog over a runner that may never be given a job (runner.rs,    *)
(* watch_dispatch), racing `gha-run-once` in run_in_vm.                    *)
(*                                                                         *)
(* GitHub knows what the runner does; its API shows it up to Lag later; a  *)
(* poll is answered up to Latency after it is sent, with what the API      *)
(* showed at some moment in between.  Time is discrete; the deadline, the  *)
(* poll interval and the delays are constants in the same unit.            *)
(***************************************************************************)
EXTENDS Integers

CONSTANTS
    Deadline,   \* dispatch_deadline_secs
    Poll,       \* the poll interval
    Latency,    \* timing: a poll is answered within it
    Lag,        \* timing: the API shows a change within it
    ExitLag,    \* timing: `limactl shell` returns within it after the job
    MaxFail,    \* bound: polls that fail
    MaxTime     \* bound: on the clock

ASSUME WatchdogAssumption ==
    /\ Poll \in Nat \ {0}
    /\ {Deadline, Latency, Lag, ExitLag, MaxFail, MaxTime} \subseteq Nat

VARIABLES
    now,      \* since watch_dispatch started
    runner,   \* the truth: "off", "idle", "busy", "gone"
    since,    \* when runner last changed
    given,    \* when the runner was given its job, -1 if never
    shown,    \* what the API shows of runner
    pc,       \* "sleep", "sent", "answer", "parked"; "reaped" and "over" end it
    due,      \* when the ticker fires next
    sent,     \* when the poll was sent
    obs,      \* the answer on its way
    pending,  \* an abort verdict waits to be confirmed
    fails     \* polls that have failed

truth == <<runner, since, given>>
vars == <<now, runner, since, given, shown, pc, due, sent, obs, pending, fails>>
-----------------------------------------------------------------------------
RunnerStates == {"off", "idle", "busy", "gone"}
Watching == pc \in {"sleep", "sent", "answer"}
Over == pc \in {"reaped", "over"}

\* The ticker stays on its grid, whatever ticks are missed.
TypeOK ==
    /\ now \in 0..MaxTime
    /\ runner \in RunnerStates /\ shown \in RunnerStates
    /\ since \in 0..MaxTime
    /\ given \in -1..MaxTime
    /\ pc \in {"sleep", "sent", "answer", "parked", "reaped", "over"}
    /\ due \in 0..(MaxTime + Poll) /\ due % Poll = 0
    /\ sent \in 0..MaxTime
    /\ obs \in {"busy", "idle", "gone", "unknown"}
    /\ pending \in BOOLEAN
    /\ fails \in 0..MaxFail

\* The first tick has fired; the VM is up and its agent is not connected yet.
Init ==
    /\ now = 0
    /\ runner = "off" /\ shown = "off"
    /\ since = 0
    /\ given = -1
    /\ pc = "sleep"
    /\ due = Poll
    /\ sent = 0
    /\ obs = "unknown"
    /\ pending = FALSE
    /\ fails = 0
-----------------------------------------------------------------------------
(* The runner, GitHub and the clock. *)
Change(from, to) ==
    /\ ~Over
    /\ runner = from
    /\ runner' = to
    /\ since' = now
    /\ UNCHANGED <<now, shown, pc, due, sent, obs, pending, fails>>

Connect == Change("off", "idle") /\ UNCHANGED given
Assign == Change("idle", "busy") /\ given' = now
JobEnds == Change("busy", "gone") /\ UNCHANGED given
RegistrationLost ==
    (Change("idle", "gone") \/ Change("off", "gone")) /\ UNCHANGED given

ApiCatchesUp ==
    /\ ~Over
    /\ shown # runner
    /\ shown' = runner
    /\ UNCHANGED <<now, truth, pc, due, sent, obs, pending, fails>>

\* gha-run-once exits after its one job: run_in_vm returns Ok.
ShellReturns ==
    /\ ~Over
    /\ runner = "gone" /\ given # -1
    /\ pc' = "over"
    /\ UNCHANGED <<now, truth, shown, due, sent, obs, pending, fails>>

\* Time passes unless something is due by now.
Tick ==
    /\ ~Over
    /\ now < MaxTime
    /\ pc = "sleep" => now < due
    /\ pc \in {"sent", "answer"} => now < sent + Latency
    /\ shown # runner => now < since + Lag
    /\ runner = "gone" /\ given # -1 => now < since + ExitLag
    /\ now' = now + 1
    /\ UNCHANGED <<truth, shown, pc, due, sent, obs, pending, fails>>
-----------------------------------------------------------------------------
(* watch_dispatch. *)

\* MissedTickBehavior::Skip: a late tick fires at once, the next on the grid.
NextDue == (now \div Poll + 1) * Poll

PollSend ==
    /\ pc = "sleep"
    /\ now >= due
    /\ due' = NextDue
    /\ sent' = now
    /\ pc' = "sent"
    /\ UNCHANGED <<now, truth, shown, obs, pending, fails>>

\* observe_runner: what the API shows, or that the call failed.
PollRead ==
    /\ pc = "sent"
    /\ pc' = "answer"
    /\ \/ obs' = (IF shown = "off" THEN "gone" ELSE shown) /\ UNCHANGED fails
       \/ fails < MaxFail /\ fails' = fails + 1 /\ obs' = "unknown"
    /\ UNCHANGED <<now, truth, shown, due, sent, pending>>

\* dispatch_verdict, with the time at which the answer arrived.
AbortVerdict == obs \in {"idle", "gone"} /\ now > Deadline

\* Mutant of ConfirmAbort: the first abort verdict reaps.
ConfirmAtOnce ==
    /\ pc' = IF AbortVerdict THEN "reaped" ELSE "sleep"
    /\ UNCHANGED pending

\* Mutant of ConfirmAbort: a failed poll disarms the confirmation.
ConfirmForgets ==
    /\ pc' = IF AbortVerdict /\ pending THEN "reaped" ELSE "sleep"
    /\ pending' = AbortVerdict

\* confirm_abort: an abort verdict reaps if one is pending, else arms; anything
\* else holds.
ConfirmAbort ==
    /\ pc' = IF AbortVerdict /\ pending THEN "reaped" ELSE "sleep"
    /\ pending' = (pending \/ AbortVerdict)

\* A busy runner parks the watchdog for good.
PollAnswer ==
    /\ pc = "answer"
    /\ IF obs = "busy" THEN pc' = "parked" /\ UNCHANGED pending ELSE ConfirmAbort
    /\ UNCHANGED <<now, truth, shown, due, sent, obs, fails>>

Next ==
    \/ Connect \/ Assign \/ JobEnds \/ RegistrationLost \/ ApiCatchesUp
    \/ ShellReturns \/ Tick
    \/ PollSend \/ PollRead \/ PollAnswer

Spec == Init /\ [][Next]_vars
-----------------------------------------------------------------------------
(* PROPERTIES *)

(* The purpose of the confirming poll (confirm_abort): a runner that was given
   its job so early that the API showed it by the deadline is not reaped while
   the job runs, although a verdict pairs an old observation with the time of
   its arrival. *)
OnTimeSpared == pc = "reaped" /\ runner = "busy" => given + Lag > Deadline

(* From one poll to the next. *)
Cycle == IF Latency > Poll THEN Latency ELSE Poll

(* "clearing on it would let API blips [...] stave off reaping indefinitely"
   (confirm_abort): a runner that gets no job is reaped by the second poll after
   the deadline, and every failed poll delays that by one poll and no more. *)
WedgedReaped ==
    Watching /\ given = -1 => now <= Deadline + (2 + fails) * Cycle + Latency

(* The comments of confirm_abort and watch_dispatch: "genuine recovery is the
   runner going `busy`, which parks the watchdog *before* this function is
   reached"; "runner never started a job (confirmed)". *)
ReapedNeverRan == pc = "reaped" => ~(runner = "gone" /\ given # -1)
=============================================================================
