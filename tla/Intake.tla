------------------------------- MODULE Intake -------------------------------
(***************************************************************************)
(* Who may start a job and when: the pause gate, the semaphore of          *)
(* max_concurrency permits, the dispatch loop (supervisor.rs, run), the    *)
(* reconciler's mint pass (gc.rs, reconcile_inner), the job tasks that     *)
(* hold a permit each, the control endpoint (control.rs) and the drain on  *)
(* SIGTERM (run_shutdown).                                                 *)
(*                                                                         *)
(* Jobs are interchangeable here: what a claim and a task do with the      *)
(* spool, GitHub and Lima is in Lifecycle and Spool.  A flip of the pause  *)
(* flag can fall between any two steps: the runtime is multi-threaded.     *)
(***************************************************************************)
EXTENDS Integers

CONSTANTS
    MaxConcurrency,  \* config.max_concurrency
    MaxPending       \* bound: names in the watcher's channel

ASSUME IntakeAssumption ==
    MaxConcurrency \in Nat \ {0} /\ MaxPending \in Nat

VARIABLES
    paused,   \* the watch channel behind the pause gate
    free,     \* semaphore: available_permits()
    queue,    \* semaphore: place of each waiter in the line, 0 if it does not wait
    got,      \* semaphore: permits set aside for the drain's acquire_many
    pending,  \* names the watcher has sent and dispatch has not received
    disp,     \* where the dispatch loop is
    rec,      \* where the reconciler is
    tasks,    \* running job tasks
    signals,  \* "none", "term" (SIGTERM or SIGINT), "force" (a SIGINT after it)
    drain,    \* run_shutdown: "off", "paused", "waiting"
    exit,     \* "no", "drained", "forced", "failed"
    dead,     \* supervised tasks that have died
    seen,     \* an operator has paused and then read in_flight = 0
    late      \* claims written since the last pause, by writer

semaphore == <<free, queue, got>>
vars == <<paused, free, queue, got, pending, disp, rec, tasks, signals, drain,
          exit, dead, seen, late>>
-----------------------------------------------------------------------------
DispPC == {"recv", "gate", "acquire", "queued", "recheck", "prepare", "file"}
RecPC == {"idle", "repo", "job", "permit", "recheck", "write"}
Claimants == {"disp", "rec"}
Waiters == {"disp", "drain"}
Supervised == {"watcher", "gc", "reconciler"}

DispHolds == disp \in {"recheck", "prepare", "file"}
RecHolds == rec \in {"recheck", "write"}
Held == tasks + (IF DispHolds THEN 1 ELSE 0) + (IF RecHolds THEN 1 ELSE 0)

TypeOK ==
    /\ paused \in BOOLEAN
    /\ free \in 0..MaxConcurrency
    /\ queue \in [Waiters -> 0..2]
    /\ got \in 0..MaxConcurrency
    /\ pending \in 0..MaxPending
    /\ disp \in DispPC
    /\ rec \in RecPC
    /\ tasks \in 0..MaxConcurrency
    /\ signals \in {"none", "term", "force"}
    /\ drain \in {"off", "paused", "waiting"}
    /\ exit \in {"no", "drained", "forced", "failed"}
    /\ dead \subseteq Supervised
    /\ seen \in BOOLEAN
    /\ late \in [Claimants -> Nat]

Init ==
    /\ paused = FALSE
    /\ free = MaxConcurrency
    /\ queue = [w \in Waiters |-> 0]
    /\ got = 0
    /\ pending = 0
    /\ disp = "recv"
    /\ rec = "idle"
    /\ tasks = 0
    /\ signals = "none"
    /\ drain = "off"
    /\ exit = "no"
    /\ dead = {}
    /\ seen = FALSE
    /\ late = [c \in Claimants |-> 0]

Running == exit = "no"
-----------------------------------------------------------------------------
(* The semaphore: a released permit goes to the first waiter, and is free only
   when nobody waits.  acquire_many takes what is free and waits for the rest. *)
Enqueue(w) ==
    queue' = [queue EXCEPT ![w] = IF \A v \in Waiters : queue[v] = 0 THEN 1 ELSE 2]

Release ==
    \/ /\ \A w \in Waiters : queue[w] = 0
       /\ free' = free + 1
       /\ UNCHANGED <<queue, got>>
    \/ /\ queue["drain"] = 1
       /\ got' = got + 1
       /\ UNCHANGED <<free, queue>>
    \/ /\ queue["disp"] = 1
       /\ queue' = [w \in Waiters |-> IF queue[w] = 0 THEN 0 ELSE queue[w] - 1]
       /\ UNCHANGED <<free, got>>

\* A permit released while the dispatch loop is the first waiter wakes it.
DispAfterRelease == IF queue["disp"] = 1 THEN "recheck" ELSE disp
-----------------------------------------------------------------------------
(* The watcher, the operator and the signals. *)
Watch ==
    /\ Running
    /\ "watcher" \notin dead
    /\ pending < MaxPending
    /\ pending' = pending + 1
    /\ UNCHANGED <<paused, semaphore, disp, rec, tasks, signals, drain, exit,
                   dead, seen, late>>

Pause ==
    /\ Running
    /\ paused' = TRUE
    /\ late' = IF paused THEN late ELSE [c \in Claimants |-> 0]
    /\ UNCHANGED <<semaphore, pending, disp, rec, tasks, signals, drain, exit,
                   dead, seen>>

Resume ==
    /\ Running
    /\ paused' = FALSE
    /\ seen' = FALSE
    /\ late' = [c \in Claimants |-> 0]
    /\ UNCHANGED <<semaphore, pending, disp, rec, tasks, signals, drain, exit, dead>>

\* GET /status, as the README's drain script polls it after POST /pause.
InFlight == MaxConcurrency - free

Status ==
    /\ Running
    /\ paused
    /\ InFlight = 0
    /\ seen' = TRUE
    /\ UNCHANGED <<paused, semaphore, pending, disp, rec, tasks, signals, drain,
                   exit, dead, late>>

Signal ==
    /\ Running
    /\ signals' = CASE signals = "none" -> "term" [] OTHER -> "force"
    /\ UNCHANGED <<paused, semaphore, pending, disp, rec, tasks, drain, exit,
                   dead, seen, late>>
-----------------------------------------------------------------------------
(* The dispatch loop. *)
DispGoto(from, to) ==
    /\ Running
    /\ disp = from
    /\ disp' = to
    /\ UNCHANGED <<paused, tasks, signals, drain, exit, dead, seen>>

DispRecv ==
    /\ DispGoto("recv", "gate")
    /\ pending > 0
    /\ pending' = pending - 1
    /\ UNCHANGED <<semaphore, rec, late>>

DispGate ==
    /\ DispGoto("gate", "acquire")
    /\ ~paused
    /\ UNCHANGED <<semaphore, pending, rec, late>>

DispAcquire ==
    /\ \/ /\ free > 0
          /\ DispGoto("acquire", "recheck")
          /\ free' = free - 1
          /\ UNCHANGED <<queue, got>>
       \/ /\ free = 0
          /\ DispGoto("acquire", "queued")
          /\ Enqueue("disp")
          /\ UNCHANGED <<free, got>>
    /\ UNCHANGED <<pending, rec, late>>

\* Mutant of DispRecheck: the pause flag is not read again.
DispRecheckSkipped ==
    /\ DispGoto("recheck", "prepare")
    /\ UNCHANGED <<semaphore, pending, rec, late>>

\* Mutant of DispRecheck: the permit is kept while waiting for the resume.
DispRecheckPins ==
    /\ DispGoto("recheck", "prepare")
    /\ ~paused
    /\ UNCHANGED <<semaphore, pending, rec, late>>

\* Pause is read again once the permit is held.
DispRecheck ==
    /\ \/ paused /\ DispGoto("recheck", "gate") /\ Release
       \/ ~paused /\ DispGoto("recheck", "prepare") /\ UNCHANGED semaphore
    /\ UNCHANGED <<pending, rec, late>>

CountLate(c) == late' = IF paused THEN [late EXCEPT ![c] = @ + 1] ELSE late

\* prepare and what follows from it: the claim is written and run by a task that
\* keeps the permit, or written and filed at once, or there is none (Skip).
DispPrepare ==
    /\ Running
    /\ disp = "prepare"
    /\ \/ /\ disp' = "recv"
          /\ tasks' = tasks + 1
          /\ CountLate("disp")
          /\ UNCHANGED semaphore
       \/ /\ disp' = "file"
          /\ CountLate("disp")
          /\ UNCHANGED <<tasks, semaphore>>
       \/ /\ disp' = "recv"
          /\ Release
          /\ UNCHANGED <<tasks, late>>
    /\ UNCHANGED <<paused, pending, rec, signals, drain, exit, dead, seen>>

DispFile ==
    /\ DispGoto("file", "recv")
    /\ Release
    /\ UNCHANGED <<pending, rec, late>>

Dispatch == DispRecv \/ DispGate \/ DispAcquire \/ DispRecheck \/ DispPrepare
            \/ DispFile
-----------------------------------------------------------------------------
(* The reconciler. *)
RecGoto(from, to) ==
    /\ Running
    /\ "reconciler" \notin dead
    /\ rec = from
    /\ rec' = to
    /\ UNCHANGED <<paused, pending, signals, drain, exit, dead, seen>>

\* A tick is skipped while paused.
RecTick ==
    /\ RecGoto("idle", "repo")
    /\ ~paused
    /\ UNCHANGED <<semaphore, disp, tasks, late>>

\* The next repo: its runners and its queue are read, unless pause is set.
RecRepo ==
    /\ \/ paused /\ RecGoto("repo", "idle")
       \/ ~paused /\ (RecGoto("repo", "job") \/ RecGoto("repo", "idle"))
    /\ UNCHANGED <<semaphore, disp, tasks, late>>

\* The next queued job of the repo that should be minted, or the next repo.
RecJob ==
    /\ \/ paused /\ RecGoto("job", "idle")
       \/ ~paused /\ (RecGoto("job", "permit") \/ RecGoto("job", "repo"))
    /\ UNCHANGED <<semaphore, disp, tasks, late>>

\* try_acquire_owned.
RecPermit ==
    /\ \/ free > 0 /\ RecGoto("permit", "recheck") /\ free' = free - 1
       \/ free = 0 /\ RecGoto("permit", "idle") /\ UNCHANGED free
    /\ UNCHANGED <<queue, got, disp, tasks, late>>

\* Mutant of RecRecheck: the early return keeps the permit.
RecRecheckLeaks ==
    /\ IF paused THEN RecGoto("recheck", "idle") ELSE RecGoto("recheck", "write")
    /\ UNCHANGED <<semaphore, disp, tasks, late>>

\* Pause is read again once the permit is held.
RecRecheck ==
    /\ \/ /\ paused
          /\ RecGoto("recheck", "idle")
          /\ Release
          /\ disp' = DispAfterRelease
       \/ /\ ~paused
          /\ RecGoto("recheck", "write")
          /\ UNCHANGED <<semaphore, disp>>
    /\ UNCHANGED <<tasks, late>>

\* Mutant of RecWrite: the rest of the queue is minted in one go.
RecWriteBatch ==
    /\ tasks' = tasks + 1
    /\ CountLate("rec")
    /\ \/ RecGoto("write", "write") /\ free > 0 /\ free' = free - 1
       \/ RecGoto("write", "job") /\ UNCHANGED free
    /\ UNCHANGED <<queue, got, disp>>

\* write_synthetic_claim: a claim and a task that keeps the permit, or none.
RecWrite ==
    /\ RecGoto("write", "job")
    /\ \/ /\ tasks' = tasks + 1
          /\ CountLate("rec")
          /\ UNCHANGED <<semaphore, disp>>
       \/ /\ Release
          /\ disp' = DispAfterRelease
          /\ UNCHANGED <<tasks, late>>

Reconcile == RecTick \/ RecRepo \/ RecJob \/ RecPermit \/ RecRecheck \/ RecWrite
-----------------------------------------------------------------------------
\* Mutant of TaskEnds: the permit is not given back.
TaskEndsLeaks ==
    /\ Running
    /\ tasks > 0
    /\ tasks' = tasks - 1
    /\ UNCHANGED <<paused, semaphore, pending, disp, rec, signals, drain, exit,
                   dead, seen, late>>

\* A job task has filed its claim and drops its permit.
TaskEnds ==
    /\ Running
    /\ tasks > 0
    /\ tasks' = tasks - 1
    /\ Release
    /\ disp' = DispAfterRelease
    /\ UNCHANGED <<paused, pending, rec, signals, drain, exit, dead, seen, late>>
-----------------------------------------------------------------------------
(* run_shutdown. *)
ShutdownPause ==
    /\ Running
    /\ drain = "off"
    /\ signals # "none"
    /\ drain' = "paused"
    /\ paused' = TRUE
    /\ late' = IF paused THEN late ELSE [c \in Claimants |-> 0]
    /\ UNCHANGED <<semaphore, pending, disp, rec, tasks, signals, exit, dead, seen>>

\* acquire_many(max_concurrency).
ShutdownAcquire ==
    /\ Running
    /\ drain = "paused"
    /\ drain' = "waiting"
    /\ got' = free
    /\ free' = 0
    /\ IF free = MaxConcurrency THEN UNCHANGED queue ELSE Enqueue("drain")
    /\ UNCHANGED <<paused, pending, disp, rec, tasks, signals, exit, dead, seen, late>>

\* Mutant of Acquired: one permit short.
AcquiredShort == drain = "waiting" /\ got >= MaxConcurrency - 1

Acquired == drain = "waiting" /\ got = MaxConcurrency

\* The select is biased: the drain wins over a force signal.
ShutdownEnds ==
    /\ Running
    /\ drain = "waiting"
    /\ \/ Acquired /\ exit' = "drained"
       \/ ~Acquired /\ signals = "force" /\ exit' = "forced"
    /\ UNCHANGED <<paused, semaphore, pending, disp, rec, tasks, signals, drain,
                   dead, seen, late>>

\* A supervised task ends or panics; a permit the reconciler held is dropped.
Dies(t) ==
    /\ Running
    /\ t \notin dead
    /\ dead' = dead \cup {t}
    /\ IF t = "reconciler" /\ RecHolds
       THEN rec' = "idle" /\ Release /\ disp' = DispAfterRelease
       ELSE UNCHANGED <<rec, semaphore, disp>>
    /\ UNCHANGED <<paused, pending, tasks, signals, drain, exit, seen, late>>

\* supervise sees it, unless the shutdown has just resolved.
SuperviseFails ==
    /\ Running
    /\ dead # {}
    /\ ~Acquired
    /\ exit' = "failed"
    /\ UNCHANGED <<paused, semaphore, pending, disp, rec, tasks, signals, drain,
                   dead, seen, late>>

Next ==
    \/ Watch \/ Pause \/ Resume \/ Status \/ Signal
    \/ Dispatch \/ Reconcile \/ TaskEnds
    \/ ShutdownPause \/ ShutdownAcquire \/ ShutdownEnds
    \/ (\E t \in Supervised : Dies(t)) \/ SuperviseFails

Spec == Init /\ [][Next]_vars

(* Everything the runtime drives keeps being polled.  A job task ends: its job is
   bounded by job_max_runtime_secs.  Operators, signals and deaths may never come. *)
FairSpec ==
    /\ Spec
    /\ WF_vars(Dispatch) /\ WF_vars(Reconcile) /\ WF_vars(TaskEnds)
    /\ WF_vars(ShutdownPause) /\ WF_vars(ShutdownAcquire) /\ WF_vars(ShutdownEnds)
    /\ WF_vars(SuperviseFails)
-----------------------------------------------------------------------------
(* PROPERTIES *)

(* Every permit is somewhere: free, with a job task, with the dispatch loop or
   the reconciler, or set aside for the drain.  No path through a claim, a
   re-check or a failure loses one or makes one up. *)
PermitsConserved == free + got + Held = MaxConcurrency

(* "Every in-flight job released its permit before a force signal arrived, so no
   VM was abandoned" (Shutdown::Drained): at a clean exit no job task runs and no
   claim is being written or filed, whoever resumed in the meantime. *)
DrainedMeansIdle ==
    exit = "drained" => tasks = 0 /\ ~DispHolds /\ ~RecHolds

(* "pause, wait for `in_flight` to reach 0, then stop the daemon — so no
   in-flight VM is orphaned" (control.rs): after an operator has paused and read
   in_flight = 0, nothing claims a job until somebody resumes. *)
SafeToStop ==
    seen => tasks = 0 /\ disp \notin {"prepare", "file"} /\ rec # "write"

(* A pause lets at most the one claim through that the dispatch loop, and the one
   that the reconciler, had already decided on. *)
PauseBounded == \A c \in Claimants : late[c] <= 1

(* A shutdown comes to an end once its jobs do, even when an operator resumes
   while it drains: what the drain waits for cannot be overtaken. *)
DrainCompletes == drain # "off" ~> exit # "no"

(* A pause that lasts lets the operator's in_flight reach 0, unless a shutdown's
   own drain holds the permits. *)
PauseDrains == paused ~> (~paused \/ InFlight = 0 \/ drain # "off" \/ exit # "no")
=============================================================================
