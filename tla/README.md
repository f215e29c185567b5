# TLA+ project for the GitHub Actions runner orchestrator

The orchestrator is one Rust daemon that watches a spool of webhook deliveries,
starts an ephemeral Lima VM with a just-in-time GitHub runner for every queued
job, and cleans up behind jobs, crashes and lost messages. This directory holds
TLA+ modules translated from its source, TLC configurations that check them on
small instances, and TLAPS proofs of their main invariants.

Paths below are relative to the repository (`src/spool.rs` is the crate's spool
module). `PROJECT.json` maps every definition to the lines it models.

## 1. The system

### Components, their state and operations

| Component | State | Operations |
|---|---|---|
| Spool (`spool.rs`) | directories `new/`, `cur/`, `done/`, `error/`, one file per `workflow_job` id; `ARCHIVE_MUTATION_LOCK` | `try_claim`, `write_synthetic_claim`, `finalize_done`, `finalize_error` (`archive`, `preserve_existing`, stamp) |
| Watcher (`spool.rs`) | inotify/FSEvents watcher, channel of 256 names, rescan timer | sends names of `new/` to the dispatch loop |
| Dispatch loop (`supervisor.rs`, `run`) | pause flag (watch channel), semaphore of `max_concurrency` permits | receive a name, wait for resume, acquire, re-check, `prepare`, `spawn_job` or file |
| Entry policy (`supervisor.rs`, `prepare`) | none | parse, verify, cross-check and classify a delivery: run, drop, reject, skip |
| Job task (`supervisor.rs` `spawn_job`, `runner.rs` `run_job`) | a permit, a claim, a runner registration, a VM | mint JIT config, start VM, copy, shell, capture, teardown, deregister, completion check, file |
| Dispatch watchdog (`runner.rs`, `watch_dispatch`) | ticker, pending abort | poll the runner, park on busy, reap after two abort verdicts |
| Job files (`runner.rs`, `gc.rs`) | `instances/<vm>.jit`, `logs/<vm>.serial.log`, named after the job | write, copy, capture after a guest OOM, remove in teardown; pruned by age |
| Collector (`gc.rs`, `sweep_inner`) | none between sweeps | `expire_stale_cur`, VM pass, runner pass, `prune_old_archives`, serial logs, JIT blobs |
| Startup reap (`gc.rs`) | none | stop and delete every managed VM, file every claim whose VM is gone |
| Reconciler (`gc.rs`, `reconcile_inner`) | none between passes | list runners and queue, mint for uncovered queued jobs |
| Shutdown (`supervisor.rs`, `run_shutdown`, `supervise`) | signal stream, drain | pause, `acquire_many`, force on a second signal |
| Control endpoint (`control.rs`) | reads the semaphore, the pause flag, the four directories; a VM snapshot refreshed by a poll | status, pause, resume, `GET /jobs` |
| Lima driver (`lima/mod.rs`) | external VMs | start, copy, shell, stop, delete, list, each with a timeout |
| GitHub client (`github/jit.rs`) | cached default branches | JIT mint, list, get and delete runners, queued jobs; one retry on a 401 |
| Installation tokens (`github/installation.rs`) | installation id (`OnceCell`), one cached token with its `valid_until` | `token`, `scoped_token`, `invalidate` |
| Cache warmer (`warm.rs`) | semaphore, coalescer's marks, attempt counter, `state_dir/warm/<slug>`, process groups | `maybe_trigger`, `run_candidate`, `run_warm`, `run_step`, `closure_is_host_build_safe` |
| Web UI, JWT, event types, configuration | small or none | see section 7 |

### How they interact

* The watcher hands names to the dispatch loop; the loop takes a permit and
  claims the name by an exclusive rename; the claim and the permit go to a job
  task, which files the claim when it ends.
* The reconciler takes permits from the same semaphore (`try_acquire`) and
  writes synthetic claims into the same `cur/` for jobs GitHub still has queued.
* The collector reads `cur/` to learn which VMs and registrations are in use,
  deletes the others by **name** (derived from the job id), and files claims that
  are too old or whose VM has an outdated image.
* Pause and shutdown act only through the flag and the semaphore.
* A claimed job may trigger a detached warm; it shares nothing with the job but
  the GitHub client.
* `GET /jobs` reads the directories without a lock while the tasks rename in them.
* All tasks share one cached token; mints run outside its lock.
* After a crash nothing but the directories, GitHub and Lima remembers anything.

### What is hard here

System calls of four tasks on the same file names; plans made from reads that
are seconds or minutes old; names that a second attempt at a job reuses; two
clocks (file ages are wall-clock, timeouts monotonic); calls that fail or answer
after the effect; a crash between any two steps; a semaphore queue shared by the
dispatch loop, the reconciler and the drain; polls that arrive late. The list,
each with its line and the properties that would catch it, is under `hazards` in
`PROJECT.json`.

### What makes each component correct

* Spool: one owner per id, a replayed delivery never runs, the memory of a job
  is never lost, pruning takes only expired markers.
* Age limit: no claim in flight is ever expired; every orphaned one is.
* Lifecycle: nobody takes a running task's claim or registration; its VM falls
  only to a VM pass older than its claim; a queued job is served; an unused VM
  is deleted.
* Intake: no permit is lost; a drained exit and "paused and `in_flight` = 0"
  both mean that nothing runs; shutdown and pause come to an end.
* Delivery: a webhook is run once and only if the policy accepts it; `new/`
  drains; what the operator sees as queued is started.
* Watchdog: a runner that got its job in time is spared, a wedged one is reaped
  in bounded time.
* Warmer: one warm per tip within the TTL, failed ones can be retried; no warm
  touches another's directory; no process group outlives a timeout, a failed
  spawn or a shutdown; every warm ends.
* Tokens: no token expires on its way; a 401 costs only a dead token and heals.
* Job files: a VM gets its own attempt's config; pruning costs an attempt its
  blob at most once per fault; the console outlives its VM; left-overs go.
* Listing: a job in the spool is shown, a running one is not shown as queued, a
  claimed VM is not shown as an orphan.

## 2. Modules

| Module | Models | Used by |
|---|---|---|
| `ClaimStore` | abstract: an id is free, owned or archived | refined by `Spool`, assumed by `Lifecycle` |
| `SpoolMoves` | abstract: which files are in which directory since when, and the single renames | refined by `Spool`, read by `Listing` |
| `Spool` | `spool.rs` protocol and archive pruning, one system call per step | `MCSpool`, `SpoolProofs` |
| `ClaimBudget` | `cur_claim_max_age_secs`, `expire_stale_cur` against the timeouts of a job task | `MCClaimBudget`, `ClaimProofs` |
| `Lifecycle` | claims, VMs and registrations under job tasks, reconciler, collector, startup reap, GitHub, Lima, crashes | `MCLifecycle`, `LifecycleProofs` |
| `Intake` | pause gate, semaphore, dispatch loop, reconciler's mint pass, signals, drain, supervision | `MCIntake`, `IntakeProofs` |
| `Delivery` | watcher, its channel, `prepare` and the entry policy, `supervise`, the listing of queued jobs | `MCDelivery`, `ClaimProofs` |
| `DispatchWatchdog` | `watch_dispatch`, `dispatch_verdict`, `confirm_abort`, `observe_runner` | `MCDispatchWatchdog`, `DispatchWatchdogProofs` |
| `Warmer` | `warm.rs`: permits, coalescer, scratch directories, steps and their process groups | `MCWarmer`, `WarmerProofs` |
| `TokenCache` | `installation.rs` and `send_authed` | `MCTokenCache`, `TokenCacheProofs` |
| `HostFiles` | the JIT blob and the serial log of a job against the collector's two age passes | `MCHostFiles`, `HostFilesProofs` |
| `Listing` | `ControlState::jobs` and `poll_vm_snapshots` over the moves of `SpoolMoves` | `MCListing`, `IntakeProofs` |

The `MC*` modules only give TLC a root (and a symmetry set, or the larger
constants); constants are in the `.cfg` files. A definition whose comment says "Mutant of X" is a plausible
bug in X: with X replaced by it, TLC must find the named property violated. It
is part of no specification.

The modules meet at three interfaces. `Spool` is shown to implement `ClaimStore`
(what its users may rely on), and `Lifecycle` uses claims with exactly those
atomic steps. `Spool` is also shown to implement `SpoolMoves` (what a reader of
the directories sees), and `Listing` composes those moves with the reader. `Spool`'s
`GcFinalizeBegin` lets the collector file only claims no task holds; that the
collector indeed takes no other is what `ClaimBudget` (age) and `Lifecycle`
(stale image, startup) check.

### Spool

`new`, `cur`, `done`, `error` are the directories; `bak` is the marker that the
`archive()` in progress has moved aside; `lock` is `ARCHIVE_MUTATION_LOCK`. A
file carries its mtime and two ghosts: the generation of the claim it began as
and the time it became a marker. `disp` is the dispatch loop inside `try_claim`
(two `stat`s, the exclusive rename, two `stat`s again, then revert or spawn),
`rec` the reconciler inside `write_synthetic_claim`, `wk` the tasks that
finalize, `prune` the collector inside `prune_archive_dir`. Every rename, stat
and unlink is an action, with its failure; `Crash` kills all tasks between any
two of them. `Deliver` is the external webhook receiver, which may reuse a name.

Left out: a failing `utimes` (it is logged and ignored; its only effect is an
old mtime, the same as a crash before the stamp) and the `.bak` files once the
rename over them has succeeded, which nothing reads.

### ClaimBudget

One claim and the task that holds it as the sequence of its external calls;
`left` is what remains of the current call's timeout and a call may end at any
moment before it runs out. GitHub calls are up to six requests (installation,
token, send, and again after a 401). `Tick` moves both clocks, `Sleep` only the
wall clock; `SleepsInFlight` says whether the host may sleep while a job runs. The sum is in saturating arithmetic up to `U64Max`.

### Lifecycle

Per job id: GitHub's job state, the registration and the VM of that name, the
claim's generation and whether an archive marker exists. A job task is a program
counter through mint, start, shell, stop, delete, deregister, file. A stop may
leave the VM up, and a delete may report an error with the VM still there or
gone. The collector keeps what it read (`live`, `orphans`, `stale`, `listed`) while
everything else moves. `Steal` lets one of our runners be given another job,
`Fault` lets any call fail before or after its effect, `Crash` restarts the
process, with another image if `Rebuilds`. A generation is used again only when
nothing mentions it any more, which keeps the state finite and cannot be told
from a new one.

### Intake

Jobs are interchangeable; claims, permits and the queue of the semaphore are
counted. tokio's semaphore is modelled as it serves: a released permit goes to
the first waiter, `acquire_many` collects what is free and waits for the rest,
`try_acquire` fails while nothing is free. The pause flag can flip between any
two steps. Once the drain has resolved the runtime is taken to stop at once.

### Delivery

What a spooled file says is the set of checks it would fail and the labels it
asks for, fixed per id, because GitHub redelivers the same body; its name is the
canonical one, an alias of the same id, or no number. `watch` is the watcher with
what its scan has still to send, `event` a pending file system event (which may
be dropped, and is not even raised before the first scan is over), `chan` the
bounded channel, `disp` the dispatch loop between `rx.recv` and the outcome of
`prepare`. Renames and archivals are atomic, as `Spool` shows they may be taken,
but `try_claim`'s two looks at the archives are steps of their own (`DispLook`,
then `DispRename` with `SecondLook`), and each may be blind: `is_archived` takes a
failing `stat` for a missing marker (`Unseen`). The pause gate is in `Intake`.
`Fault` lets a scan, a `file_type`, a rename, an unlink, a `stat`, a read or an
archival fail. The collector and the reconciler, which only matter here when they
die, are one task. `Listed` is the predicate by which `list_active` shows an
entry as queued.

### DispatchWatchdog

Discrete time; GitHub's truth, what its API shows (up to `Lag` later), and a
poll answered up to `Latency` after it was sent. The ticker skips missed ticks
and stays on its grid.

### Warmer

`w[t]` are the locals of a warm task: its phase, its tip, the mark it has read
from the clock, its directory, the target it is at, the process groups it has
spawned and which of their guards are armed. `seen` is the coalescer, `attempt`
`NEXT_ATTEMPT`, `dirs` who wrote each scratch directory. A group is its leader,
the child that is waited for, and whether other processes of it may run (`kin`):
`ChildEnds` ends the leader only. What GitHub answers, how a child ends, whether
a `wait()` fails (`WaitFails`) and whether `remove_dir_all` does (`RemoveDir`)
are free. `marked` is read before the coalescer's lock, as in `run_candidate`,
and `retain` evicts by that reading. `Finish` is the return of a step, with the
drop of its guards and children; `escaped` records what was known of the leader
of a group that was let go of alive, `misfire` a kill of a reaped pid. `Shutdown`
drops every task, `Crash` none; both start the attempt counter again over old
directories.

Left out: the arguments, environment and `nix.conf` of the children, which are
data.

### TokenCache

Callers share `cache`, with the time it still believes in its token; `life` is
how long GitHub still accepts a token. A caller waits for the `OnceCell`, reads
the cache, mints outside the lock, stores, sends, and after a first 401
invalidates and starts again. GitHub may revoke all tokens, calls may fail, and
the host may sleep in a call. Token identities are used again when nothing
mentions them.

### HostFiles

One job, whose attempts share both file names; the attempt, system call by
system call, the collector's two passes with their `stat`, second `stat` and
`unlink`, and crashes. `torn` and `lost` record what the passes cost.

### Listing

`req` is one request: which directory it walks, the names it read ahead, what it
has found so far. The ghosts say of each job whether it was in the spool, or
idle, or without a claim since the request (or the VM snapshot) began.

## 3. Runs

| Run | Specification and bounds | Shows |
|---|---|---|
| `spool` | 1 id, 2 finalizing tasks, 3 claims, 2 deliveries, 1 crash, 2 clock values, retention 0; 858 008 states | `ReplayGuard`, `ReplayNeverRuns`, `ClaimsOwned`, `PruneOnlyExpired`; `ClaimsSpec` and `MovesSpec`: the protocol implements `ClaimStore` and `SpoolMoves` |
| `budget` | `FairSpec`, timeouts of 1 or 2, completion check on, 2 claims; 233 866 states | `InFlightNeverReaped` on a host that sleeps only between jobs, `OrphanReleased` |
| `lifecycle` | 1 job, 2 permits, 5 generations, 1 crash, 2 failed calls, 1 stolen runner; 567 307 states, deadlock checked | `LiveClaimed`, `LiveVmSpared`, `LiveRunnerSpared` |
| `lifecycle_live` | `FairSpec`, 1 permit, 1 crash with a possible new image, 1 failed call, 1 stolen runner; 250 838 states, deadlock checked | `QueuedServed`, `IdleVmReaped` |
| `intake` | `FairSpec`, 2 permits, 2 names in the channel; 100 674 states | `PermitsConserved`, `DrainedMeansIdle`, `SafeToStop`, `PauseBounded`, `DrainCompletes`, `PauseDrains` |
| `delivery` | `DeliveryFairSpec`, 1 id under 3 names, 11 kinds of entry, channel of 1, 2 permits, 2 deliveries, 1 failing call or death; 324 286 states | `RunsOnce`, `FateExplained`, `NewDrains`, `ListedRuns` |
| `watchdog` | deadline 6, interval 3, latency 4, lag 2, 2 failed polls; 432 011 states | `OnTimeSpared`, `WedgedReaped` |
| `warmer` | `FairSpec`, 1 tip, 2 tasks, 2 permits, TTL 2, 4 clock values, 2 targets, 2 attempts per process, 1 restart; 253 454 states | `SingleFlight`, `FreshMarkBacked`, `WorkdirsOwned`, `GroupsContained`, `WarmEnds` |
| `tokens` | `FairSpec`, 2 callers, 3 tokens, TTL 3, margin 1, life 4, latency 1, 2 faults; 1 150 368 states, deadlock checked | `InFlightAlive`, `DropsOnlyDead`, `Heals` |
| `hostfiles` | `FairSpec`, limits of 2, 3 attempts, 2 crashes, 2 failing calls; 293 805 states, deadlock checked | `OwnBlob`, `LostBounded`, `CaptureBeforeDelete`, `OrphanPruned` |
| `listing` | 1 id, 3 clock values, retention 1, window 0, caps of 1 and 2, 2 other files; 2 395 174 states | `JobSeen`, `QueuedWaits`, `OrphanUnclaimed` |

`watchdog_short_job` expects a violation: it states what a comment of the source
says and shows how the code departs from it (section 5). Some `.cfg` files
belong to no run: those that section 5 names show the departures listed there,
and `MCLifecycleTypes.cfg`, `MCDeliveryOne.cfg` and `MCListingTypes.cfg` check
the type invariants of three modules on instances of their own
(`MCDeliveryOne.cfg`, with one permit, its other properties as well).

### Why the bounds are enough

* `spool`: ids never interact (no file, no decision of one id reads another's;
  only the lock is shared, and it is held by one task whichever id it works on),
  so one id is the interesting case. Two finalizers give lock contention and a
  task against the collector. Three claims are a first run, a re-mint and a
  replayed delivery of the same id. With retention 0 a marker of the first clock
  value is expired at the second.
* `budget`: all calls may use their full timeout and every branch of the task is
  taken; `MaxWall` exceeds the limit (27) by enough to expire a claim of either
  kind. `LastClaim` keeps room for that. Larger values, and sums that saturate,
  are covered by the proof.
* `lifecycle`: names are per job, so what threatens a job is a second attempt at
  the same job: one id, two permits. Five generations are never used up. Two
  faults are what `MCLifecycleClaimRace.cfg` needs, so one fault fewer in
  `lifecycle_live` is the largest for which `LiveClaimed` holds with a new image.
* `intake`: two permits are the least at which one job can run while another
  waits and the drain holds part of the permits.
* `delivery`: three names compete for one slot in the channel, so the scan blocks
  in `send` and a name is received after its file has gone. Two permits let a job
  end between the two looks of a replay's claim; one failing `stat` then starts
  the job again, the case that `RunsOnce` accounts for. With one permit
  (`MCDeliveryOne.cfg`) the loop blocks on it. A file there at the start and two deliveries are an
  original, a duplicate while it runs and a replay after it has ended. Every group
  of checks has an entry that fails it, and two entries fail checks of two groups.
* `watchdog`: the latency exceeds the interval, so ticks are missed and answers
  come late; the deadline is a multiple of the interval, the tightest case.
* `warmer`: two tasks of one tip give every race about a mark, a directory and
  an attempt number; four clock values let a mark expire under its warm and a
  second one be set. A restart meets the directories of the dead process. Tips
  interact only by eviction, which `WarmerSingleFlight` covers for any number of
  them; a second tip alone takes TLC past 800 000 states.
* `tokens`: two callers mint at once and are refused at once; a third token is
  there to be issued while both others are held. A latency equal to the margin
  is the tightest case the assumption allows.
* `hostfiles`: three attempts are one that leaves its files, one that meets them
  and one after that; two faults or crashes can leave two left-overs. Age limits
  equal to the length of an attempt are the tightest case.
* `listing`: jobs have no effect on each other except through the caps, which
  other files in the directories use up as well. A job with a marker in both
  archives exceeds the cap of one row.

Deadlock is checked in `lifecycle`, `lifecycle_live`, `tokens` and `hostfiles`.
The other models stop by their bounds on claims, deliveries and time or, in
`intake`, by the exit of the process.

### Fairness and timing

* `ClaimBudget`: time passes and the interval loop sweeps again. No call has to
  end early.
* `Lifecycle`: job tasks, reconciler, collector and startup run on; GitHub
  assigns queued jobs to idle runners and notices dead ones; jobs end (they are
  bounded by `job_max_runtime_secs`). Every sweep begins with
  `expire_stale_cur`, so a claim that is old again and again is expired (strong
  fairness of `GcExpire`), and a sweep waits for nothing for ever (strong fairness
  of the sweep, whose second read of `cur/` `QuickConflict` may hold up). An agent
  comes online and gets its job although the collector may take a VM that is new
  to its VM pass: the VM pass does not win that race time and again (strong
  fairness of `RunnerOnline` and `Assign`). Jobs, failures and crashes need not
  happen. Two timing assumptions are constants, because the code relies on them
  without enforcing them: `PromptAssign` (GitHub assigns a queued job to an idle
  runner before the watchdog's deadline) and `QuickConflict` (the second a mint
  needs to fail on a taken name does not coincide with the collector's second
  read, sweep after sweep). `lifecycle` and the theorems need neither.
* `Delivery`: watcher, dispatch loop, job tasks and `supervise` are polled, the
  rescan interval ticks, and a pause is lifted in the end. Deliveries, failures and
  deaths need not happen.
* `Intake`: what the runtime drives is polled; a job task ends. Operators,
  signals and deaths of supervised tasks need not happen.
* `Warmer`: a warm task is polled, which includes its timeouts. No child need
  ever exit, no wait fail, no event arrive and no clock tick.
* `TokenCache`: the daemon's loops keep sending requests and every call ends or
  times out. Time, revocations and failures need not happen.
* `HostFiles`: an attempt under way goes on, sweeps are repeated, time passes.
  Attempts need not begin.

## 4. Proofs

All theorems hold for every value of the constants allowed by the modules'
`ASSUME`s, which ask only for naturals, Booleans and, where needed, non-zero or
ordered values. Theorems that need more say so in their own `ASSUME`: the three
about `Lifecycle` (below) and `NeverReapedAwake`. Every invariant and every
action property of the runs is proved.

* **`SpoolProofs`** - `SpoolTypeCorrect`, `SpoolClaimsOwned` (from
  `SpoolSingleOwner` and `SpoolOwnerBacked`), `SpoolReplayNeverRuns`,
  `SpoolReplayGuard`, for any number of ids, tasks, claims and crashes. `SingleOwner` and `OwnerBacked` are not
  inductive: a revert or a filing by another task must be known to remove
  another generation. `SpoolInv` adds that generations are below `nextGen`
  (`GenBound`) and that the dispatch loop's unconfirmed claim is the file in
  `cur/` and nobody else's (`TentativeBacked`). `ReplayNeverRuns` needs the
  second round of `stat`s: `ReplayInv` adds that after the `done/` check has
  passed no `done/` marker can appear, since only the owner of `cur/` could
  install one (`PostCheck`), and, for `ReplayGuard`, that a reverted claim leaves
  a marker behind (`RevertGuard`).

  `SpoolPruneOnlyExpired`, `SpoolImplementsClaimStore` and `SpoolImplementsMoves`
  rest on a second invariant, `ArchiveInv`, about the archive: whoever is inside
  `archive()` or between the pruner's second `stat` and its `unlink` has the lock
  (`Locked`); file times are not from the future (`Dated`); a marker's mtime is
  the time it was filed unless its finalizer still holds the lock or a crash
  came in between (`Stamped`); a finalizer that has moved a marker aside finds
  its place empty until its rename (`Vacant`); the marker which the pruner is
  about to unlink is the one it judged, and expired (`Judged`); and a claim is
  being taken back because of a marker that is there or has expired since
  (`Reverting`). Both refinements are step simulations: each system call is shown
  to be one abstract step or a stutter under the mapping that does not count an
  unconfirmed claim (`ClaimsSpec`), or that forgets generations and stamps
  (`MovesSpec`). `Reverting` is why `SpoolMoves` lets a claim be taken back
  without a marker once the retention has passed.
* **`LifecycleProofs`** - `TypeCorrect`; `ClaimsStayWithTheirTasks`
  (`LiveClaimed`), `RunnersStayWithTheirTasks` (`LiveRunnerSpared`) and
  `VmsStayWithTheirTasks` (`LiveVmSpared`), for any number of jobs, permits,
  generations, crashes, failed calls and stolen runners. They assume only that the
  image is not rebuilt (`Rebuilds = FALSE`), without which `LiveClaimed` fails
  (`MCLifecycleClaimRace.cfg`, section 5). The invariant says that with one image
  nothing is ever stale (`OneImage`), which leaves the age limit (`ClaimBudget`)
  and the startup as the only ways to lose a claim; that the registrations the
  collector is about to delete were unbacked at its second read of `cur/`
  (`RunnerPass`); and that whatever its VM pass plans to delete had no claim when
  the pass read `cur/`, which it did (`VmPass`). `LiveVmSpared` is an action
  property: of the steps that stop or delete a VM, a task's own name their own
  job, and those of a VM pass come under its exception, because of `VmPass`.
* **`ClaimProofs`** - for `ClaimBudget`: `BudgetTypeCorrect` and
  `NeverReapedAwake`: on a host that does not sleep while a job runs,
  `InFlightNeverReaped` for all timeouts. The inductive invariant says that the
  claim's age plus what is left of the current call plus the timeouts of all
  calls still ahead is at most the sum of the limit, and that the collector has
  condemned a claim only if no task holds it. `LimitCoversBudget` carries this
  over to the saturating sum, using that the wall clock fits into a `u64`.

  For `Delivery`: `DeliveryTypeCorrect` (no more jobs run than permits, because the
  permit acquired before the claim is still free at the start, `Permitted`),
  `DeliveryRunsOnce`, `DeliveryFateExplained`, for every set of ids, entries and
  labels, every capacity and any number of failing calls. `Paid` is an amortized
  count: a start leaves a claim or a marker behind, so the loop comes to
  `classify` with a job that was started only after its second look has missed a
  marker, which has cost a failed `stat`; at that moment the starts so far are no
  more than the faults. `Passed` ties what is started to the verdict, `InHand` says
  that the name under judgement is in `cur/` and no task's; `Verdicts` compares
  the order of the checks with what the repository's README accepts.
* **`IntakeProofs`** - for `Intake`: `IntakeTypeCorrect`, `IntakePermitsConserved`,
  `IntakeDrainedMeansIdle`, `IntakeSafeToStop`, `IntakePauseBounded` for every
  `max_concurrency`. The invariant adds the shape of the semaphore's queue
  (`QueueInv`: while somebody waits nothing is free and only a waiting drain has
  permits set aside), what a pause implies for each loop's position
  (`PauseInv`), and what an exit implies (`ExitInv`).

  For `Listing`: `ListingTypeCorrect`, `ListingJobSeen`, `ListingQueuedWaits`,
  `ListingOrphanUnclaimed`, for any number of jobs and every window, retention
  and cap. `Ahead` says where the rest of the walk meets a job without a row: in
  what is left of `new/` while it is idle; from `cur/` on it is never idle again,
  and a claim that the walk through `cur/` does not meet was written since the
  request began, next to a marker in the window; in the end the marker is in
  `error/`. `WaitInv` follows the three `stat`s of `already_claimed_or_archived`,
  `VmInv` the claims of the snapshot's VMs.
* **`DispatchWatchdogProofs`** - `WatchdogOnTimeSpared` for every deadline,
  interval, latency and lag. The invariant says that what the API shows is at
  most `Lag` old (`ApiFresh`), that nothing is pending before the deadline has
  passed (`PendingLate`), and therefore that a confirming answer which does not
  show the job is about a job that came late (`ConfirmingLate`). This is why the
  second poll is needed: the first verdict may pair an early observation with a
  late arrival. `WatchdogTypeCorrect` says among others that the ticker stays on
  its grid (`GridStep`). `WatchdogWedgedReaped` counts polls: `Paced` says that one
  is sent at most a cycle after the last, `Counted` that the last one was sent no
  later than the deadline plus a cycle for each failure, one if a verdict is
  pending and one if the poll is still to be judged.
* **`TokenCacheProofs`** - `TokenTypeCorrect`, `TokenInFlightAlive`,
  `TokenDropsOnlyDead`, for any number of callers and tokens, every TTL, margin,
  life and latency with latency <= margin < TTL and TTL + latency <= life.
  `Covered` carries the argument for the margin: the cache never believes in a
  token for longer than it lives, a mint under way has lost no more of the
  token's life than of its own time, and a request under way has more life
  ahead than time. `RefusedDead` says that a refused token is dead and stays so,
  since an identity that somebody holds is not issued again.
* **`HostFilesProofs`** - `FilesTypeCorrect`, `FilesOwnBlob`, `FilesLostBounded`,
  `FilesCaptureBeforeDelete`, for any number of attempts, crashes and failing
  calls, given that an attempt is no longer than both age limits (what
  `ClaimBudget` shows of the first). `Accounted` is an amortized count: losses so
  far, plus one if the attempt has just lost its blob, plus one if a left-over
  or a verdict on one exists, are at most the crashes and failed calls.
  `OwnYoung` (an attempt's own file is no older than the attempt) is why the
  collector never starts on a file in use; `OwnLogAnew` and `Captured` follow the
  log through the race that remains.
* **`WarmerProofs`** - `WarmerTypeCorrect`, `WarmerWorkdirsOwned`,
  `WarmerGroupsContained`, `WarmerSingleFlight`, for any number of tasks, tips,
  targets, attempts and restarts. Groups: a guard is armed exactly from the
  spawn of its child until the wait for it returns, and a killed group is empty
  (`Guarded`). Directories: a running warm's number is below
  the counter (`Located`), so the next one is new even over an old process's
  directories. Single flight: a warm in flight is marked, or its mark is outlived
  and nobody holds an older reading of the clock (`Marked`, `Outlived`); the last
  part is where two permits are needed. `WarmerFreshMarkBacked` needs no bound on
  them: a mark that is fresh now was fresh at every earlier reading of the clock,
  so no `retain` has evicted it, the warm it belongs to still finds it, and no
  other warm of the tip with a fresh mark is there to `clear` it (`MarkInv`).

Only model-checked: everything under fairness (`OrphanReleased`, `QueuedServed`,
`IdleVmReaped`, `DrainCompletes`, `PauseDrains`, `NewDrains`, `ListedRuns`,
`WarmEnds`, `Heals`, `OrphanPruned`), because liveness and `ENABLED` are out of
the prover's reach. The invariants of `Lifecycle` are proved for one image
only; with a new one, `LiveClaimed` depends on how many calls fail (section 5).
Facts that need induction over data or a RECURSIVE operator cannot be proved
either; no module has such an operator.

## 5. Findings

`watchdog_short_job`: "genuine recovery is the runner going `busy`, which parks
the watchdog" (`runner.rs:347`): a job that starts and ends between two polls is
never seen as busy, so its runner is reaped as if it had been wedged.

Departures that the properties which hold are stated around. The first five have
a `.cfg` of their own, with which TLC shows the behaviour:

* "so an in-flight job is never reaped" (`gc.rs:949`): file ages include the
  host's sleep, timeouts do not (`MCClaimBudgetSleep.cfg`);
* "no freshly-minted VM is ever seen here as an orphan" (`gc.rs:581`): the window
  is bounded by a `limactl list` and the deletes, not by milliseconds
  (`MCLifecycleVmRace.cfg`, `FreshVmSpared`); a VM whose job was claimed in it may
  be stopped under its task. `LiveVmSpared` says that no other VM is, and
  `QueuedServed` that a job which stays in the queue is served all the same;
* "Reading cur/ first prevents that" (`gc.rs:576`): a claim written just before
  the read adopts the job's left-over old-image VM and is filed under its running
  task; it takes two failed calls across a restart with a new image
  (`MCLifecycleClaimRace.cfg`);
* "Two inserts for the same key are always >ttl apart" (`warm.rs:136`): with three
  permits, a warm of another tip evicts the mark by a later reading of the clock
  than the one with which a third task then marks the tip again
  (`MCWarmerThree.cfg`, `MarksApart`). The two marks are closer than the TTL by
  no more than the time between that task's reading and its lock. With at most
  two permits, or the default of one, they are a TTL apart (at least, not more
  than), which is `SingleFlight`;
* "descendants must not outlive the wrapper" (`warm.rs:517`): this holds for a
  timeout, but a step whose leader exits by itself disarms the guard without a
  kill, and its descendants run on; and a failed `wait()` disarms it with the
  child possibly alive, in the closure check too, where the comment says "On
  timeout or a wait error the still-armed guards SIGKILL their groups"
  (`warm.rs:647`) (`MCWarmerDescendants.cfg`, `NoneEscapes`). `GroupsContained`
  says that these are the only ways;
* "Ordering guarantees the canonical archive marker is never absent"
  (`spool.rs:389`): between the two renames over an existing marker there is
  none. `ReplayGuard` says what matters and holds, because `cur/<id>.job` is there;
* a mismatch of filename or file type moves the file to `error/` (`README.md:72`):
  a name that is no number and anything but a regular file are skipped and stay
  in `new/` (`NewDrains` excepts them), and an entry that fails a cross-check goes
  to `done/` if its event is not ours, because the event is looked at first
  (`FateExplained`);
* a pause that lands after the reconciler's last check lets one claim through
  ("can't spawn work", `supervisor.rs:177`); `PauseBounded` says one and no more;
* while the drain collects permits, `/status` reports them as in flight
  (`control.rs:254`); `PauseDrains` and `SafeToStop` are stated accordingly;
* a crash between a marker's rename and its stamp leaves the claim's mtime, so
  that marker can be pruned early (`PruneOnlyExpired` exempts exactly it), and the
  listing may miss a job that ran for longer than its window;
* "A second 401 is a real error" (`jit.rs:180`): a mint answered late may store a
  token that was revoked in between, and two requests in a row are refused;
  `Heals` says that it does not last;
* the log of a guest OOM is kept "at most once *ever*" per job (`gc.rs:1151`): a
  second attempt writes the same name again (`runner.rs:176`);
  `CaptureBeforeDelete` exempts the unlink on the verdict on the earlier one;
* the coalescer's key is said to be needed because "coalescing happens *before*
  the default-branch check" (`warm.rs:78`), but the mark is set after it; and its
  map does not stay empty with a zero TTL (`warm.rs:115`), it keeps the last mark;
* "Nothing prunes done/error today" (`control.rs:128`): `prune_old_archives` does;
* a list is flagged as cut also when it has exactly as many entries as its cap,
  and an unreadable `cur/` or a cut in-flight list shows every VM as an orphan
  without a flag of its own (`JobSeen` and `OrphanUnclaimed` are about answers
  that are not cut and calls that succeed);
* "so the token-bearing netrc never outlives the warm" (`warm.rs:658`): a crash
  or a failed `remove_dir_all`, whose error is ignored, leaves the directory until
  the same slug comes round again (`WorkdirsOwned`); a crash also leaves the
  children alive, which `GroupsContained` does not count.

## 6. Running it

    tlc -config MCSpool.cfg MCSpool            # and so on, see PROJECT.json
    tlapm SpoolProofs.tla

## 7. Not modelled, and the plan

Not modelled: the text of Lima's and GitHub's answers and the scanning of Lima's
YAML for the image's identity (text processing; `Lifecycle` compares two images),
pagination, the default-branch cache, the web UI, app JWTs and serde types (no
state), host setup and templates (outside the daemon), configuration checks
(straight-line code). In `Spool` the `stat`s of `is_archived` do not fail, so
`ReplayNeverRuns` is about healthy archives; `Delivery` lets them fail. The rename
that puts a marker back after a failed install (`spool.rs:423`) does not fail
either. `Delivery` does not prune archives, so `RunsOnce` holds within the
retention (`config.rs:127`). In `ClaimBudget` a call does not wait behind other
callers' failing lookups of the installation (`installation.rs:109`), which only a
cold start with a failing API meets. `TokenCache` assumes a request's latency of
at most the refresh margin; the default timeout of 60 s is, but
`GH_API_TIMEOUT_SECS` has no upper bound.

Next, in this order:

1. `LiveClaimed` with a new image: the bound on failed calls as an amortized
   count, like `Accounted` of `HostFilesProofs`.
2. The default-branch cache with `Warmer`.
