------------------------------- MODULE HostFiles -------------------------------
(***************************************************************************)
(* The two files a job leaves beside the spool, and the collector that     *)
(* prunes them: the single-use JIT blob instances/<vm>.jit (runner.rs,     *)
(* write_jit_blob to teardown; gc.rs, prune_stale_jit_blobs) and the       *)
(* serial console kept after a guest OOM, logs/<vm>.serial.log (runner.rs, *)
(* capture_oom_evidence; gc.rs, prune_serial_logs).                        *)
(*                                                                         *)
(* Names are derived from the job id, so the attempts at one job, of which *)
(* the spool lets one run at a time, share both names.  One job, its       *)
(* attempts, the collector and crashes, system call by system call.  Time  *)
(* is relative: a file has an age, counted up to its limit.                *)
(***************************************************************************)
EXTENDS Integers

CONSTANTS
    JobMax,       \* timing: from the blob's creation to the end of teardown
    MaxAge,       \* the limit of prune_stale_jit_blobs, cur_claim_max_age_secs
    Retention,    \* serial_log_retention_secs; 0 keeps for ever
    MaxAttempts,  \* bound: attempts at the job
    MaxCrash,     \* bound: crashes
    MaxFaults     \* bound: calls that fail

ASSUME HostFilesAssumption ==
    /\ {JobMax, MaxAge, Retention, MaxAttempts, MaxCrash, MaxFaults} \subseteq Nat
    /\ JobMax <= MaxAge
    /\ Retention = 0 \/ JobMax <= Retention

VARIABLES
    pc,       \* where the attempt is, see Phases
    gen,      \* attempts so far; the number of the one under way
    elapsed,  \* time since the attempt began to write its blob
    blob,     \* the two files, see Files
    log,
    vm,       \* "none"; "up"; "oom" once the guest's kernel has killed for memory
    inner,    \* run_in_vm returned Ok
    pruner,   \* where the collector is, see PrunerPhases
    anew,     \* ghost: the log about to be unlinked was created since the look
    lost,     \* ghost: attempts that did not find their blob
    torn,     \* ghost: a log newer than the collector's look was unlinked
    crashes,
    faults

vars == <<pc, gen, elapsed, blob, log, vm, inner, pruner, anew, lost, torn,
          crashes, faults>>
attempt == <<pc, gen, elapsed, vm, inner>>
bounds == <<lost, torn, crashes, faults>>
-----------------------------------------------------------------------------
Phases ==
    {"idle", "unlink", "create", "fill", "boot", "copy", "run",
     "tail", "logUnlink", "logCreate", "logFill", "delete", "remove"}
PrunerPhases == {"logs", "log", "blobs", "recheck", "blob"}

\* A file is absent (by = 0) or was created by an attempt; complete once its
\* contents are on disk.
Files(limit) == [by: 0..MaxAttempts, age: 0..limit + 1, full: BOOLEAN]
NoFile == [by |-> 0, age |-> 0, full |-> FALSE]
New == [by |-> gen, age |-> 0, full |-> FALSE]
There(f) == f.by # 0
Filled(f) == IF There(f) THEN [by |-> f.by, age |-> 0, full |-> TRUE] ELSE f

TypeOK ==
    /\ pc \in Phases
    /\ gen \in 0..MaxAttempts
    /\ elapsed \in 0..JobMax
    /\ blob \in Files(MaxAge) /\ log \in Files(Retention)
    /\ vm \in {"none", "up", "oom"}
    /\ inner \in BOOLEAN
    /\ pruner \in PrunerPhases
    /\ anew \in BOOLEAN /\ torn \in BOOLEAN
    /\ lost \in 0..MaxAttempts
    /\ crashes \in 0..MaxCrash /\ faults \in 0..MaxFaults

Init ==
    /\ pc = "idle" /\ gen = 0 /\ elapsed = 0
    /\ blob = NoFile /\ log = NoFile
    /\ vm = "none" /\ inner = FALSE
    /\ pruner = "logs"
    /\ anew = FALSE /\ torn = FALSE
    /\ lost = 0 /\ crashes = 0 /\ faults = 0

\* A call of the attempt fails.
Fails == faults < MaxFaults /\ faults' = faults + 1
Succeeds == UNCHANGED faults
-----------------------------------------------------------------------------
(* The attempt: run_in_vm. *)

\* A claim is taken, or minted again, and the JIT config generated.
Start ==
    /\ pc = "idle"
    /\ gen < MaxAttempts
    /\ pc' = "unlink" /\ gen' = gen + 1
    /\ elapsed' = 0 /\ inner' = FALSE
    /\ UNCHANGED <<blob, log, vm, pruner, anew, bounds>>

\* Mutant of UnlinkStale: a blob that is there is taken for this attempt's.
UnlinkStaleNot ==
    /\ pc = "unlink"
    /\ pc' = (IF There(blob) THEN "boot" ELSE "create")
    /\ UNCHANGED <<gen, elapsed, blob, log, vm, inner, pruner, anew, bounds>>

\* write_jit_blob removes what an earlier attempt has left.
UnlinkStale ==
    /\ pc = "unlink"
    /\ \/ Succeeds /\ blob' = NoFile /\ pc' = "create"
       \/ Fails /\ UNCHANGED blob /\ pc' = "tail"
    /\ UNCHANGED <<gen, elapsed, log, vm, inner, pruner, anew, lost, torn, crashes>>

\* create_new; it also fails on a file that is there.
CreateBlob ==
    /\ pc = "create"
    /\ \/ Succeeds /\ ~There(blob) /\ blob' = New /\ pc' = "fill"
       \/ Fails /\ UNCHANGED blob /\ pc' = "tail"
    /\ UNCHANGED <<gen, elapsed, log, vm, inner, pruner, anew, lost, torn, crashes>>

\* write_all and sync_all, through the open file whether or not it has a name.
FillBlob ==
    /\ pc = "fill"
    /\ \/ /\ Succeeds
          /\ blob' = Filled(blob)
          /\ pc' = "boot"
       \/ Fails /\ UNCHANGED blob /\ pc' = "tail"
    /\ UNCHANGED <<gen, elapsed, log, vm, inner, pruner, anew, lost, torn, crashes>>

\* Lima::start, which meets a left-over VM of the same name, or fails and may
\* leave one.
Boot ==
    /\ pc = "boot"
    /\ \/ Succeeds /\ vm = "none" /\ vm' = "up" /\ pc' = "copy"
       \/ Succeeds /\ vm # "none" /\ UNCHANGED vm /\ pc' = "tail"
       \/ Fails /\ vm' \in {vm, IF vm = "none" THEN "up" ELSE vm} /\ pc' = "tail"
    /\ UNCHANGED <<gen, elapsed, blob, log, inner, pruner, anew, lost, torn, crashes>>

CopyBlob ==
    /\ pc = "copy"
    /\ \/ Succeeds /\ There(blob) /\ pc' = "run" /\ UNCHANGED lost
       \/ Succeeds /\ ~There(blob) /\ pc' = "tail" /\ lost' = lost + 1
       \/ Fails /\ pc' = "tail" /\ UNCHANGED lost
    /\ UNCHANGED <<gen, elapsed, blob, log, vm, inner, pruner, anew, torn, crashes>>

\* The guest runs out of memory and its kernel kills the build.
GuestOom ==
    /\ pc = "run"
    /\ vm = "up"
    /\ vm' = "oom"
    /\ UNCHANGED <<pc, gen, elapsed, blob, log, inner, pruner, anew, bounds>>

\* gha-run-once ends; the agent exits with 0 even when the build was killed.
RunEnds ==
    /\ pc = "run"
    /\ pc' = "tail"
    /\ inner' \in BOOLEAN
    /\ UNCHANGED <<gen, elapsed, blob, log, vm, pruner, anew, bounds>>
-----------------------------------------------------------------------------
(* The attempt: capture_oom_evidence and teardown. *)

\* Mutant of Worth: only a failed job is looked at.
WorthOnError == vm = "oom" /\ ~inner

\* detect_guest_oom on what serial_log_tail returns; no VM, no console.
Worth == vm = "oom"

ReadConsole ==
    /\ pc = "tail"
    /\ \/ Succeeds /\ pc' = (IF Worth THEN "logUnlink" ELSE "delete")
       \/ Fails /\ pc' = "delete"
    /\ UNCHANGED <<gen, elapsed, blob, log, vm, inner, pruner, anew, lost, torn, crashes>>

\* write_serial_evidence: the same three calls for the log.
WriteEvidence ==
    /\ \/ /\ pc = "logUnlink"
          /\ log' = NoFile /\ pc' = "logCreate" /\ UNCHANGED anew /\ Succeeds
       \/ /\ pc = "logCreate"
          /\ log' = New /\ pc' = "logFill" /\ Succeeds
          /\ anew' = (anew \/ pruner = "log")
       \/ /\ pc = "logFill"
          /\ log' = Filled(log)
          /\ pc' = "delete" /\ UNCHANGED anew /\ Succeeds
       \/ /\ pc \in {"logUnlink", "logCreate", "logFill"}
          /\ Fails
          /\ pc' = "delete" /\ UNCHANGED <<log, anew>>
    /\ UNCHANGED <<gen, elapsed, blob, vm, inner, pruner, lost, torn, crashes>>

\* stop and delete; their failures are logged.
DeleteVm ==
    /\ pc = "delete"
    /\ \/ Succeeds /\ vm' = "none"
       \/ Fails /\ UNCHANGED vm
    /\ pc' = "remove"
    /\ UNCHANGED <<gen, elapsed, blob, log, inner, pruner, anew, lost, torn, crashes>>

\* teardown unlinks the blob whatever became of the attempt.
RemoveBlob ==
    /\ pc = "remove"
    /\ \/ Succeeds /\ blob' = NoFile
       \/ Fails /\ UNCHANGED blob
    /\ pc' = "idle"
    /\ UNCHANGED <<gen, elapsed, log, vm, inner, pruner, anew, lost, torn, crashes>>
-----------------------------------------------------------------------------
(* The collector: prune_serial_logs, then prune_stale_jit_blobs. *)

\* Mutant of Expired: one tick early, as `age >= max_age` would be.
ExpiredAtLimit(f, limit) == There(f) /\ f.age >= limit

\* Mutant of Expired: an age that no file has.
ExpiredNever(f, limit) == There(f) /\ f.age > limit + 1

Expired(f, limit) == There(f) /\ f.age > limit

Prune(p) == pruner' = p /\ UNCHANGED <<attempt, bounds>>

PruneStatLog ==
    /\ pruner = "logs"
    /\ anew' = FALSE
    /\ Prune(IF Retention # 0 /\ Expired(log, Retention) THEN "log" ELSE "blobs")
    /\ UNCHANGED <<blob, log>>

PruneUnlinkLog ==
    /\ pruner = "log"
    /\ log' = NoFile
    /\ torn' = (torn \/ anew)
    /\ pruner' = "blobs"
    /\ UNCHANGED <<attempt, blob, anew, lost, crashes, faults>>

PruneStatBlob ==
    /\ pruner = "blobs"
    /\ Prune(IF Expired(blob, MaxAge) THEN "recheck" ELSE "logs")
    /\ UNCHANGED <<blob, log, anew>>

\* The second lstat, right before the unlink.
PruneRecheck ==
    /\ pruner = "recheck"
    /\ Prune(IF Expired(blob, MaxAge) THEN "blob" ELSE "logs")
    /\ UNCHANGED <<blob, log, anew>>

PruneUnlinkBlob ==
    /\ pruner = "blob"
    /\ blob' = NoFile
    /\ Prune("logs")
    /\ UNCHANGED <<log, anew>>

\* remove_file fails: it is logged, and the next sweep tries again.
PruneFails ==
    /\ pruner \in {"log", "blob"}
    /\ Fails
    /\ pruner' = IF pruner = "log" THEN "blobs" ELSE "logs"
    /\ UNCHANGED <<attempt, blob, log, anew, lost, torn, crashes>>
-----------------------------------------------------------------------------
Older(f, limit) ==
    IF There(f) /\ f.age <= limit THEN [f EXCEPT !.age = @ + 1] ELSE f

\* An attempt does not outlive JobMax, and writes a file in no time.
Tick ==
    /\ pc \notin {"create", "fill", "logCreate", "logFill"}
    /\ pc # "idle" => elapsed < JobMax
    /\ elapsed' = IF pc = "idle" THEN 0 ELSE elapsed + 1
    /\ blob' = Older(blob, MaxAge)
    /\ log' = Older(log, Retention)
    /\ UNCHANGED <<pc, gen, vm, inner, pruner, anew, bounds>>

\* A VM without a claim is deleted, by the collector or at startup.
VmReaped ==
    /\ pc = "idle"
    /\ vm # "none" /\ vm' = "none"
    /\ UNCHANGED <<pc, gen, elapsed, blob, log, inner, pruner, anew, bounds>>

\* The daemon dies and is started again.
Crash ==
    /\ crashes < MaxCrash
    /\ crashes' = crashes + 1
    /\ pc' = "idle" /\ elapsed' = 0
    /\ inner' = FALSE
    /\ pruner' = "logs" /\ anew' = FALSE
    /\ UNCHANGED <<gen, blob, log, vm, lost, torn, faults>>

AttemptStep ==
    \/ UnlinkStale \/ CreateBlob \/ FillBlob \/ Boot \/ CopyBlob \/ RunEnds
    \/ ReadConsole \/ WriteEvidence \/ DeleteVm \/ RemoveBlob

PrunerStep ==
    \/ PruneStatLog \/ PruneUnlinkLog
    \/ PruneStatBlob \/ PruneRecheck \/ PruneUnlinkBlob \/ PruneFails

Next ==
    \/ Start \/ AttemptStep \/ GuestOom \/ PrunerStep
    \/ VmReaped \/ Tick \/ Crash

Spec == Init /\ [][Next]_vars

\* Attempts and sweeps go on, and time passes; attempts need not begin.
FairSpec ==
    Spec /\ WF_vars(AttemptStep) /\ WF_vars(PrunerStep) /\ WF_vars(Tick)
-----------------------------------------------------------------------------
(* Properties. *)

\* What a VM is given is the config of its own attempt, complete: never the
\* spent one of an attempt that crashed.
OwnBlob ==
    pc \in {"boot", "copy"} /\ There(blob) => blob.by = gen /\ blob.full

\* Only a left-over can cost an attempt its blob, once: prune_stale_jit_blobs'
\* "the job simply fails setup once".  A left-over takes a crash or a failed
\* unlink in teardown.
LostBounded == lost <= crashes + faults

\* The console of a guest that was killed for memory is kept when its VM is
\* deleted, whether the job passed or not, unless a call failed, the VM is an
\* earlier process's, or the collector unlinked the log on its verdict on the
\* log of an earlier attempt.
CaptureBeforeDelete ==
    [][pc = "delete" /\ vm = "oom" /\ vm' = "none"
         /\ faults = 0 /\ crashes = 0 /\ ~torn
         => log.by = gen /\ log.full]_vars

\* A blob that nobody will use again is unlinked in the end.
OrphanPruned == pc = "idle" /\ There(blob) ~> pc # "idle" \/ ~There(blob)
=============================================================================
