-------------------------------- MODULE Spool --------------------------------
(***************************************************************************)
(* The maildir protocol of spool.rs: new/ -> cur/ -> done/ | error/, one   *)
(* file per workflow_job id, moved by system calls that interleave.        *)
(*                                                                         *)
(* Four kinds of task touch the directories.  The dispatch loop claims     *)
(* deliveries (try_claim), the reconciler writes synthetic claims          *)
(* (write_synthetic_claim), job tasks and the garbage collector file       *)
(* claims (finalize_done, finalize_error), and the garbage collector       *)
(* prunes old archive markers (prune_archive_dir).  Each stat, rename and  *)
(* unlink is a step of its own: every `.await` between two of them lets    *)
(* other tasks run, and the runtime is multi-threaded.                     *)
(*                                                                         *)
(* A file is [gen, mtime, fin]: gen identifies the claim it began as (so a *)
(* task can be told from another task holding the same path), mtime is the *)
(* file's modification time, fin the time it was installed as an archive   *)
(* marker.  The code has no gen and no fin; they only serve the            *)
(* properties.                                                             *)
(***************************************************************************)
EXTENDS Naturals

CONSTANTS
    Jobs,        \* workflow_job ids: the file names
    Workers,     \* tasks that finalize a claim (job tasks and the GC)
    Retention,   \* ARCHIVE_RETENTION_SECS, in clock ticks
    MaxGen,      \* bound: claims made in a behaviour
    MaxDeliver,  \* bound: webhook deliveries in a behaviour
    MaxTime,     \* bound: clock
    MaxCrash     \* bound: crashes

ASSUME SpoolAssumption ==
    /\ Retention \in Nat
    /\ MaxGen \in Nat
    /\ MaxDeliver \in Nat
    /\ MaxTime \in Nat
    /\ MaxCrash \in Nat

VARIABLES
    new,        \* names in new/
    cur,        \* [Jobs -> File], NoFile when cur/<id>.job is absent
    done,       \* [Jobs -> File]
    error,      \* [Jobs -> File]
    bak,        \* [Jobs -> File], what the archive() in progress moved aside
    lock,       \* ARCHIVE_MUTATION_LOCK: "free", or held by the GC's
                \* "prune" or by a "fin"alizer
    clock,
    disp,       \* the dispatch loop inside try_claim
    rec,        \* the reconciler inside write_synthetic_claim
    wk,         \* [Workers -> task]
    prune,      \* the GC inside prune_archive_dir
    nextGen, delivered, crashes,
    claimed     \* jobs that have been started and not forgotten since

vars == <<new, cur, done, error, bak, lock, clock, disp, rec, wk, prune,
          nextGen, delivered, crashes, claimed>>

files == <<new, cur, done, error, bak>>
tasks == <<disp, rec, wk, prune>>
ghosts == <<nextGen, delivered, crashes, claimed>>
-----------------------------------------------------------------------------
File == [gen : Nat, mtime : Nat, fin : Nat]
NoFile == [gen |-> 0, mtime |-> 0, fin |-> 0]
Exists(f) == f.gen # 0

\* A task that is not in an operation keeps nothing of the last one.
IdleDisp(d) == [pc |-> "idle", job |-> d.job, gen |-> 0]
IdleWorker(t) ==
    [pc |-> "idle", job |-> t.job, gen |-> 0, src |-> "gc", dest |-> "done"]
IdlePrune(p) == [pc |-> "idle", job |-> p.job, dir |-> "done", now |-> 0]

DispPC == {"idle", "preDone", "preError", "rename", "postDone", "postError",
           "revert", "unlinkNew"}
WorkerPC == {"idle", "run", "lock", "excl", "preserve", "move", "stamp",
             "unlock"}
PrunePC == {"idle", "scan", "lock", "restat", "unlink"}
Sources == {"webhook", "reconcile", "gc"}
Dirs == {"done", "error"}

Claimer == [pc : DispPC, job : Jobs, gen : Nat]
Minter == [pc : {"idle", "rename"}, job : Jobs]
Task == [pc : WorkerPC, job : Jobs, gen : Nat, src : Sources, dest : Dirs]
Pruner == [pc : PrunePC, job : Jobs, dir : Dirs, now : Nat]

TypeOK ==
    /\ new \in SUBSET Jobs
    /\ cur \in [Jobs -> File]
    /\ done \in [Jobs -> File]
    /\ error \in [Jobs -> File]
    /\ bak \in [Jobs -> File]
    /\ lock \in {"free", "prune", "fin"}
    /\ clock \in Nat
    /\ disp \in Claimer
    /\ rec \in Minter
    /\ wk \in [Workers -> Task]
    /\ prune \in Pruner
    /\ nextGen \in Nat \ {0}
    /\ delivered \in Nat
    /\ crashes \in Nat
    /\ claimed \in SUBSET Jobs

Init ==
    /\ new = {}
    /\ cur = [j \in Jobs |-> NoFile]
    /\ done = [j \in Jobs |-> NoFile]
    /\ error = [j \in Jobs |-> NoFile]
    /\ bak = [j \in Jobs |-> NoFile]
    /\ lock = "free"
    /\ clock = 0
    /\ disp \in [pc : {"idle"}, job : Jobs, gen : {0}]
    /\ rec \in [pc : {"idle"}, job : Jobs]
    /\ wk \in [Workers -> [pc : {"idle"}, job : Jobs, gen : {0},
                           src : {"gc"}, dest : {"done"}]]
    /\ prune \in [pc : {"idle"}, job : Jobs, dir : {"done"}, now : {0}]
    /\ nextGen = 1
    /\ delivered = 0
    /\ crashes = 0
    /\ claimed = {}

\* is_archived looks at done/ and then at error/.
Archived(j) == Exists(done[j]) \/ Exists(error[j])

\* A freshly stamped claim: both ways into cur/ stamp the file to now.
NewClaim == [gen |-> nextGen, mtime |-> clock, fin |-> 0]

\* The dispatch loop has made a claim it has not confirmed yet.
Tentative(j) ==
    disp.job = j /\ disp.pc \in {"postDone", "postError", "revert"}

\* The task still has its claim: it has not moved it out of cur/ yet.
Holding(w) == wk[w].pc \in {"run", "lock", "excl", "preserve", "move"}

\* The claim is handed to a job task (spawn_job) that will finalize it.
Spawn(w, j, g, s) ==
    /\ wk[w].pc = "idle"
    /\ wk' = [wk EXCEPT ![w] = [pc |-> "run", job |-> j, gen |-> g,
                                src |-> s, dest |-> "done"]]
    /\ claimed' = claimed \cup {j}
-----------------------------------------------------------------------------
(* The webhook spool, another program, moves a finished delivery into new/;
   a redelivery or a replay reuses the name. *)
Deliver(j) ==
    /\ delivered < MaxDeliver
    /\ new' = new \cup {j}
    /\ delivered' = delivered + 1
    /\ UNCHANGED <<cur, done, error, bak, lock, clock, tasks,
                   nextGen, crashes, claimed>>

Tick ==
    /\ clock < MaxTime
    /\ clock' = clock + 1
    /\ UNCHANGED <<files, lock, tasks, ghosts>>
-----------------------------------------------------------------------------
(* try_claim.  The dispatch loop is one task, so one claim is in progress.
   The name was seen in new/ by the watcher and may be gone by now. *)
ClaimBegin(j) ==
    /\ disp.pc = "idle"
    /\ delivered > 0
    /\ disp' = [disp EXCEPT !.pc = "preDone", !.job = j]
    /\ UNCHANGED <<files, lock, clock, rec, wk, prune, ghosts>>

\* A step of the dispatch loop that only looks.
DispGoto(from, to) ==
    /\ disp.pc = from
    /\ disp' = [disp EXCEPT !.pc = to]
    /\ UNCHANGED <<files, lock, clock, rec, wk, prune, ghosts>>

\* Fast path: is_archived before the rename.
ClaimPreDone ==
    DispGoto("preDone", IF Exists(done[disp.job]) THEN "unlinkNew" ELSE "preError")
ClaimPreError ==
    DispGoto("preError", IF Exists(error[disp.job]) THEN "unlinkNew" ELSE "rename")

\* Mutant of ClaimRename: plain rename(2), which overwrites cur/<id>.
ClaimRenameClobbers ==
    /\ disp.pc = "rename"
    /\ IF disp.job \notin new \/ nextGen > MaxGen
       THEN disp' = IdleDisp(disp) /\ UNCHANGED <<new, cur, nextGen>>
       ELSE /\ new' = new \ {disp.job}
            /\ cur' = [cur EXCEPT ![disp.job] = NewClaim]
            /\ nextGen' = nextGen + 1
            /\ disp' = [disp EXCEPT !.pc = "postDone", !.gen = nextGen]
    /\ UNCHANGED <<done, error, bak, lock, clock, rec, wk, prune,
                   delivered, crashes, claimed>>

\* stamp_mtime_now then rename_no_clobber(new/<id>, cur/<id>).
ClaimRename ==
    /\ disp.pc = "rename"
    /\ LET j == disp.job IN
       \/ /\ j \notin new
          /\ disp' = IdleDisp(disp)
          /\ UNCHANGED <<new, cur, nextGen>>
       \/ /\ j \in new
          /\ Exists(cur[j])
          /\ disp' = [disp EXCEPT !.pc = "unlinkNew"]
          /\ UNCHANGED <<new, cur, nextGen>>
       \/ /\ j \in new
          /\ ~Exists(cur[j])
          /\ nextGen <= MaxGen
          /\ new' = new \ {j}
          /\ cur' = [cur EXCEPT ![j] = NewClaim]
          /\ nextGen' = nextGen + 1
          /\ disp' = [disp EXCEPT !.pc = "postDone", !.gen = nextGen]
    /\ UNCHANGED <<done, error, bak, lock, clock, rec, wk, prune,
                   delivered, crashes, claimed>>

\* Mutant of ClaimPostDone: the fast path is trusted for done/.
ClaimPostDoneSkipped == DispGoto("postDone", "postError")

\* The authoritative is_archived, after the rename.
ClaimPostDone ==
    DispGoto("postDone", IF Exists(done[disp.job]) THEN "revert" ELSE "postError")

ClaimPostError ==
    /\ disp.pc = "postError"
    /\ IF Exists(error[disp.job])
       THEN /\ disp' = [disp EXCEPT !.pc = "revert"]
            /\ UNCHANGED <<wk, claimed>>
       ELSE /\ disp' = IdleDisp(disp)
            /\ \E w \in Workers : Spawn(w, disp.job, disp.gen, "webhook")
    /\ UNCHANGED <<files, lock, clock, rec, prune,
                   nextGen, delivered, crashes>>

\* A replay that slipped past the fast path: unlink the claim just made.
ClaimRevert ==
    /\ disp.pc = "revert"
    /\ cur' = [cur EXCEPT ![disp.job] = NoFile]
    /\ disp' = IdleDisp(disp)
    /\ UNCHANGED <<new, done, error, bak, lock, clock, rec, wk, prune, ghosts>>

\* Mutant of ClaimUnlinkNew: the wrong copy of a duplicate is unlinked.
ClaimUnlinkCur ==
    /\ disp.pc = "unlinkNew"
    /\ cur' = [cur EXCEPT ![disp.job] = NoFile]
    /\ disp' = IdleDisp(disp)
    /\ UNCHANGED <<new, done, error, bak, lock, clock, rec, wk, prune, ghosts>>

\* A replay or a duplicate: unlink the new/ copy so it is not rescanned.
ClaimUnlinkNew ==
    /\ disp.pc = "unlinkNew"
    /\ new' = new \ {disp.job}
    /\ disp' = IdleDisp(disp)
    /\ UNCHANGED <<cur, done, error, bak, lock, clock, rec, wk, prune, ghosts>>

\* The rename fails otherwise, or an unlink does, which is logged and left: a
\* claim that could not be reverted stays in cur/ for the collector.
ClaimFails ==
    /\ disp.pc \in {"rename", "revert", "unlinkNew"}
    /\ disp' = IdleDisp(disp)
    /\ UNCHANGED <<files, lock, clock, rec, wk, prune, ghosts>>

TryClaim ==
    \/ ClaimPreDone \/ ClaimPreError \/ ClaimRename
    \/ ClaimPostDone \/ ClaimPostError \/ ClaimRevert \/ ClaimUnlinkNew
    \/ ClaimFails
-----------------------------------------------------------------------------
(* write_synthetic_claim: GitHub reports j as queued.  The temporary file has
   a name of its own and is invisible to everyone until it is renamed. *)
MintBegin(j) ==
    /\ rec.pc = "idle"
    /\ nextGen <= MaxGen
    /\ ~Exists(cur[j])
    /\ rec' = [pc |-> "rename", job |-> j]
    /\ UNCHANGED <<files, lock, clock, disp, wk, prune, ghosts>>

\* Mutant of MintRename: the early existence check is trusted.
MintRenameClobbers ==
    /\ rec.pc = "rename"
    /\ rec' = [rec EXCEPT !.pc = "idle"]
    /\ nextGen <= MaxGen
    /\ cur' = [cur EXCEPT ![rec.job] = NewClaim]
    /\ nextGen' = nextGen + 1
    /\ \E w \in Workers : Spawn(w, rec.job, nextGen, "reconcile")
    /\ UNCHANGED <<new, done, error, bak, lock, clock, disp, prune,
                   delivered, crashes>>

\* The exclusive rename, which finds the name taken, fails, or claims the job.
MintRename ==
    /\ rec.pc = "rename"
    /\ rec' = [rec EXCEPT !.pc = "idle"]
    /\ LET j == rec.job IN
       \/ /\ UNCHANGED <<cur, wk, nextGen, claimed>>
       \/ /\ ~Exists(cur[j])
          /\ nextGen <= MaxGen
          /\ cur' = [cur EXCEPT ![j] = NewClaim]
          /\ nextGen' = nextGen + 1
          /\ \E w \in Workers : Spawn(w, j, nextGen, "reconcile")
    /\ UNCHANGED <<new, done, error, bak, lock, clock, disp, prune,
                   delivered, crashes>>
-----------------------------------------------------------------------------
(* finalize_done and finalize_error, by a job task or by the collector. *)

\* The marker a finalizer writes, and the other archive left as it is.
SetMarker(dir, j, f) ==
    IF dir = "done"
    THEN done' = [done EXCEPT ![j] = f] /\ UNCHANGED error
    ELSE error' = [error EXCEPT ![j] = f] /\ UNCHANGED done

Marker(dir, j) == IF dir = "done" THEN done[j] ELSE error[j]

WorkerGoto(w, pc) == wk' = [wk EXCEPT ![w].pc = pc]

\* The job ends, or the entry is dropped or rejected without running.
FinalizeBegin(w, dir) ==
    /\ wk[w].pc = "run"
    /\ wk' = [wk EXCEPT ![w].pc = "lock", ![w].dest = dir]
    /\ UNCHANGED <<files, lock, clock, disp, rec, prune, ghosts>>

\* The startup reap, the stale-image reap and expire_stale_cur file a claim no
\* task works on: one left by an earlier process or by a filing that failed.
\* That they take no other is what ClaimBudget and Lifecycle are about.  They
\* are one task: one claim at a time.
GcFinalizeBegin(w, j) ==
    /\ wk[w].pc = "idle"
    /\ \A v \in Workers : wk[v].pc # "idle" => wk[v].src # "gc"
    /\ prune.pc = "idle"
    /\ Exists(cur[j])
    /\ ~Tentative(j)
    /\ \A v \in Workers : Holding(v) => wk[v].job # j
    /\ wk' = [wk EXCEPT ![w] = [pc |-> "lock", job |-> j, gen |-> cur[j].gen,
                                src |-> "gc", dest |-> "error"]]
    /\ UNCHANGED <<files, lock, clock, disp, rec, prune, ghosts>>

LockArchive(w) ==
    /\ wk[w].pc = "lock"
    /\ lock = "free"
    /\ lock' = "fin"
    /\ WorkerGoto(w, "excl")
    /\ UNCHANGED <<files, clock, disp, rec, prune, ghosts>>

\* The marker as it is right after the rename: rename keeps the mtime.
Installed(j) == [cur[j] EXCEPT !.fin = clock]

\* Mutant of ArchiveExcl: the claim is unlinked first and installed later.
ArchiveUnlinkFirst(w) ==
    /\ wk[w].pc = "excl"
    /\ bak' = [bak EXCEPT ![wk[w].job] = Installed(wk[w].job)]
    /\ cur' = [cur EXCEPT ![wk[w].job] = NoFile]
    /\ WorkerGoto(w, "move")
    /\ UNCHANGED <<new, done, error, lock, clock, disp, rec, prune, ghosts>>

\* archive: rename_no_clobber(cur/<id>, dest).  Without its source, or if it
\* fails otherwise, the rename leaves everything as it was.
ArchiveExcl(w) ==
    /\ wk[w].pc = "excl"
    /\ LET j == wk[w].job
           d == wk[w].dest
       IN
       \/ /\ WorkerGoto(w, "unlock")
          /\ UNCHANGED <<cur, done, error>>
       \/ /\ Exists(cur[j])
          /\ Exists(Marker(d, j))
          /\ WorkerGoto(w, "preserve")
          /\ UNCHANGED <<cur, done, error>>
       \/ /\ Exists(cur[j])
          /\ ~Exists(Marker(d, j))
          /\ SetMarker(d, j, Installed(j))
          /\ cur' = [cur EXCEPT ![j] = NoFile]
          /\ WorkerGoto(w, "stamp")
    /\ UNCHANGED <<new, bak, lock, clock, disp, rec, prune, ghosts>>

\* preserve_existing: move the previous marker aside, or fail to and leave it.
ArchivePreserve(w) ==
    /\ wk[w].pc = "preserve"
    /\ WorkerGoto(w, "move")
    /\ LET j == wk[w].job
           d == wk[w].dest
       IN
       \/ /\ bak' = [bak EXCEPT ![j] = Marker(d, j)]
          /\ SetMarker(d, j, NoFile)
       \/ /\ bak' = [bak EXCEPT ![j] = NoFile]
          /\ UNCHANGED <<done, error>>
    /\ UNCHANGED <<new, cur, lock, clock, disp, rec, prune, ghosts>>

\* The plain rename onto dest; if it fails the old marker goes back.
ArchiveMove(w) ==
    /\ wk[w].pc = "move"
    /\ LET j == wk[w].job
           d == wk[w].dest
       IN
       /\ bak' = [bak EXCEPT ![j] = NoFile]
       /\ \/ /\ Exists(cur[j])
             /\ SetMarker(d, j, Installed(j))
             /\ cur' = [cur EXCEPT ![j] = NoFile]
             /\ WorkerGoto(w, "stamp")
          \/ /\ IF Exists(bak[j]) THEN SetMarker(d, j, bak[j])
                ELSE UNCHANGED <<done, error>>
             /\ WorkerGoto(w, "unlock")
             /\ UNCHANGED cur
    /\ UNCHANGED <<new, lock, clock, disp, rec, prune, ghosts>>

\* stamp_mtime_now(dest): the marker's mtime becomes its completion time.
ArchiveStamp(w) ==
    /\ wk[w].pc = "stamp"
    /\ LET j == wk[w].job
           d == wk[w].dest
       IN IF Exists(Marker(d, j))
          THEN SetMarker(d, j, [Marker(d, j) EXCEPT !.mtime = clock])
          ELSE UNCHANGED <<done, error>>
    /\ WorkerGoto(w, "unlock")
    /\ UNCHANGED <<new, cur, bak, lock, clock, disp, rec, prune, ghosts>>

UnlockArchive(w) ==
    /\ wk[w].pc = "unlock"
    /\ lock' = "free"
    /\ wk' = [wk EXCEPT ![w] = IdleWorker(wk[w])]
    /\ UNCHANGED <<files, clock, disp, rec, prune, ghosts>>

Finalize(w) ==
    \/ LockArchive(w) \/ ArchiveExcl(w) \/ ArchivePreserve(w)
    \/ ArchiveMove(w) \/ ArchiveStamp(w) \/ UnlockArchive(w)
-----------------------------------------------------------------------------
(* prune_archive_dir: `now` is read once per scan, each entry is judged by the
   scan's stat, then judged again and unlinked under the lock. *)
Age(now, f) == IF now > f.mtime THEN now - f.mtime ELSE 0

\* Retention is in units of the model's clock: 0 makes a marker of an earlier unit
\* expired.  It does not stand for the setting 0, which turns pruning off.
Expired(now, f) == Exists(f) /\ Age(now, f) > Retention

PruneBegin(dir) ==
    /\ prune.pc = "idle"
    /\ \A v \in Workers : wk[v].pc # "idle" => wk[v].src # "gc"
    /\ prune' = [prune EXCEPT !.pc = "scan", !.dir = dir, !.now = clock]
    /\ UNCHANGED <<files, lock, clock, disp, rec, wk, ghosts>>

PruneJudge(j) ==
    /\ prune.pc = "scan"
    /\ Expired(prune.now, Marker(prune.dir, j))
    /\ prune' = [prune EXCEPT !.pc = "lock", !.job = j]
    /\ UNCHANGED <<files, lock, clock, disp, rec, wk, ghosts>>

PruneEnd ==
    /\ prune.pc = "scan"
    /\ prune' = IdlePrune(prune)
    /\ UNCHANGED <<files, lock, clock, disp, rec, wk, ghosts>>

PruneLock ==
    /\ prune.pc = "lock"
    /\ lock = "free"
    /\ lock' = "prune"
    /\ prune' = [prune EXCEPT !.pc = "restat"]
    /\ UNCHANGED <<files, clock, disp, rec, wk, ghosts>>

\* Mutant of PruneRestat: the scan's judgement is trusted.
PruneRestatSkipped ==
    /\ prune.pc = "restat"
    /\ prune' = [prune EXCEPT !.pc = "unlink"]
    /\ UNCHANGED <<files, lock, clock, disp, rec, wk, ghosts>>

PruneRestat ==
    /\ prune.pc = "restat"
    /\ IF Expired(prune.now, Marker(prune.dir, prune.job))
       THEN /\ prune' = [prune EXCEPT !.pc = "unlink"]
            /\ UNCHANGED lock
       ELSE /\ prune' = [prune EXCEPT !.pc = "scan"]
            /\ lock' = "free"
    /\ UNCHANGED <<files, clock, disp, rec, wk, ghosts>>

\* The id is still known: a marker is left, or a confirmed claim.
Remembered(j) == Archived(j) \/ (Exists(cur[j]) /\ ~Tentative(j))

\* remove_file of the marker, or its failure.
PruneUnlink ==
    /\ prune.pc = "unlink"
    /\ lock' = "free"
    /\ prune' = [prune EXCEPT !.pc = "scan"]
    /\ UNCHANGED <<new, cur, bak, clock, disp, rec, wk,
                   nextGen, delivered, crashes>>
    /\ \/ /\ SetMarker(prune.dir, prune.job, NoFile)
          /\ claimed' = IF Remembered(prune.job)' THEN claimed
                        ELSE claimed \ {prune.job}
       \/ UNCHANGED <<done, error, claimed>>

Prune == PruneEnd \/ PruneLock \/ PruneRestat \/ PruneUnlink
-----------------------------------------------------------------------------
(* The process dies between any two system calls and is started again: every
   task and the in-memory lock are gone, the directories are as they were. *)
Crash ==
    /\ crashes < MaxCrash
    /\ crashes' = crashes + 1
    /\ lock' = "free"
    /\ disp' = IdleDisp(disp)
    /\ rec' = [rec EXCEPT !.pc = "idle"]
    /\ wk' = [w \in Workers |-> IdleWorker(wk[w])]
    /\ prune' = IdlePrune(prune)
    /\ bak' = [j \in Jobs |-> NoFile]
    /\ UNCHANGED <<new, cur, done, error, clock, nextGen, delivered, claimed>>

Next ==
    \/ \E j \in Jobs : \/ Deliver(j) \/ ClaimBegin(j) \/ MintBegin(j)
                       \/ PruneJudge(j)
                       \/ \E w \in Workers : GcFinalizeBegin(w, j)
    \/ TryClaim
    \/ MintRename
    \/ \E w \in Workers : \/ Finalize(w)
                          \/ \E d \in Dirs : FinalizeBegin(w, d)
    \/ \E d \in Dirs : PruneBegin(d)
    \/ Prune
    \/ Tick
    \/ Crash

Spec == Init /\ [][Next]_vars

-----------------------------------------------------------------------------
(* PROPERTIES *)

(* No workflow_job id is ever worked on by two tasks at once: the exclusive
   renames of try_claim and write_synthetic_claim are the only dedup, whatever
   the order of their checks (spool.rs, try_claim and write_synthetic_claim). *)
SingleOwner ==
    \A v, w \in Workers :
        (v # w /\ Holding(v) /\ Holding(w)) => wk[v].job # wk[w].job

(* The claim a task holds stays in cur/ until that task files it: no revert of
   a replay, no other finalizer and no restart takes it away, so the collector
   always sees a running job as live. *)
OwnerBacked ==
    \A w \in Workers : Holding(w) => cur[wk[w].job].gen = wk[w].gen

(* Claims are owned: at most one task per id, and its claim stays in cur/ for as
   long as the task holds it (try_claim, write_synthetic_claim, archive). *)
ClaimsOwned == SingleOwner /\ OwnerBacked

(* A delivery of an id that has a done/ or error/ marker never runs, also when
   the marker is installed in the middle of try_claim: a task started by a
   webhook sees no marker of its id for as long as it holds the claim. *)
ReplayNeverRuns ==
    \A w \in Workers :
        (Holding(w) /\ wk[w].src = "webhook") => ~Archived(wk[w].job)

(* Once a job has been started, something in the spool always says so - its
   claim or a marker - until retention forgets it.  It holds at every point
   between two system calls of archive, also if the process dies there. *)
ReplayGuard == \A j \in claimed : Exists(cur[j]) \/ Archived(j)

(* A marker whose process died between the install and the stamp: its mtime is
   still that of the claim. *)
Unstamped(f) == crashes > 0 /\ f.mtime < f.fin

(* Pruning never unlinks a marker younger than the retention window, counted
   from the moment the job was filed, even when a finalizer replaces the marker
   between the scan's stat and the unlink (prune_archive_dir).  Only a marker
   that a crash kept from its stamp may go earlier. *)
PruneOnlyExpired ==
    [][\A d \in Dirs, j \in Jobs :
         (prune.pc = "unlink" /\ Exists(Marker(d, j)) /\ ~Exists(Marker(d, j)'))
            => Unstamped(Marker(d, j)) \/ clock - Marker(d, j).fin > Retention]_vars

(* The claim store the spool implements: a tentative claim does not count. *)
ClaimStatus ==
    [j \in Jobs |-> IF Exists(cur[j]) /\ ~Tentative(j) THEN "owned"
                    ELSE IF Archived(j) THEN "archived" ELSE "free"]

Claims == INSTANCE ClaimStore WITH status <- ClaimStatus

(* The system calls of the spool, interleaved and cut short by crashes, behave
   like the atomic claim store. *)
ClaimsSpec == Claims!Spec

(* The directories as a reader sees them. *)
Seen(dir) == [j \in Jobs |-> [there |-> Exists(dir[j]), mtime |-> dir[j].mtime]]

Moves == INSTANCE SpoolMoves
    WITH cur <- Seen(cur), done <- Seen(done), error <- Seen(error)

(* Every system call of the spool, a retry's, a failure's and a crash's
   included, is one of the single moves that a reader without the lock has to
   reckon with: a file is where it was or where it goes, with its old mtime or
   the new one, and a marker leaves only over its age or for a newer claim. *)
MovesSpec == Moves!SpoolMovesSpec

=============================================================================
