----------------------------- MODULE Lifecycle -----------------------------
(***************************************************************************)
(* The life of a job's claim, runner registration and VM, and who may end  *)
(* it: the job tasks (spawn_job, run_job, teardown), the reconciler        *)
(* (gc.rs, reconcile_inner), the collector's sweep (sweep_inner) and the   *)
(* startup reap (reap_all_managed_vms_at_startup), against GitHub and Lima *)
(* which fail, answer late and go on by themselves.                        *)
(*                                                                         *)
(* A VM and a runner registration have the name of their job id, so a      *)
(* second attempt at a job reuses both names.  What tells the attempts     *)
(* apart is the generation of the claim, which is also the registration's  *)
(* id: a job task mints at most once.  GitHub never reuses an id; here a   *)
(* generation is used again only when nothing mentions it any more, which  *)
(* no action can tell from a new one and which keeps the state finite.     *)
(*                                                                         *)
(* Claims are the atomic ones of ClaimStore, which Spool implements.  The  *)
(* pause gate and the waiting for permits are in Intake.                   *)
(***************************************************************************)
EXTENDS Naturals, FiniteSets

CONSTANTS
    Jobs,          \* workflow_job ids
    Slots,         \* permits: max_concurrency of them
    NoJob,
    Rebuilds,      \* whether a restart may come with another image
    PromptAssign,  \* timing: GitHub hands a queued job to an idle runner
                   \* before the dispatch watchdog's deadline
    QuickConflict, \* timing: the second it takes a mint to fail on a taken
                   \* name does not meet the collector's second read of cur/
    MaxGen,        \* bound: generations mentioned at once
    MaxCrash,      \* bound: crashes
    MaxForeign,    \* bound: jobs of others that our runners are given
    MaxFaults      \* bound: failed calls to Lima, GitHub and the disk

ASSUME LifecycleAssumption ==
    /\ NoJob \notin Jobs
    /\ Rebuilds \in BOOLEAN /\ PromptAssign \in BOOLEAN /\ QuickConflict \in BOOLEAN
    /\ MaxGen \in Nat /\ MaxCrash \in Nat /\ MaxForeign \in Nat
    /\ MaxFaults \in Nat

VARIABLES
    job,      \* GitHub: state of each workflow_job
    reg,      \* GitHub: the registration with the job's name, id 0 if none
    spent,    \* job tasks' runners that have run a job and are gone
    vm,       \* Lima: the VM with the job's name
    new,      \* spool: new/
    cur,      \* spool: generation of cur/<id>.job, 0 if absent
    arch,     \* spool: ids with a marker in done/ or error/
    wk,       \* job tasks, by permit
    rec,      \* the reconciler
    gc,       \* the collector
    stage,    \* "reap" and "refile" (startup reap), "sweep" (the first sweep),
              \* "run"
    failed,   \* delete_failed of the startup reap
    image,    \* the image LIMA_TEMPLATE boots
    crashes, foreign, faults

github == <<job, reg, spent>>
spool == <<new, cur, arch>>
vars == <<job, reg, spent, vm, new, cur, arch, wk, rec, gc, stage, failed,
          image, crashes, foreign, faults>>
-----------------------------------------------------------------------------
Gens == 0..MaxGen
Images == {"old", "new"}
JobStates == {"none", "queued", "running", "completed"}
NoReg == [id |-> 0, st |-> "offline", runs |-> NoJob]
NoVm == [st |-> "none", gen |-> 0, img |-> "old"]
IdleTask == [pc |-> "idle", job |-> NoJob, gen |-> 0]
IdleRec == [pc |-> "idle", covered |-> {}, queued |-> {}]
IdleGc == [pc |-> "idle", known |-> FALSE, live |-> {}, orphans |-> {},
           stale |-> {}, at |-> NoJob, reaped |-> {}, listed |-> {}]
WorkerPC == {"idle", "mint", "start", "shell", "stop", "delete", "dereg", "file"}

Reg == [id : Gens, st : {"offline", "idle", "busy"}, runs : Jobs \cup {NoJob}]
Listed == [name : Jobs, id : Gens, busy : BOOLEAN]

TypeOK ==
    /\ job \in [Jobs -> JobStates]
    /\ reg \in [Jobs -> Reg]
    /\ spent \in SUBSET Gens
    /\ vm \in [Jobs -> [st : {"none", "up", "down"}, gen : Gens, img : Images]]
    /\ new \in SUBSET Jobs
    /\ cur \in [Jobs -> Gens]
    /\ arch \in SUBSET Jobs
    /\ wk \in [Slots -> [pc : WorkerPC, job : Jobs \cup {NoJob}, gen : Gens]]
    /\ rec \in [pc : {"idle", "runners", "queue", "mint"}, covered : SUBSET Jobs,
                queued : SUBSET Jobs]
    /\ rec.pc # "mint" => rec.queued = {}
    /\ gc \in [pc : {"idle", "list", "reap", "delete", "again", "dereg"},
               known : BOOLEAN, live : SUBSET Jobs, orphans : SUBSET Jobs,
               stale : SUBSET Jobs, at : Jobs \cup {NoJob}, reaped : SUBSET Jobs,
               listed : SUBSET Listed]
    /\ stage \in {"reap", "refile", "sweep", "run"}
    /\ failed \in SUBSET Jobs
    /\ image \in Images
    /\ crashes \in 0..MaxCrash
    /\ foreign \in 0..MaxForeign
    /\ faults \in 0..MaxFaults

\* A freshly installed host: the startup reap and the first sweep find nothing.
Init ==
    /\ job = [j \in Jobs |-> "none"]
    /\ reg = [j \in Jobs |-> NoReg]
    /\ spent = {}
    /\ vm = [j \in Jobs |-> NoVm]
    /\ new = {}
    /\ cur = [j \in Jobs |-> 0]
    /\ arch = {}
    /\ wk = [s \in Slots |-> IdleTask]
    /\ rec = IdleRec
    /\ gc = IdleGc
    /\ stage = "run"
    /\ failed = {}
    /\ image = "old"
    /\ crashes = 0
    /\ foreign = 0
    /\ faults = 0

Claimed == {j \in Jobs : cur[j] # 0}
HasVm == {j \in Jobs : vm[j].st # "none"}
Fault == faults < MaxFaults /\ faults' = faults + 1
-----------------------------------------------------------------------------
(* GitHub and the guests. *)

\* A job is queued, and its webhook is delivered or lost.
Enqueue(j) ==
    /\ job[j] = "none"
    /\ job' = [job EXCEPT ![j] = "queued"]
    /\ new' \in {new, new \cup {j}}
    /\ UNCHANGED <<reg, spent, vm, cur, arch, wk, rec, gc, stage, failed, image, crashes, foreign,
                   faults>>

\* The agent in the VM connects with the JIT config it was given.
RunnerOnline(j) ==
    /\ vm[j].st = "up"
    /\ reg[j].id = vm[j].gen
    /\ reg[j].st = "offline"
    /\ reg' = [reg EXCEPT ![j].st = "idle"]
    /\ UNCHANGED <<job, spent, vm, spool, wk, rec, gc, stage, failed, image, crashes, foreign,
                   faults>>

\* GitHub gives any queued job to any idle runner with its labels.
Assign(j, k) ==
    /\ reg[j].st = "idle"
    /\ vm[j].st = "up" /\ vm[j].gen = reg[j].id
    /\ job[k] = "queued"
    /\ reg' = [reg EXCEPT ![j].st = "busy", ![j].runs = k]
    /\ job' = [job EXCEPT ![k] = "running"]
    /\ UNCHANGED <<spent, vm, spool, wk, rec, gc, stage, failed, image, crashes, foreign,
                   faults>>

\* The job may be one whose own runner is not in this model.
Steal(j) ==
    /\ reg[j].st = "idle"
    /\ vm[j].st = "up" /\ vm[j].gen = reg[j].id
    /\ foreign < MaxForeign
    /\ foreign' = foreign + 1
    /\ reg' = [reg EXCEPT ![j].st = "busy", ![j].runs = NoJob]
    /\ UNCHANGED <<job, spent, vm, spool, wk, rec, gc, stage, failed, image,
                   crashes, faults>>

\* The job of a runner is over, if it is one of Jobs.
Complete(k) == job' = [j \in Jobs |-> IF j = k THEN "completed" ELSE job[j]]

\* A runner that has run one job is deregistered by GitHub.
JobEnds(j) ==
    /\ reg[j].st = "busy"
    /\ vm[j].st = "up" /\ vm[j].gen = reg[j].id
    /\ Complete(reg[j].runs)
    /\ spent' = spent \cup ({reg[j].id} \cap {wk[s].gen : s \in Slots})
    /\ reg' = [reg EXCEPT ![j] = NoReg]
    /\ UNCHANGED <<vm, spool, wk, rec, gc, stage, failed, image, crashes, foreign, faults>>

\* GitHub notices that the machine of a runner is gone; a job it ran fails.
RunnerLost(j) ==
    /\ reg[j].st # "offline"
    /\ ~(vm[j].st = "up" /\ vm[j].gen = reg[j].id)
    /\ reg' = [reg EXCEPT ![j].st = "offline", ![j].runs = NoJob]
    /\ Complete(reg[j].runs)
    /\ UNCHANGED <<spent, vm, spool, wk, rec, gc, stage, failed, image, crashes, foreign,
                   faults>>

\* delete_runner: GitHub refuses while the runner is busy; 404 counts as done.
Deregister(j, id) ==
    reg' = IF reg[j].id = id /\ reg[j].st # "busy" THEN [reg EXCEPT ![j] = NoReg]
           ELSE reg
-----------------------------------------------------------------------------
(* Claims. *)

Unused ==
    (1..MaxGen) \ ({cur[j] : j \in Jobs} \cup {reg[j].id : j \in Jobs}
                     \cup {vm[j].gen : j \in Jobs} \cup {wk[s].gen : s \in Slots}
                     \cup {l.id : l \in gc.listed})
LeastGen(G) == CHOOSE g \in G : \A h \in G : g <= h

Goto(s, pc) == wk' = [wk EXCEPT ![s].pc = pc]

\* A claim is written and handed to a job task that holds a permit.
SpawnJob(j) ==
    /\ Unused # {}
    /\ cur' = [cur EXCEPT ![j] = LeastGen(Unused)]
    /\ \E s \in Slots :
         /\ wk[s].pc = "idle"
         /\ wk' = [wk EXCEPT ![s] = [pc |-> "mint", job |-> j,
                                     gen |-> LeastGen(Unused)]]

\* finalize_done and finalize_error move whatever claim has the name.
File(j) ==
    IF cur[j] # 0
    THEN cur' = [cur EXCEPT ![j] = 0] /\ arch' = arch \cup {j}
    ELSE UNCHANGED <<cur, arch>>

\* The dispatch loop: try_claim, and a task for what it claims.
Dispatch(j) ==
    /\ stage = "run"
    /\ j \in new
    /\ new' = new \ {j}
    /\ IF j \in arch \/ cur[j] # 0
       THEN UNCHANGED <<cur, wk>>
       ELSE SpawnJob(j)
    /\ UNCHANGED <<github, vm, arch, rec, gc, stage, failed, image, crashes, foreign,
                   faults>>
-----------------------------------------------------------------------------
(* A job task. *)

\* generate_jit_config: the name may be taken (409), the call may fail, and the
\* answer may be lost after GitHub has registered the runner.
WorkerMint(s) ==
    /\ wk[s].pc = "mint"
    /\ LET j == wk[s].job
           minted == [reg EXCEPT ![j] = [id |-> wk[s].gen, st |-> "offline",
                                         runs |-> NoJob]]
       IN
       \/ reg[j].id = 0 /\ reg' = minted /\ Goto(s, "start") /\ UNCHANGED faults
       \/ reg[j].id # 0 /\ Goto(s, "file") /\ UNCHANGED <<reg, faults>>
       \/ reg[j].id = 0 /\ Fault /\ Goto(s, "file") /\ reg' \in {reg, minted}
    /\ UNCHANGED <<job, spent, vm, spool, rec, gc, stage, failed, image, crashes, foreign>>

\* limactl start and copy.  A VM of that name makes start fail; a start that
\* fails by itself may leave one.
WorkerStart(s) ==
    /\ wk[s].pc = "start"
    /\ LET j == wk[s].job
           booted(st) == [vm EXCEPT ![j] = [st |-> st, gen |-> wk[s].gen,
                                            img |-> image]]
       IN
       \/ /\ j \in HasVm
          /\ Goto(s, "stop")
          /\ UNCHANGED <<vm, faults>>
       \/ /\ j \notin HasVm
          /\ vm' = booted("up")
          /\ Goto(s, "shell")
          /\ UNCHANGED faults
       \/ /\ j \notin HasVm
          /\ Fault
          /\ vm' \in {vm, booted("down")}
          /\ Goto(s, "stop")
    /\ UNCHANGED <<github, spool, rec, gc, stage, failed, image, crashes, foreign>>

\* `limactl shell` returns: the runner has run its job, the VM is gone, the
\* watchdog finds the runner idle or gone past its deadline, the job outlives
\* job_max_runtime_secs, or the shell itself fails.
WorkerShell(s) ==
    /\ wk[s].pc = "shell"
    /\ LET j == wk[s].job
           mine == reg[j].id = wk[s].gen
       IN
       \/ wk[s].gen \in spent /\ UNCHANGED faults
       \/ ~(vm[j].st = "up" /\ vm[j].gen = wk[s].gen) /\ UNCHANGED faults
       \/ /\ ~(mine /\ reg[j].st = "busy")
          /\ PromptAssign /\ mine => \A k \in Jobs : job[k] # "queued"
          /\ UNCHANGED faults
       \/ Fault
    /\ Goto(s, "stop")
    /\ UNCHANGED <<github, vm, spool, rec, gc, stage, failed, image, crashes, foreign>>

\* limactl stop, by name: it may fail and leave the VM up.
StopVm(j) ==
    \/ /\ vm' = IF vm[j].st = "up" THEN [vm EXCEPT ![j].st = "down"] ELSE vm
       /\ UNCHANGED faults
    \/ vm[j].st = "up" /\ Fault /\ UNCHANGED vm

\* limactl delete, by name.  When it reports an error the VM is still there, or
\* gone without the presence check having shown it.
DeleteVm(j, ok) ==
    IF ok THEN vm' = [vm EXCEPT ![j] = NoVm] /\ UNCHANGED faults
    ELSE j \in HasVm /\ Fault /\ vm' \in {vm, [vm EXCEPT ![j] = NoVm]}

\* teardown: each step is tried, and its error is ignored.
WorkerTeardown(s) ==
    /\ \/ /\ wk[s].pc = "stop"
          /\ StopVm(wk[s].job)
          /\ Goto(s, "delete")
          /\ UNCHANGED reg
       \/ /\ wk[s].pc = "delete"
          /\ \E ok \in BOOLEAN : DeleteVm(wk[s].job, ok)
          /\ Goto(s, "dereg")
          /\ UNCHANGED reg
       \/ /\ wk[s].pc = "dereg"
          /\ \/ Deregister(wk[s].job, wk[s].gen) /\ UNCHANGED faults
             \/ Fault /\ UNCHANGED reg
          /\ Goto(s, "file")
          /\ UNCHANGED vm
    /\ UNCHANGED <<job, spent, spool, rec, gc, stage, failed, image, crashes, foreign>>

\* The claim is filed.  A failure is logged and leaves it in cur/.
WorkerFile(s) ==
    /\ wk[s].pc = "file"
    /\ \/ File(wk[s].job) /\ UNCHANGED faults
       \/ Fault /\ UNCHANGED <<cur, arch>>
    /\ wk' = [wk EXCEPT ![s] = IdleTask]
    /\ spent' = spent \ {wk[s].gen}
    /\ UNCHANGED <<job, reg, vm, new, rec, gc, stage, failed, image, crashes, foreign>>

Worker(s) ==
    WorkerMint(s) \/ WorkerStart(s) \/ WorkerShell(s) \/ WorkerTeardown(s)
    \/ WorkerFile(s)
-----------------------------------------------------------------------------
(* The reconciler: three reads, then a mint for every queued job that the reads
   show as uncovered. *)
RecBegin ==
    /\ stage = "run"
    /\ rec.pc = "idle"
    /\ rec' = [IdleRec EXCEPT !.pc = "runners", !.covered = Claimed]
    /\ UNCHANGED <<github, vm, spool, wk, gc, stage, failed, image, crashes, foreign, faults>>

\* runner_can_serve: online and idle.
RunnerCanServe(j) == reg[j].id # 0 /\ reg[j].st = "idle"

RecRunners ==
    /\ rec.pc = "runners"
    /\ \/ /\ rec' = [rec EXCEPT !.pc = "queue",
                       !.covered = @ \cup {j \in Jobs : RunnerCanServe(j)}]
          /\ UNCHANGED faults
       \/ Fault /\ rec' = IdleRec
    /\ UNCHANGED <<github, vm, spool, wk, gc, stage, failed, image, crashes, foreign>>

RecQueue ==
    /\ rec.pc = "queue"
    /\ \/ /\ rec' = [rec EXCEPT !.pc = "mint",
                       !.queued = {j \in Jobs : job[j] = "queued"}]
          /\ UNCHANGED faults
       \/ Fault /\ rec' = IdleRec
    /\ UNCHANGED <<github, vm, spool, wk, gc, stage, failed, image, crashes, foreign>>

PermitsTaken == \A s \in Slots : wk[s].pc # "idle"

\* should_mint.
ShouldMint(j) == j \notin rec.covered

\* Mutant of RecMint: write_synthetic_claim overwrites a claim.
RecMintClobbers(j) ==
    /\ rec.pc = "mint"
    /\ j \in rec.queued
    /\ ShouldMint(j)
    /\ SpawnJob(j)
    /\ rec' = [rec EXCEPT !.queued = @ \ {j}]
    /\ UNCHANGED <<github, vm, new, arch, gc, stage, failed, image, crashes, foreign,
                   faults>>

\* Mutant of RecMint: the replay check of try_claim on this path too.
RecMintUnlessArchived(j) ==
    /\ rec.pc = "mint"
    /\ j \in rec.queued
    /\ rec' = [rec EXCEPT !.queued = @ \ {j}]
    /\ IF ShouldMint(j) /\ cur[j] = 0 /\ j \notin arch THEN SpawnJob(j)
       ELSE UNCHANGED <<cur, wk>>
    /\ UNCHANGED <<github, vm, new, arch, gc, stage, failed, image, crashes, foreign,
                   faults>>

\* One queued job: skip it, or take a permit and write a synthetic claim, which
\* does nothing when the id has one, and may fail.
RecMint(j) ==
    /\ rec.pc = "mint"
    /\ j \in rec.queued
    /\ rec' = [rec EXCEPT !.queued = @ \ {j}]
    /\ \/ ~ShouldMint(j) /\ UNCHANGED <<cur, wk, faults>>
       \/ /\ ShouldMint(j)
          /\ ~PermitsTaken
          /\ \/ cur[j] # 0 /\ UNCHANGED <<cur, wk, faults>>
             \/ cur[j] = 0 /\ SpawnJob(j) /\ UNCHANGED faults
             \/ cur[j] = 0 /\ Fault /\ UNCHANGED <<cur, wk>>
    /\ UNCHANGED <<github, vm, new, arch, gc, stage, failed, image, crashes, foreign>>

\* The queue is done, or no permit is free for the next job.
RecEnd ==
    /\ rec.pc = "mint"
    /\ \/ rec.queued = {}
       \/ PermitsTaken /\ \E j \in rec.queued : ShouldMint(j)
    /\ rec' = IdleRec
    /\ UNCHANGED <<github, vm, spool, wk, gc, stage, failed, image, crashes, foreign, faults>>

Reconcile == RecBegin \/ RecRunners \/ RecQueue \/ RecEnd
             \/ \E j \in Jobs : RecMint(j)
-----------------------------------------------------------------------------
(* The collector's sweep. *)

\* expire_stale_cur: only a claim no task of this process holds gets that old
\* (ClaimBudget!InFlightNeverReaped).
GcExpire(j) ==
    /\ stage \in {"sweep", "run"}
    /\ gc.pc = "idle"
    /\ cur[j] # 0
    /\ \A s \in Slots : wk[s].gen # cur[j]
    /\ File(j)
    /\ UNCHANGED <<github, vm, new, wk, rec, gc, stage, failed, image, crashes, foreign, faults>>

\* An error of expire_stale_cur or prune_old_archives ends the sweep.
GcAbort ==
    /\ stage \in {"sweep", "run"}
    /\ gc.pc = "idle"
    /\ Fault
    /\ stage' = "run"
    /\ UNCHANGED <<github, vm, spool, wk, rec, gc, failed, image, crashes, foreign>>

\* live_vm_map_from_cur; `known` is FALSE when cur/ could not be read.
GcRead ==
    /\ stage \in {"sweep", "run"}
    /\ gc.pc = "idle"
    /\ \/ gc' = [IdleGc EXCEPT !.pc = "list", !.known = TRUE, !.live = Claimed]
          /\ UNCHANGED faults
       \/ gc' = [IdleGc EXCEPT !.pc = "list"] /\ Fault
    /\ UNCHANGED <<github, vm, spool, wk, rec, stage, failed, image, crashes, foreign>>

\* Mutant of PlanVmReaps: an unreadable cur/ is taken for an empty one.
PlanReapsUnknown ==
    gc' = [gc EXCEPT !.pc = "reap", !.orphans = HasVm \ gc.live,
             !.stale = {j \in HasVm \cap gc.live : vm[j].img # image}]

\* Mutant of PlanVmReaps: only VMs with a claim are considered.
PlanStaleOnly ==
    gc' = [gc EXCEPT !.pc = "reap",
             !.stale = {j \in HasVm \cap gc.live : vm[j].img # image}]

\* plan_vm_reaps on what `limactl list` shows.
PlanVmReaps ==
    gc' = [gc EXCEPT !.pc = "reap",
             !.orphans = IF gc.known THEN HasVm \ gc.live ELSE {},
             !.stale = IF gc.known THEN {j \in HasVm \cap gc.live : vm[j].img # image}
                       ELSE {}]

GcList ==
    /\ gc.pc = "list"
    /\ \/ PlanVmReaps /\ UNCHANGED faults
       \/ Fault /\ gc' = [gc EXCEPT !.pc = "reap"]
    /\ UNCHANGED <<github, vm, spool, wk, rec, stage, failed, image, crashes, foreign>>

\* The next VM of the plan is stopped and then deleted, by name.
GcStop(j) ==
    /\ gc.pc = "reap"
    /\ j \in gc.orphans \cup gc.stale
    /\ StopVm(j)
    /\ gc' = [gc EXCEPT !.pc = "delete", !.at = j]
    /\ UNCHANGED <<github, spool, wk, rec, stage, failed, image, crashes, foreign>>

\* A stale VM's claim is filed only when its VM is known to be gone.  The filing may
\* fail, and the runner pass takes the claim for gone all the same.
GcDelete ==
    /\ gc.pc = "delete"
    /\ LET j == gc.at
           next == [gc EXCEPT !.pc = "reap", !.at = NoJob, !.orphans = @ \ {j},
                      !.stale = @ \ {j}]
       IN
       \/ /\ j \in gc.orphans
          /\ \E ok \in BOOLEAN : DeleteVm(j, ok)
          /\ gc' = next
          /\ UNCHANGED <<cur, arch>>
       \/ /\ j \in gc.stale
          /\ DeleteVm(j, FALSE)
          /\ gc' = next
          /\ UNCHANGED <<cur, arch>>
       \/ /\ j \in gc.stale
          /\ vm' = [vm EXCEPT ![j] = NoVm]
          /\ \/ File(j) /\ UNCHANGED faults
             \/ Fault /\ UNCHANGED <<cur, arch>>
          /\ gc' = [next EXCEPT !.reaped = @ \cup {j}]
    /\ UNCHANGED <<github, new, wk, rec, stage, failed, image, crashes, foreign>>

\* Nothing else of the sweep matters any more.
ToDereg(doomed) == [IdleGc EXCEPT !.pc = "dereg", !.listed = doomed]

Runners == {[name |-> j, id |-> reg[j].id, busy |-> reg[j].st = "busy"] :
              j \in {i \in Jobs : reg[i].id # 0}}

\* Mutant of GcRunners: the runners are judged by the claims of the VM pass.
GcRunnersSnapshot ==
    /\ gc.pc = "reap"
    /\ gc.orphans \cup gc.stale = {}
    /\ gc' = ToDereg({l \in Runners : l.name \notin gc.live \ gc.reaped /\ ~l.busy})
    /\ UNCHANGED <<github, vm, spool, wk, rec, stage, failed, image, crashes, foreign, faults>>

\* list_runners, once the VM pass is over.  What that pass has read is not used again.
GcRunners ==
    /\ gc.pc = "reap"
    /\ gc.orphans \cup gc.stale = {}
    /\ \/ /\ gc' = [IdleGc EXCEPT !.pc = "again", !.reaped = gc.reaped,
                      !.listed = Runners]
          /\ UNCHANGED faults
       \/ Fault /\ gc' = ToDereg({})
    /\ UNCHANGED <<github, vm, spool, wk, rec, stage, failed, image, crashes, foreign>>

Doomed(live) == {l \in gc.listed : l.name \notin live /\ ~l.busy}

\* plan_runner_reaps_from_cur reads cur/ again, after the list.
GcAgain ==
    /\ gc.pc = "again"
    /\ QuickConflict => \A s \in Slots :
                          wk[s].pc \in {"mint", "file"} => wk[s].job \notin {l.name : l \in gc.listed}
    /\ \/ gc' = ToDereg(Doomed(Claimed \ gc.reaped))
          /\ UNCHANGED faults
       \/ Fault /\ gc' = ToDereg({})
    /\ UNCHANGED <<github, vm, spool, wk, rec, stage, failed, image, crashes, foreign>>

GcDereg ==
    /\ gc.pc = "dereg"
    /\ \E l \in gc.listed :
         /\ gc' = [gc EXCEPT !.listed = @ \ {l}]
         /\ \/ Deregister(l.name, l.id) /\ UNCHANGED faults
            \/ Fault /\ UNCHANGED reg
    /\ UNCHANGED <<job, spent, vm, spool, wk, rec, stage, failed, image, crashes, foreign>>

\* The sweep ends.  The first one is over before anything is claimed.
GcEnd ==
    /\ gc.pc = "dereg"
    /\ gc.listed = {}
    /\ gc' = IdleGc
    /\ stage' = "run"
    /\ UNCHANGED <<github, vm, spool, wk, rec, failed, image, crashes, foreign, faults>>

Sweep == GcAbort \/ GcRead \/ GcList \/ (\E j \in Jobs : GcStop(j)) \/ GcDelete
         \/ GcRunners \/ GcAgain \/ GcDereg \/ GcEnd
-----------------------------------------------------------------------------
(* The process dies and is started again, perhaps with another image, which makes a
   difference only to VMs that are there.  The guests go on. *)
Crash ==
    /\ crashes < MaxCrash
    /\ crashes' = crashes + 1
    /\ spent' = {}
    /\ wk' = [s \in Slots |-> IdleTask]
    /\ rec' = IdleRec
    /\ gc' = IdleGc
    /\ stage' = "reap"
    /\ failed' = {}
    /\ image' \in IF Rebuilds /\ HasVm # {} THEN Images ELSE {image}
    /\ UNCHANGED <<job, reg, vm, spool, foreign, faults>>

\* Every managed VM is stopped and deleted.  A delete may fail three times and
\* leave the VM, up or down, or have deleted it unseen; a failed `limactl list`
\* skips the reap altogether.
ReapVms ==
    /\ stage = "reap"
    /\ \/ /\ vm' = [j \in Jobs |-> NoVm]
          /\ failed' = {}
          /\ stage' = "refile"
          /\ UNCHANGED faults
       \/ /\ Fault
          /\ \E f \in (SUBSET HasVm) \ {{}} : \E left, down \in SUBSET f :
               /\ failed' = f
               /\ vm' = [j \in Jobs |-> IF j \notin left THEN NoVm
                                        ELSE IF j \in down
                                        THEN [vm[j] EXCEPT !.st = "down"]
                                        ELSE vm[j]]
          /\ stage' = "refile"
       \/ /\ Fault
          /\ stage' = "sweep"
          /\ UNCHANGED <<vm, failed>>
    /\ UNCHANGED <<github, spool, wk, rec, gc, image, crashes, foreign>>

\* plan_startup_claim_finalizes: every claim is filed unless its VM is still
\* there.  An unreadable cur/ files nothing.
RefileClaims ==
    /\ stage = "refile"
    /\ stage' = "sweep"
    /\ \/ /\ arch' = arch \cup (Claimed \ failed)
          /\ cur' = [j \in Jobs |-> IF j \in failed THEN cur[j] ELSE 0]
          /\ UNCHANGED faults
       \/ Fault /\ UNCHANGED <<cur, arch>>
    /\ failed' = {}
    /\ UNCHANGED <<github, vm, new, wk, rec, gc, image, crashes, foreign>>

Guest(j) == RunnerOnline(j) \/ Steal(j) \/ JobEnds(j) \/ RunnerLost(j)
            \/ \E k \in Jobs : Assign(j, k)

Next ==
    \/ \E j \in Jobs : Enqueue(j) \/ Guest(j) \/ Dispatch(j) \/ GcExpire(j)
    \/ \E s \in Slots : Worker(s)
    \/ Reconcile
    \/ Sweep
    \/ Crash \/ ReapVms \/ RefileClaims

Spec == Init /\ [][Next]_vars

(* Every sweep begins with expire_stale_cur, so a claim that stays old is taken.
   Tasks, timers and guests keep running; GitHub assigns jobs and notices dead
   runners.  The collector may take a VM that is new to its VM pass before its
   agent is online or has a job, but not time and again.  Nothing makes jobs
   arrive, calls fail or the process die. *)
FairSpec ==
    /\ Spec
    /\ \A j \in Jobs : /\ SF_vars(RunnerOnline(j))
                       /\ SF_vars(\E k \in Jobs : Assign(k, j))
                       /\ WF_vars(JobEnds(j) \/ RunnerLost(j))
                       /\ WF_vars(Dispatch(j))
                       /\ SF_vars(GcExpire(j))
    /\ \A s \in Slots : WF_vars(Worker(s))
    /\ WF_vars(Reconcile)
    /\ SF_vars(ReapVms \/ RefileClaims \/ Sweep)
-----------------------------------------------------------------------------
(* PROPERTIES *)

\* The task runs its job in a VM of its own.
InShell(s) == wk[s].pc = "shell"
RunsInVm(s) ==
    InShell(s) /\ vm[wk[s].job].st = "up" /\ vm[wk[s].job].gen = wk[s].gen

\* The VM pass has read cur/, and there was no claim of j.
NewToVmPass(j) == gc.pc \in {"reap", "delete"} /\ gc.known /\ j \notin gc.live

(* "Every reap decision below treats `None` as unknown - reap nothing"
   (sweep_inner), and VM names are reused: the VM in which a task runs its job is
   stopped or deleted under it only by a VM pass that has read cur/ before the
   task's claim was written.  A pass that read the claim, a pass that could not
   read cur/ and the teardown of an earlier attempt leave it alone, however old
   their plans are.  A pass may take a newer one: the comment "no freshly-minted
   VM is ever seen here as an orphan" is FreshVmSpared, which fails. *)
LiveVmSpared ==
    [][\A s \in Slots :
         RunsInVm(s) /\ InShell(s)' => RunsInVm(s)' \/ NewToVmPass(wk[s].job)]_vars

(* What that comment says; see MCLifecycleVmRace.cfg. *)
FreshVmSpared == \A s \in Slots : InShell(s) => RunsInVm(s)

(* "a runner minted since the top-of-sweep snapshot is seen as backed rather
   than reaped" (sweep_inner): a job task's registration stays until its runner
   has run a job or the task deletes it. *)
LiveRunnerSpared ==
    \A s \in Slots : wk[s].pc \in {"start", "shell"} =>
        wk[s].gen \in spent \/ reg[wk[s].job].id = wk[s].gen

(* A job task's claim is in cur/ until the task files it, so no second task for
   the same job, VM name and runner name can start. *)
LiveClaimed == \A s \in Slots : wk[s].pc # "idle" => cur[wk[s].job] = wk[s].gen

(* The reconciler is the non-lossy backstop: no job stays queued at GitHub
   for ever, whatever webhooks are lost, runners are stolen, calls fail or
   processes die along the way. *)
QueuedServed == \A j \in Jobs : []<>(job[j] # "queued")

(* Nothing leaks: no VM stays for ever without a task that uses its name. *)
IdleVmReaped ==
    \A j \in Jobs : []<>(vm[j].st = "none" \/ \E s \in Slots : wk[s].job = j)
=============================================================================
