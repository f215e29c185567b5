--------------------------- MODULE LifecycleProofs ---------------------------
(***************************************************************************)
(* Proofs about Lifecycle, for any jobs, permits and bounds: what a job    *)
(* task owns (its claim, its runner registration, its VM) stays its own    *)
(* until the task gives it up, whatever the reconciler, the collector, the *)
(* guests and a restart do.                                                *)
(***************************************************************************)
EXTENDS Lifecycle, TLAPS, WellFoundedInduction

Active(s) == wk[s].pc # "idle"

\* The parts of the invariant.  A task has a job and a generation of its own.
WithJob == \A s \in Slots : Active(s) => wk[s].job \in Jobs

Owned ==
    /\ \A s \in Slots : Active(s) => wk[s].gen # 0
    /\ \A s, t \in Slots : Active(s) /\ Active(t) /\ wk[s].gen = wk[t].gen => s = t

\* Until the first sweep is over nothing is claimed and nothing runs.
Stages == stage # "run" => rec.pc = "idle" /\ \A s \in Slots : ~Active(s)

\* No VM has another image than the template's, so the collector calls none
\* of them stale.
OneImage ==
    /\ image = "old"
    /\ \A j \in Jobs : vm[j].img = "old"
    /\ gc.stale = {} /\ gc.reaped = {}

\* The collector does not deregister the runner of a task.
RunnerPass ==
    /\ gc.pc \notin {"again", "dereg"} => gc.listed = {}
    /\ gc.pc = "dereg" =>
         \A s \in Slots : \A l \in gc.listed :
           Active(s) => wk[s].job # l.name \/ wk[s].gen # l.id

ClaimInv == TypeOK /\ WithJob /\ Owned /\ Stages /\ OneImage /\ LiveClaimed

RunnerInv == RunnerPass /\ LiveRunnerSpared

\* The plan of the VM pass holds only VMs without a claim in its read of cur/.
VmPass ==
    /\ gc.orphans \cap gc.live = {}
    /\ gc.known \/ gc.orphans = {}
-----------------------------------------------------------------------------
LEMMA Constants ==
    /\ NoJob \notin Jobs
    /\ Rebuilds \in BOOLEAN
    /\ MaxGen \in Nat /\ MaxCrash \in Nat /\ MaxForeign \in Nat
    /\ MaxFaults \in Nat
BY LifecycleAssumption DEF LifecycleAssumption

\* A set of generations has a least one.
LEMMA LeastGenIn ==
    ASSUME NEW G, G \subseteq Nat, G # {}
    PROVE  LeastGen(G) \in G
<1>1. PICK g \in G : \A h \in G : ~(<<h, g>> \in OpToRel(<, Nat))
  BY NatLessThanWellFounded, WFMin
<1>2. ASSUME NEW h \in G
      PROVE  g <= h
  <2>1. g \in Nat /\ h \in Nat
    OBVIOUS
  <2>2. h < g => <<h, g>> \in OpToRel(<, Nat)
    BY <2>1 DEF OpToRel
  <2>3. ~(h < g)
    BY <1>1, <2>2, Zenon
  <2> QED
    BY <2>1, <2>3
<1> QED
  BY <1>2 DEF LeastGen

LEMMA FaultType ==
    ASSUME TypeOK
    PROVE  Fault => faults' \in 0..MaxFaults
BY Constants DEF TypeOK, Fault

LEMMA GotoFrame ==
    ASSUME TypeOK, NEW s \in Slots, NEW pc \in WorkerPC, Goto(s, pc)
    PROVE  /\ wk' \in [Slots -> [pc : WorkerPC, job : Jobs \cup {NoJob}, gen : Gens]]
           /\ wk'[s].pc = pc
           /\ \A t \in Slots : /\ wk'[t].job = wk[t].job /\ wk'[t].gen = wk[t].gen
                               /\ t # s => wk'[t].pc = wk[t].pc
BY DEF TypeOK, Goto

\* A claim is written with a generation that nothing mentions, and task s has it.
Spawned(j, s, g) ==
    /\ g \in Unused /\ g \in Gens /\ g # 0
    /\ wk[s].pc = "idle"
    /\ cur' = [cur EXCEPT ![j] = g]
    /\ cur' \in [Jobs -> Gens]
    /\ wk' \in [Slots -> [pc : WorkerPC, job : Jobs \cup {NoJob}, gen : Gens]]
    /\ wk'[s] = [pc |-> "mint", job |-> j, gen |-> g]
    /\ \A t \in Slots : t # s => wk'[t] = wk[t]

LEMMA SpawnFrame ==
    ASSUME TypeOK, NEW j \in Jobs, SpawnJob(j)
    PROVE  \E s \in Slots, g \in Gens : Spawned(j, s, g)
<1>1. Unused \subseteq 1..MaxGen /\ Unused # {}
  BY DEF SpawnJob, Unused
<1> HIDE DEF Unused
<1>2. LeastGen(Unused) \in Unused
  BY <1>1, LeastGenIn, Constants, 1..MaxGen \subseteq Nat
<1>3. LeastGen(Unused) \in Gens /\ LeastGen(Unused) # 0
  BY <1>1, <1>2, Constants, 0 \notin 1..MaxGen, 1..MaxGen \subseteq 0..MaxGen DEF Gens
<1> DEFINE g == LeastGen(Unused)
<1>4. g \in Unused /\ g \in Gens /\ g # 0
  BY <1>2, <1>3
<1>5. PICK s \in Slots : /\ wk[s].pc = "idle"
                         /\ wk' = [wk EXCEPT ![s] = [pc |-> "mint", job |-> j, gen |-> g]]
  BY DEF SpawnJob
<1>6. cur' = [cur EXCEPT ![j] = g]
  BY DEF SpawnJob
<1> HIDE DEF g
<1> QED
  BY <1>4, <1>5, <1>6 DEF TypeOK, WorkerPC, Spawned

LEMMA FileType ==
    ASSUME TypeOK, NEW j \in Jobs, File(j)
    PROVE  cur' \in [Jobs -> Gens] /\ arch' \in SUBSET Jobs
BY Constants DEF TypeOK, File, Gens

LEMMA InitType == Init => TypeOK
BY Constants DEF Init, TypeOK, Reg, Gens, Images, JobStates, NoReg, NoVm, IdleTask,
   IdleRec, IdleGc, WorkerPC

\* A registration changes its state and its job and keeps its id.
LEMMA RegUpdate ==
    ASSUME reg \in [Jobs -> Reg], NEW j \in Jobs, NEW st \in {"offline", "idle", "busy"},
           NEW runs \in Jobs \cup {NoJob},
           reg' = [reg EXCEPT ![j].st = st, ![j].runs = runs]
    PROVE  /\ reg' \in [Jobs -> Reg]
           /\ \A k \in Jobs : reg'[k].id = reg[k].id
<1> DEFINE f == [reg EXCEPT ![j].st = st]
<1>1. f \in [Jobs -> Reg] /\ \A k \in Jobs : f[k].id = reg[k].id
  BY DEF Reg
<1>2. reg' = [f EXCEPT ![j].runs = runs]
  BY Zenon
<1> HIDE DEF f
<1>3. reg' \in [Jobs -> Reg]
  <2>1. [f[j] EXCEPT !.runs = runs] \in Reg
    BY <1>1 DEF Reg
  <2>2. reg' = [f EXCEPT ![j] = [f[j] EXCEPT !.runs = runs]]
    BY <1>2, Zenon
  <2> QED
    BY <1>1, <2>1, <2>2
<1>4. \A k \in Jobs : reg'[k].id = f[k].id
  BY <1>1, <1>2 DEF Reg
<1> QED
  BY <1>1, <1>3, <1>4

\* What GitHub and the guests do.
LEMMA GuestType ==
    ASSUME TypeOK, NEW j \in Jobs, Enqueue(j) \/ Guest(j)
    PROVE  TypeOK'
<1> USE Constants DEF TypeOK, spool, JobStates
<1>1. CASE Enqueue(j)
  BY <1>1 DEF Enqueue
<1>2. CASE RunnerOnline(j)
  BY <1>2 DEF RunnerOnline, Reg
<1>3. CASE Steal(j)
  <2>1. reg' \in [Jobs -> Reg]
    BY <1>3, RegUpdate, "busy" \in {"offline", "idle", "busy"} DEF Steal
  <2>2. foreign' \in 0..MaxForeign
    BY <1>3 DEF Steal
  <2> QED
    BY <1>3, <2>1, <2>2 DEF Steal
<1>4. CASE JobEnds(j)
  <2>1. reg' \in [Jobs -> Reg]
    BY <1>4 DEF JobEnds, Reg, NoReg, Gens
  <2>2. job' \in [Jobs -> JobStates]
    BY <1>4 DEF JobEnds, Complete
  <2>3. spent' \in SUBSET Gens
    BY <1>4 DEF JobEnds, Reg
  <2> QED
    BY <1>4, <2>1, <2>2, <2>3 DEF JobEnds
<1>5. CASE RunnerLost(j)
  <2>1. reg' \in [Jobs -> Reg]
    BY <1>5, RegUpdate DEF RunnerLost
  <2>2. job' \in [Jobs -> JobStates]
    BY <1>5 DEF RunnerLost, Complete
  <2> QED
    BY <1>5, <2>1, <2>2 DEF RunnerLost
<1>6. ASSUME NEW k \in Jobs, Assign(j, k)
      PROVE  TypeOK'
  BY <1>6, RegUpdate DEF Assign
<1> QED
  BY <1>1, <1>2, <1>3, <1>4, <1>5, <1>6 DEF Guest

LEMMA DispatchType ==
    ASSUME TypeOK, NEW j \in Jobs, Dispatch(j)
    PROVE  TypeOK'
<1>1. cur' \in [Jobs -> Gens] /\ wk' \in [Slots -> [pc : WorkerPC, job : Jobs \cup {NoJob}, gen : Gens]]
  BY SpawnFrame DEF Dispatch, TypeOK, Spawned
<1> QED
  BY <1>1 DEF Dispatch, TypeOK, github

LEMMA RecordTypes ==
    ASSUME NEW j \in Jobs, NEW g \in Gens
    PROVE  /\ [id |-> g, st |-> "offline", runs |-> NoJob] \in Reg
           /\ NoReg \in Reg
           /\ NoVm \in [st : {"none", "up", "down"}, gen : Gens, img : Images]
           /\ IdleTask \in [pc : WorkerPC, job : Jobs \cup {NoJob}, gen : Gens]
BY Constants DEF Reg, NoReg, Gens, NoVm, Images, IdleTask, WorkerPC

LEMMA DeregisterType ==
    ASSUME TypeOK, NEW j \in Jobs, NEW id \in Gens, Deregister(j, id)
    PROVE  reg' \in [Jobs -> Reg]
BY RecordTypes, Constants DEF TypeOK, Deregister

VmSet == [st : {"none", "up", "down"}, gen : Gens, img : Images]

LEMMA VmType ==
    ASSUME TypeOK, NEW j \in Jobs,
           StopVm(j) \/ \E gone \in BOOLEAN : DeleteVm(j, gone)
    PROVE  vm' \in [Jobs -> VmSet] /\ faults' \in 0..MaxFaults
<1>0. vm \in [Jobs -> VmSet] /\ faults \in 0..MaxFaults
  BY DEF TypeOK, VmSet
<1>1. NoVm \in VmSet
  BY Constants DEF VmSet, NoVm, Gens, Images
<1>2. CASE StopVm(j)
  <2>1. vm' = [vm EXCEPT ![j].st = "down"] \/ vm' = vm
    BY <1>2 DEF StopVm
  <2>2. faults' \in 0..MaxFaults
    BY <1>0, <1>2, FaultType DEF StopVm
  <2>3. [vm[j] EXCEPT !.st = "down"] \in VmSet
    BY <1>0 DEF VmSet
  <2> QED
    BY <1>0, <2>1, <2>2, <2>3
<1>3. ASSUME NEW gone \in BOOLEAN, DeleteVm(j, gone)
      PROVE  vm' \in [Jobs -> VmSet] /\ faults' \in 0..MaxFaults
  <2>1. vm' = [vm EXCEPT ![j] = NoVm] \/ vm' = vm
    BY <1>3 DEF DeleteVm
  <2>2. faults' \in 0..MaxFaults
    BY <1>0, <1>3, FaultType DEF DeleteVm
  <2> QED
    BY <1>0, <1>1, <2>1, <2>2
<1> QED
  BY <1>2, <1>3

LEMMA WorkerType ==
    ASSUME TypeOK, WithJob, NEW s \in Slots, Worker(s)
    PROVE  TypeOK'
<1> DEFINE Tasks == [Slots -> [pc : WorkerPC, job : Jobs \cup {NoJob}, gen : Gens]]
<1>1. CASE WorkerMint(s)
  <2>1. wk' \in Tasks
    BY <1>1, GotoFrame DEF WorkerMint, WorkerPC
  <2>2. reg' \in [Jobs -> Reg] /\ faults' \in 0..MaxFaults
    <3>1. [id |-> wk[s].gen, st |-> "offline", runs |-> NoJob] \in Reg
      BY DEF TypeOK, Reg
    <3> QED
      BY <1>1, <3>1, FaultType DEF WorkerMint, TypeOK
  <2> QED
    BY <1>1, <2>1, <2>2 DEF WorkerMint, TypeOK, spool
<1>2. CASE WorkerStart(s)
  <2>1. wk' \in Tasks
    BY <1>2, GotoFrame DEF WorkerStart, WorkerPC
  <2>2. vm' \in [Jobs -> VmSet] /\ faults' \in 0..MaxFaults
    <3>1. \A st \in {"up", "down"} :
            [st |-> st, gen |-> wk[s].gen, img |-> image] \in VmSet
      BY DEF TypeOK, VmSet
    <3>2. vm \in [Jobs -> VmSet] /\ faults \in 0..MaxFaults
      BY DEF TypeOK, VmSet
    <3> QED
      BY <1>2, <3>1, <3>2, FaultType DEF WorkerStart
  <2> QED
    BY <1>2, <2>1, <2>2 DEF WorkerStart, TypeOK, VmSet, github, spool
<1>3. CASE WorkerShell(s)
  <2>1. wk' \in Tasks
    BY <1>3, GotoFrame DEF WorkerShell, WorkerPC
  <2>2. faults' \in 0..MaxFaults
    BY <1>3, FaultType DEF WorkerShell, TypeOK
  <2> QED
    BY <1>3, <2>1, <2>2 DEF WorkerShell, TypeOK, github, spool
<1>4. CASE WorkerTeardown(s)
  <2>1. wk' \in Tasks
    BY <1>4, GotoFrame DEF WorkerTeardown, WorkerPC
  <2>2. wk[s].job \in Jobs /\ wk[s].gen \in Gens
    BY <1>4 DEF WorkerTeardown, TypeOK, WithJob, Active
  <2>3. /\ reg \in [Jobs -> Reg] /\ vm \in [Jobs -> VmSet]
        /\ faults \in 0..MaxFaults
    BY DEF TypeOK, VmSet
  <2>4. reg' \in [Jobs -> Reg]
    BY <1>4, <2>2, <2>3, DeregisterType DEF WorkerTeardown
  <2>5. vm' \in [Jobs -> VmSet]
    BY <1>4, <2>2, <2>3, VmType DEF WorkerTeardown
  <2>6. faults' \in 0..MaxFaults
    BY <1>4, <2>2, <2>3, VmType, FaultType DEF WorkerTeardown
  <2> QED
    BY <1>4, <2>1, <2>4, <2>5, <2>6 DEF WorkerTeardown, TypeOK, VmSet, spool
<1>5. CASE WorkerFile(s)
  <2>1. wk' \in Tasks
    BY <1>5, RecordTypes, Constants DEF WorkerFile, TypeOK, IdleTask, WorkerPC, Gens
  <2>2. wk[s].job \in Jobs
    BY <1>5 DEF WorkerFile, TypeOK, WithJob, Active
  <2>3. cur' \in [Jobs -> Gens] /\ arch' \in SUBSET Jobs
    BY <1>5, <2>2, FileType DEF WorkerFile, TypeOK
  <2>4. faults' \in 0..MaxFaults /\ spent' \in SUBSET Gens
    BY <1>5, FaultType DEF WorkerFile, TypeOK
  <2> QED
    BY <1>5, <2>1, <2>3, <2>4 DEF WorkerFile, TypeOK
<1> QED
  BY <1>1, <1>2, <1>3, <1>4, <1>5 DEF Worker

RecSet == [pc : {"idle", "runners", "queue", "mint"}, covered : SUBSET Jobs,
           queued : SUBSET Jobs]

LEMMA ReconcileType ==
    ASSUME TypeOK, Reconcile
    PROVE  TypeOK'
<1>0. rec \in RecSet /\ (rec.pc # "mint" => rec.queued = {})
  BY DEF TypeOK, RecSet
<1>1. CASE RecBegin
  BY <1>1 DEF TypeOK, RecBegin, IdleRec, Claimed, github, spool
<1>2. CASE RecRunners
  <2>1. faults' \in 0..MaxFaults
    BY <1>2, FaultType DEF RecRunners, TypeOK
  <2>2. rec' \in RecSet /\ (rec'.pc # "mint" => rec'.queued = {})
    <3> DEFINE c == rec.covered \cup {j \in Jobs : RunnerCanServe(j)}
    <3>1. c \in SUBSET Jobs
      BY <1>0 DEF RecSet
    <3>2. \/ rec' = [rec EXCEPT !.pc = "queue", !.covered = c] /\ rec.queued = {}
          \/ rec' = IdleRec
      BY <1>0, <1>2 DEF RecRunners
    <3> HIDE DEF c
    <3>3. CASE rec' = IdleRec
      BY <3>3 DEF IdleRec, RecSet
    <3>4. CASE rec' = [rec EXCEPT !.pc = "queue", !.covered = c] /\ rec.queued = {}
      BY <1>0, <3>1, <3>4 DEF RecSet
    <3> QED
      BY <3>2, <3>3, <3>4
  <2> QED
    BY <1>2, <2>1, <2>2 DEF TypeOK, RecRunners, RecSet, github, spool
<1>3. CASE RecQueue
  <2>1. faults' \in 0..MaxFaults
    BY <1>3, FaultType DEF RecQueue, TypeOK
  <2>2. rec' \in RecSet /\ (rec'.pc # "mint" => rec'.queued = {})
    <3> DEFINE q == {j \in Jobs : job[j] = "queued"}
    <3>1. rec' = [rec EXCEPT !.pc = "mint", !.queued = q] \/ rec' = IdleRec
      BY <1>3 DEF RecQueue
    <3>2. q \in SUBSET Jobs
      OBVIOUS
    <3> HIDE DEF q
    <3>3. CASE rec' = IdleRec
      BY <3>3 DEF IdleRec, RecSet
    <3>4. CASE rec' = [rec EXCEPT !.pc = "mint", !.queued = q]
      BY <1>0, <3>2, <3>4 DEF RecSet
    <3> QED
      BY <3>1, <3>3, <3>4
  <2> QED
    BY <1>3, <2>1, <2>2 DEF TypeOK, RecQueue, RecSet, github, spool
<1>4. CASE RecEnd
  BY <1>4 DEF TypeOK, RecEnd, IdleRec, github, spool
<1>5. ASSUME NEW j \in Jobs, RecMint(j)
      PROVE  TypeOK'
  <2>1. /\ cur' \in [Jobs -> Gens]
        /\ wk' \in [Slots -> [pc : WorkerPC, job : Jobs \cup {NoJob}, gen : Gens]]
        /\ faults' \in 0..MaxFaults
    BY <1>5, SpawnFrame, FaultType DEF RecMint, TypeOK, Spawned
  <2>2. /\ rec' \in [pc : {"idle", "runners", "queue", "mint"}, covered : SUBSET Jobs,
                     queued : SUBSET Jobs]
        /\ rec'.pc = "mint"
    BY <1>5 DEF RecMint, TypeOK
  <2> QED
    BY <1>5, <2>1, <2>2 DEF RecMint, TypeOK, github
<1> QED
  BY <1>1, <1>2, <1>3, <1>4, <1>5 DEF Reconcile

GcSet == [pc : {"idle", "list", "reap", "delete", "again", "dereg"},
          known : BOOLEAN, live : SUBSET Jobs, orphans : SUBSET Jobs,
          stale : SUBSET Jobs, at : Jobs \cup {NoJob}, reaped : SUBSET Jobs,
          listed : SUBSET Listed]

LEMMA ToDeregFields ==
    ASSUME NEW doomed
    PROVE  /\ ToDereg(doomed).pc = "dereg" /\ ToDereg(doomed).listed = doomed
           /\ ToDereg(doomed).orphans = {} /\ ToDereg(doomed).stale = {}
           /\ ToDereg(doomed).reaped = {}
           /\ doomed \in SUBSET Listed => ToDereg(doomed) \in GcSet
BY DEF ToDereg, IdleGc, GcSet

\* A sweep step leaves alone what the tasks and the reconciler keep.
LEMMA SweepType ==
    ASSUME TypeOK, Sweep
    PROVE  TypeOK'
<1>0. /\ gc \in GcSet /\ vm \in [Jobs -> VmSet] /\ faults \in 0..MaxFaults
      /\ reg \in [Jobs -> Reg] /\ cur \in [Jobs -> Gens] /\ arch \in SUBSET Jobs
  BY DEF TypeOK, GcSet, VmSet
<1>1. CASE GcRead
  <2>1. gc' \in GcSet
    BY <1>1 DEF GcRead, IdleGc, GcSet, Claimed
  <2>2. faults' \in 0..MaxFaults
    BY <1>0, <1>1, FaultType DEF GcRead
  <2> QED
    BY <1>1, <2>1, <2>2 DEF GcRead, TypeOK, GcSet, github, spool
<1>2. CASE GcList
  <2>1. gc' \in GcSet
    <3>1. CASE PlanVmReaps
      BY <1>0, <3>1 DEF PlanVmReaps, GcSet, HasVm
    <3>2. CASE gc' = [gc EXCEPT !.pc = "reap"]
      BY <1>0, <3>2 DEF GcSet
    <3> QED
      BY <1>2, <3>1, <3>2 DEF GcList
  <2>2. faults' \in 0..MaxFaults
    BY <1>0, <1>2, FaultType DEF GcList
  <2> QED
    BY <1>2, <2>1, <2>2 DEF GcList, TypeOK, GcSet, github, spool
<1>3. ASSUME NEW j \in Jobs, GcStop(j)
      PROVE  TypeOK'
  <2>1. gc' \in GcSet
    BY <1>0, <1>3 DEF GcStop, GcSet
  <2>2. vm' \in [Jobs -> VmSet] /\ faults' \in 0..MaxFaults
    BY <1>3, VmType DEF GcStop
  <2> QED
    BY <1>3, <2>1, <2>2 DEF GcStop, TypeOK, GcSet, VmSet, github, spool
<1>4. CASE GcDelete
  <2> DEFINE j == gc.at
             next == [gc EXCEPT !.pc = "reap", !.at = NoJob, !.orphans = @ \ {j},
                        !.stale = @ \ {j}]
  <2>1. j \in Jobs
    BY <1>0, <1>4 DEF GcDelete, GcSet
  <2>2. next \in GcSet /\ [next EXCEPT !.reaped = @ \cup {j}] \in GcSet
    BY <1>0, <2>1 DEF GcSet
  <2>3. gc' \in GcSet
    BY <1>4, <2>2 DEF GcDelete
  <2>4. vm' \in [Jobs -> VmSet]
    <3>1. NoVm \in VmSet
      BY Constants DEF VmSet, NoVm, Gens, Images
    <3> QED
      BY <1>0, <1>4, <2>1, <3>1, VmType DEF GcDelete
  <2>5. faults' \in 0..MaxFaults
    BY <1>0, <1>4, <2>1, VmType, FaultType DEF GcDelete
  <2>6. cur' \in [Jobs -> Gens] /\ arch' \in SUBSET Jobs
    BY <1>0, <1>4, <2>1, FileType DEF GcDelete
  <2> QED
    BY <1>4, <2>3, <2>4, <2>5, <2>6 DEF GcDelete, TypeOK, GcSet, VmSet, github
<1>5. CASE GcRunners
  <2>1. gc' \in GcSet
    <3>1. Runners \in SUBSET Listed
      <4>1. ASSUME NEW j \in Jobs, NEW b \in BOOLEAN
            PROVE  [name |-> j, id |-> reg[j].id, busy |-> b] \in Listed
        BY <1>0 DEF Listed, Reg
      <4>2. \A j \in Jobs : (reg[j].st = "busy") \in BOOLEAN
        OBVIOUS
      <4> QED
        BY <4>1, <4>2, Zenon DEF Runners
    <3>2. \/ gc' = [IdleGc EXCEPT !.pc = "again", !.reaped = gc.reaped, !.listed = Runners]
          \/ gc' = ToDereg({})
      BY <1>5 DEF GcRunners
    <3>3. CASE gc' = [IdleGc EXCEPT !.pc = "again", !.reaped = gc.reaped, !.listed = Runners]
      BY <1>0, <3>1, <3>3 DEF GcSet, IdleGc
    <3>4. CASE gc' = ToDereg({})
      BY <3>4, ToDeregFields, {} \in SUBSET Listed, Zenon
    <3> QED
      BY <3>2, <3>3, <3>4
  <2>2. faults' \in 0..MaxFaults
    BY <1>0, <1>5, FaultType DEF GcRunners
  <2> QED
    BY <1>5, <2>1, <2>2 DEF GcRunners, TypeOK, GcSet, github, spool
<1>6. CASE GcAgain
  <2>1. gc' \in GcSet
    <3>1. Doomed(Claimed \ gc.reaped) \in SUBSET Listed
      BY <1>0 DEF Doomed, GcSet
    <3>2. gc' = ToDereg(Doomed(Claimed \ gc.reaped)) \/ gc' = ToDereg({})
      BY <1>6 DEF GcAgain
    <3>3. {} \in SUBSET Listed
      OBVIOUS
    <3> QED
      BY <3>1, <3>2, <3>3, ToDeregFields, Zenon
  <2>2. faults' \in 0..MaxFaults
    BY <1>0, <1>6, FaultType DEF GcAgain
  <2> QED
    BY <1>6, <2>1, <2>2 DEF GcAgain, TypeOK, GcSet, github, spool
<1>7. CASE GcDereg
  <2>1. PICK l \in gc.listed :
          /\ gc' = [gc EXCEPT !.listed = @ \ {l}]
          /\ \/ Deregister(l.name, l.id) /\ UNCHANGED faults
             \/ Fault /\ UNCHANGED reg
    BY <1>7 DEF GcDereg
  <2>2. gc' \in GcSet
    BY <1>0, <2>1 DEF GcSet
  <2>3. l.name \in Jobs /\ l.id \in Gens
    BY <1>0 DEF GcSet, Listed
  <2>4. reg' \in [Jobs -> Reg] /\ faults' \in 0..MaxFaults
    BY <1>0, <2>1, <2>3, DeregisterType, FaultType
  <2> QED
    BY <1>7, <2>2, <2>4 DEF GcDereg, TypeOK, GcSet, spool
<1>8. CASE GcEnd
  <2>1. gc' \in GcSet
    BY <1>8 DEF GcEnd, IdleGc, GcSet
  <2> QED
    BY <1>8, <2>1 DEF GcEnd, TypeOK, GcSet, github, spool
<1>9. CASE GcAbort
  <2>1. faults' \in 0..MaxFaults
    BY <1>9, FaultType DEF GcAbort
  <2> QED
    BY <1>9, <2>1 DEF GcAbort, TypeOK, github, spool
<1> QED
  BY <1>1, <1>2, <1>3, <1>4, <1>5, <1>6, <1>7, <1>8, <1>9 DEF Sweep

LEMMA RestartType ==
    ASSUME TypeOK, Crash \/ ReapVms \/ RefileClaims
    PROVE  TypeOK'
<1>1. CASE Crash
  <2>1. /\ wk' \in [Slots -> [pc : WorkerPC, job : Jobs \cup {NoJob}, gen : Gens]]
        /\ rec' \in [pc : {"idle", "runners", "queue", "mint"}, covered : SUBSET Jobs,
                     queued : SUBSET Jobs]
        /\ rec'.queued = {}
        /\ gc' \in GcSet
    BY <1>1, Constants DEF Crash, IdleTask, IdleRec, IdleGc, GcSet, WorkerPC, Gens
  <2>2. image' \in Images /\ crashes' \in 0..MaxCrash
    BY <1>1, Constants DEF Crash, TypeOK, Images
  <2> QED
    BY <1>1, <2>1, <2>2 DEF Crash, TypeOK, GcSet, spool
<1>2. CASE ReapVms
  <2>1. vm' \in [Jobs -> VmSet] /\ failed' \in SUBSET Jobs
    <3>1. /\ NoVm \in VmSet
          /\ \A v \in VmSet : [v EXCEPT !.st = "down"] \in VmSet
      BY Constants DEF VmSet, NoVm, Gens, Images
    <3>2. /\ vm \in [Jobs -> VmSet] /\ failed \in SUBSET Jobs
          /\ \A j \in Jobs : vm[j] \in VmSet
      BY DEF TypeOK, VmSet
    <3> QED
      BY <1>2, <3>1, <3>2 DEF ReapVms, HasVm
  <2>2. faults' \in 0..MaxFaults /\ stage' \in {"refile", "sweep"}
    BY <1>2, FaultType DEF ReapVms, TypeOK
  <2> QED
    BY <1>2, <2>1, <2>2 DEF ReapVms, TypeOK, VmSet, github, spool
<1>3. CASE RefileClaims
  <2>1. cur' \in [Jobs -> Gens] /\ arch' \in SUBSET Jobs /\ faults' \in 0..MaxFaults
    BY <1>3, FaultType, Constants DEF RefileClaims, TypeOK, Claimed, Gens
  <2> QED
    BY <1>3, <2>1 DEF RefileClaims, TypeOK, github
<1> QED
  BY <1>1, <1>2, <1>3

LEMMA ExpireType ==
    ASSUME TypeOK, NEW j \in Jobs, GcExpire(j)
    PROVE  TypeOK'
BY FileType DEF GcExpire, TypeOK, github

\* A task takes its job with its claim and drops it when it ends.
LEMMA WithJobStep ==
    ASSUME TypeOK, WithJob, [Next]_vars
    PROVE  WithJob'
<1>1. CASE UNCHANGED wk
  BY <1>1 DEF WithJob, Active
<1>2. ASSUME NEW j \in Jobs, SpawnJob(j)
      PROVE  WithJob'
  <2>1. PICK s \in Slots, g \in Gens : Spawned(j, s, g)
    BY <1>2, SpawnFrame
  <2> QED
    BY <2>1 DEF Spawned, WithJob, Active
<1>3. ASSUME NEW s \in Slots, Worker(s)
      PROVE  WithJob'
  <2>1. CASE WorkerFile(s)
    BY <2>1 DEF WorkerFile, IdleTask, TypeOK, WithJob, Active
  <2>2. ASSUME NEW pc \in WorkerPC, Goto(s, pc), Active(s)
        PROVE  WithJob'
    BY <2>2, GotoFrame DEF WithJob, Active
  <2> QED
    BY <1>3, <2>1, <2>2
    DEF Worker, WorkerMint, WorkerStart, WorkerShell, WorkerTeardown, WorkerPC, Active
<1>4. CASE Crash
  BY <1>4 DEF Crash, IdleTask, WithJob, Active
<1> QED
  BY <1>1, <1>2, <1>3, <1>4
  DEF Next, vars, Enqueue, Guest, RunnerOnline, Steal, JobEnds, RunnerLost, Assign,
      Dispatch, GcExpire, Reconcile, RecBegin, RecRunners, RecQueue, RecEnd, RecMint,
      Sweep, GcAbort, GcRead, GcList, GcStop, GcDelete, GcRunners, GcAgain, GcDereg,
      GcEnd, ReapVms, RefileClaims

LEMMA TypeStep ==
    ASSUME TypeOK, WithJob, [Next]_vars
    PROVE  TypeOK'
<1>1. CASE UNCHANGED vars
  BY <1>1 DEF vars, TypeOK
<1>2. CASE Next
  BY <1>2, GuestType, DispatchType, ExpireType, WorkerType, ReconcileType, SweepType,
     RestartType
  DEF Next
<1> QED
  BY <1>1, <1>2

LEMMA TypedAlways == Spec => [](TypeOK /\ WithJob)
<1>1. Init => TypeOK /\ WithJob
  BY InitType DEF Init, WithJob, Active, IdleTask
<1>2. TypeOK /\ WithJob /\ [Next]_vars => (TypeOK /\ WithJob)'
  BY TypeStep, WithJobStep
<1> QED
  BY <1>1, <1>2, PTL DEF Spec

\* Type correctness.  It takes WithJob: a task that filed a claim without
\* having a job would put something else into the archive.
THEOREM TypeCorrect == Spec => []TypeOK
BY TypedAlways, PTL
-----------------------------------------------------------------------------
(* Claims. *)

\* All that may happen to the tasks and their claims when no VM is stale.
TaskStep ==
    \/ UNCHANGED <<wk, cur>>
    \/ \E j \in Jobs : stage = "run" /\ cur[j] = 0 /\ SpawnJob(j)
    \/ \E s \in Slots : \E pc \in WorkerPC \ {"idle"} :
         Active(s) /\ Goto(s, pc) /\ UNCHANGED cur
    \/ \E s \in Slots : WorkerFile(s)
    \/ \E j \in Jobs : GcExpire(j)
    \/ Crash
    \/ RefileClaims

LEMMA TaskSteps ==
    ASSUME TypeOK, Stages, gc.stale = {}, [Next]_vars
    PROVE  TaskStep
<1>1. ASSUME NEW s \in Slots, Worker(s)
      PROVE  TaskStep
  <2>1. CASE WorkerFile(s)
    BY <2>1 DEF TaskStep
  <2>2. CASE WorkerMint(s)
    BY <2>2 DEF WorkerMint, TaskStep, Active, WorkerPC, spool
  <2>3. CASE WorkerStart(s)
    BY <2>3 DEF WorkerStart, TaskStep, Active, WorkerPC, spool
  <2>4. CASE WorkerShell(s)
    BY <2>4 DEF WorkerShell, TaskStep, Active, WorkerPC, spool
  <2>5. CASE WorkerTeardown(s)
    BY <2>5 DEF WorkerTeardown, TaskStep, Active, WorkerPC, spool
  <2> QED
    BY <1>1, <2>1, <2>2, <2>3, <2>4, <2>5 DEF Worker
<1>2. ASSUME NEW j \in Jobs, Dispatch(j)
      PROVE  TaskStep
  BY <1>2 DEF Dispatch, TaskStep
<1>3. CASE Reconcile
  <2>1. ASSUME NEW j \in Jobs, RecMint(j)
        PROVE  TaskStep
    BY <2>1 DEF RecMint, TaskStep, Stages, TypeOK
  <2> QED
    BY <1>3, <2>1
    DEF Reconcile, RecBegin, RecRunners, RecQueue, RecEnd, TaskStep, spool
<1>4. CASE Sweep
  <2>1. CASE GcDelete
    BY <2>1 DEF GcDelete, TaskStep
  <2> QED
    BY <1>4, <2>1
    DEF Sweep, GcAbort, GcRead, GcList, GcStop, GcRunners, GcAgain, GcDereg, GcEnd,
        TaskStep, spool
<1>5. ASSUME NEW j \in Jobs, Enqueue(j) \/ Guest(j)
      PROVE  TaskStep
  BY <1>5
  DEF Enqueue, Guest, RunnerOnline, Steal, JobEnds, RunnerLost, Assign, TaskStep, spool
<1>6. CASE ReapVms
  BY <1>6 DEF ReapVms, TaskStep, spool
<1>7. CASE UNCHANGED vars
  BY <1>7 DEF vars, TaskStep
<1> QED
  BY <1>1, <1>2, <1>3, <1>4, <1>5, <1>6, <1>7 DEF Next, TaskStep

\* Nobody takes a claim away from its task: a new claim is for a job without
\* one, the collector expires only claims that no task holds, and the startup
\* reap runs when there are no tasks.
LEMMA ClaimStep ==
    ASSUME TypeOK, WithJob, Owned, LiveClaimed, Stages, TaskStep
    PROVE  Owned' /\ LiveClaimed'
<1> USE DEF Owned, LiveClaimed, Active
<1>1. CASE UNCHANGED <<wk, cur>>
  BY <1>1
<1>2. ASSUME NEW j \in Jobs, cur[j] = 0, SpawnJob(j)
      PROVE  Owned' /\ LiveClaimed'
  <2>1. PICK s \in Slots, g \in Gens : Spawned(j, s, g)
    BY <1>2, SpawnFrame
  <2>2. \A t \in Slots : wk[t].gen # g
    BY <2>1 DEF Spawned, Unused
  <2>3. \A t \in Slots : Active(t) => wk[t].job # j
    BY <1>2
  <2>4. Owned'
    BY <2>1, <2>2 DEF Spawned
  <2>5. LiveClaimed'
    BY <1>2, <2>1, <2>3 DEF TypeOK, WithJob, Spawned
  <2> QED
    BY <2>4, <2>5
<1>3. ASSUME NEW s \in Slots, NEW pc \in WorkerPC, Active(s), Goto(s, pc), UNCHANGED cur
      PROVE  Owned' /\ LiveClaimed'
  BY <1>3, GotoFrame
<1>4. ASSUME NEW s \in Slots, WorkerFile(s)
      PROVE  Owned' /\ LiveClaimed'
  <2>1. /\ wk'[s] = IdleTask
        /\ \A t \in Slots : t # s => wk'[t] = wk[t]
    BY <1>4 DEF WorkerFile, TypeOK
  <2>2. \A t \in Slots : t # s /\ Active(t) => wk[t].job # wk[s].job
    BY <1>4 DEF WorkerFile
  <2>3. \A j \in Jobs : j # wk[s].job => cur'[j] = cur[j]
    BY <1>4 DEF WorkerFile, File, TypeOK
  <2>4. Owned'
    BY <2>1 DEF IdleTask
  <2>5. LiveClaimed'
    BY <2>1, <2>2, <2>3 DEF IdleTask, WithJob
  <2> QED
    BY <2>4, <2>5
<1>5. ASSUME NEW j \in Jobs, GcExpire(j)
      PROVE  Owned' /\ LiveClaimed'
  <2>1. UNCHANGED wk /\ \A t \in Slots : Active(t) => wk[t].job # j
    BY <1>5 DEF GcExpire
  <2>2. \A i \in Jobs : i # j => cur'[i] = cur[i]
    BY <1>5 DEF GcExpire, File, TypeOK
  <2> QED
    BY <2>1, <2>2 DEF WithJob
<1>6. CASE Crash
  BY <1>6 DEF Crash, IdleTask
<1>7. CASE RefileClaims
  BY <1>7 DEF RefileClaims, Stages
<1> QED
  BY <1>1, <1>2, <1>3, <1>4, <1>5, <1>6, <1>7 DEF TaskStep

\* Only a process that is past its first sweep dispatches and reconciles.
LEMMA StagesStep ==
    ASSUME TypeOK, Stages, gc.stale = {}, [Next]_vars
    PROVE  Stages'
<1>1. ASSUME NEW s \in Slots, Worker(s)
      PROVE  Stages'
  BY <1>1 DEF Worker, WorkerMint, WorkerStart, WorkerShell, WorkerTeardown, WorkerFile,
     Stages, Active
<1>2. ASSUME NEW j \in Jobs, Dispatch(j)
      PROVE  Stages'
  BY <1>2 DEF Dispatch, Stages
<1>3. CASE Reconcile
  BY <1>3 DEF Reconcile, RecBegin, RecRunners, RecQueue, RecEnd, RecMint, Stages
<1>4. CASE Sweep
  BY <1>4 DEF Sweep, GcAbort, GcRead, GcList, GcStop, GcDelete, GcRunners, GcAgain,
     GcDereg, GcEnd, Stages, Active
<1>5. ASSUME NEW j \in Jobs, Enqueue(j) \/ Guest(j) \/ GcExpire(j)
      PROVE  Stages'
  BY <1>5 DEF Enqueue, Guest, RunnerOnline, Steal, JobEnds, RunnerLost, Assign, GcExpire,
     Stages, Active
<1>6. CASE Crash
  BY <1>6 DEF Crash, IdleRec, IdleTask, Stages, Active
<1>7. CASE ReapVms \/ RefileClaims
  BY <1>7 DEF ReapVms, RefileClaims, Stages, Active
<1>8. CASE UNCHANGED vars
  BY <1>8 DEF vars, Stages, Active
<1> QED
  BY <1>1, <1>2, <1>3, <1>4, <1>5, <1>6, <1>7, <1>8 DEF Next

LEMMA ImageStep ==
    ASSUME Rebuilds = FALSE, TypeOK, WithJob, OneImage, [Next]_vars
    PROVE  OneImage'
<1> DEFINE OneVm(v) == \A j \in Jobs : v[j].img = "old"
<1> USE DEF OneImage
<1>1. ASSUME NEW j \in Jobs, StopVm(j)
      PROVE  OneVm(vm')
  BY <1>1 DEF StopVm, TypeOK
<1>2. ASSUME NEW j \in Jobs, NEW gone \in BOOLEAN, DeleteVm(j, gone)
      PROVE  OneVm(vm')
  BY <1>2 DEF DeleteVm, TypeOK, NoVm
<1>3. ASSUME NEW s \in Slots, Worker(s)
      PROVE  OneImage'
  <2>1. CASE WorkerStart(s)
    <3>1. UNCHANGED <<gc, image>>
      BY <2>1 DEF WorkerStart
    <3>2. PICK j \in Jobs, st \in {"up", "down"} :
             \/ vm' = vm
             \/ vm' = [vm EXCEPT ![j] = [st |-> st, gen |-> wk[s].gen, img |-> image]]
      <4>1. wk[s].job \in Jobs
        BY <2>1 DEF WorkerStart, WithJob, Active
      <4> QED
        BY <2>1, <4>1 DEF WorkerStart
    <3>3. OneVm(vm')
      BY <3>2 DEF TypeOK
    <3> QED
      BY <3>1, <3>3
  <2>2. CASE WorkerTeardown(s)
    <3>1. wk[s].job \in Jobs
      BY <2>2 DEF WorkerTeardown, WithJob, Active
    <3>2. OneVm(vm')
      BY <1>1, <1>2, <2>2, <3>1 DEF WorkerTeardown
    <3> QED
      BY <2>2, <3>2 DEF WorkerTeardown
  <2> QED
    BY <1>3, <2>1, <2>2 DEF Worker, WorkerMint, WorkerShell, WorkerFile
<1>4. CASE Sweep
  <2>1. CASE GcRead
    BY <2>1 DEF GcRead, IdleGc
  <2>2. CASE GcList
    <3> DEFINE stale == IF gc.known THEN {j \in HasVm \cap gc.live : vm[j].img # image}
                       ELSE {}
               orphans == IF gc.known THEN HasVm \ gc.live ELSE {}
    <3>1. stale = {}
      BY DEF HasVm
    <3>2. \/ gc' = [gc EXCEPT !.pc = "reap", !.orphans = orphans, !.stale = stale]
          \/ gc' = [gc EXCEPT !.pc = "reap"]
      BY <2>2 DEF GcList, PlanVmReaps
    <3> HIDE DEF stale, orphans
    <3>3. gc'.stale = {} /\ gc'.reaped = {}
      BY <3>1, <3>2 DEF TypeOK
    <3> QED
      BY <2>2, <3>3 DEF GcList
  <2>3. ASSUME NEW j \in Jobs, GcStop(j)
        PROVE  OneImage'
    BY <1>1, <2>3 DEF GcStop, TypeOK
  <2>4. CASE GcDelete
    <3>1. gc.at \in Jobs
      BY <2>4 DEF GcDelete, TypeOK
    <3>2. OneVm(vm')
      BY <1>2, <2>4, <3>1 DEF GcDelete
    <3> QED
      BY <2>4, <3>2 DEF GcDelete, TypeOK
  <2>5. CASE GcRunners \/ GcAgain \/ GcDereg
    <3>1. gc'.stale = {} /\ gc'.reaped = {}
      <4>1. CASE GcRunners
        BY <4>1, ToDeregFields DEF GcRunners, IdleGc, TypeOK
      <4>2. CASE GcAgain
        <5>1. \E doomed : gc' = ToDereg(doomed)
          BY <4>2 DEF GcAgain
        <5> QED
          BY <5>1, ToDeregFields
      <4>3. CASE GcDereg
        BY <4>3 DEF GcDereg, TypeOK
      <4> QED
        BY <2>5, <4>1, <4>2, <4>3
    <3> QED
      BY <2>5, <3>1 DEF GcRunners, GcAgain, GcDereg
  <2>6. CASE GcEnd \/ GcAbort
    BY <2>6 DEF GcEnd, IdleGc, GcAbort
  <2> QED
    BY <1>4, <2>1, <2>2, <2>3, <2>4, <2>5, <2>6 DEF Sweep
<1>5. CASE Crash
  BY <1>5 DEF Crash, IdleGc
<1>6. CASE ReapVms
  <2>1. OneVm(vm')
    BY <1>6 DEF ReapVms, NoVm, TypeOK
  <2> QED
    BY <1>6, <2>1 DEF ReapVms
<1>7. CASE RefileClaims
  BY <1>7 DEF RefileClaims
<1>8. ASSUME NEW j \in Jobs, Enqueue(j) \/ Guest(j) \/ Dispatch(j) \/ GcExpire(j)
      PROVE  OneImage'
  BY <1>8 DEF Enqueue, Guest, RunnerOnline, Steal, JobEnds, RunnerLost, Assign, Dispatch,
     GcExpire
<1>9. CASE Reconcile
  BY <1>9 DEF Reconcile, RecBegin, RecRunners, RecQueue, RecEnd, RecMint
<1>10. CASE UNCHANGED vars
  BY <1>10 DEF vars
<1> QED
  BY <1>3, <1>4, <1>5, <1>6, <1>7, <1>8, <1>9, <1>10 DEF Next

LEMMA ClaimInvStep ==
    ASSUME Rebuilds = FALSE, ClaimInv, [Next]_vars
    PROVE  ClaimInv'
<1>1. gc.stale = {}
  BY DEF ClaimInv, OneImage
<1> QED
  BY <1>1, TypeStep, WithJobStep, ImageStep, StagesStep, TaskSteps, ClaimStep DEF ClaimInv

LEMMA ClaimInvAlways ==
    ASSUME Rebuilds = FALSE
    PROVE  Spec => []ClaimInv
<1>1. Init => ClaimInv
  BY InitType DEF Init, ClaimInv, WithJob, Active, IdleTask, Owned, Stages, OneImage, NoVm,
     IdleGc, LiveClaimed
<1>2. ClaimInv /\ [Next]_vars => ClaimInv'
  BY ClaimInvStep
<1> QED
  BY <1>1, <1>2, PTL DEF Spec

\* While the image stays what it is, a job task's claim is in cur/ until the
\* task files it: neither expire_stale_cur, the sweep, the reconciler's synthetic
\* claims nor the startup reap takes or replaces it.
THEOREM ClaimsStayWithTheirTasks ==
    ASSUME Rebuilds = FALSE
    PROVE  Spec => []LiveClaimed
<1>1. ClaimInv => LiveClaimed
  BY DEF ClaimInv
<1> QED
  BY <1>1, ClaimInvAlways, PTL
-----------------------------------------------------------------------------
(* Runner registrations. *)

\* Two tasks never have the same job, as its one claim has one generation.
LEMMA JobsApart ==
    ASSUME ClaimInv, NEW s \in Slots, NEW t \in Slots, Active(s), Active(t), s # t
    PROVE  wk[s].job # wk[t].job
BY DEF ClaimInv, Owned, LiveClaimed, Active

\* A step that leaves the tasks' registrations, the runner pass and the tasks
\* that have got that far alone.
LEMMA RunnerFrame ==
    ASSUME RunnerInv, UNCHANGED <<spent, wk, gc>>, WithJob,
           \A j \in Jobs : reg'[j].id = reg[j].id
    PROVE  RunnerInv'
BY DEF RunnerInv, RunnerPass, LiveRunnerSpared, WithJob, Active

LEMMA RunnerGuestStep ==
    ASSUME ClaimInv, RunnerInv, NEW j \in Jobs, Enqueue(j) \/ Guest(j)
    PROVE  RunnerInv'
<1>0. TypeOK /\ WithJob
  BY DEF ClaimInv
<1>1. CASE Enqueue(j)
  BY <1>0, <1>1, RunnerFrame DEF Enqueue
<1>2. CASE RunnerOnline(j)
  <2>1. \A i \in Jobs : reg'[i].id = reg[i].id
    BY <1>0, <1>2 DEF RunnerOnline, TypeOK, Reg
  <2> QED
    BY <1>0, <1>2, <2>1, RunnerFrame DEF RunnerOnline
<1>3. CASE Steal(j)
  <2>1. \A i \in Jobs : reg'[i].id = reg[i].id
    BY <1>0, <1>3, RegUpdate, "busy" \in {"offline", "idle", "busy"} DEF Steal, TypeOK
  <2> QED
    BY <1>0, <1>3, <2>1, RunnerFrame DEF Steal
<1>4. CASE JobEnds(j)
  <2>1. RunnerPass'
    BY <1>4 DEF JobEnds, RunnerInv, RunnerPass, Active
  <2>2. \A i \in Jobs : i # j => reg'[i] = reg[i]
    BY <1>0, <1>4 DEF JobEnds, TypeOK
  <2>3. \A s \in Slots : reg[j].id = wk[s].gen => wk[s].gen \in spent'
    BY <1>4 DEF JobEnds
  <2>4. UNCHANGED wk /\ spent \subseteq spent'
    BY <1>4 DEF JobEnds
  <2>5. LiveRunnerSpared'
    BY <1>0, <2>2, <2>3, <2>4 DEF RunnerInv, LiveRunnerSpared, WithJob, Active
  <2> QED
    BY <2>1, <2>5 DEF RunnerInv
<1>5. CASE RunnerLost(j)
  <2>1. \A i \in Jobs : reg'[i].id = reg[i].id
    BY <1>0, <1>5, RegUpdate, "offline" \in {"offline", "idle", "busy"}
    DEF RunnerLost, TypeOK
  <2> QED
    BY <1>0, <1>5, <2>1, RunnerFrame DEF RunnerLost
<1>6. ASSUME NEW k \in Jobs, Assign(j, k)
      PROVE  RunnerInv'
  <2>1. \A i \in Jobs : reg'[i].id = reg[i].id
    BY <1>0, <1>6, RegUpdate, "busy" \in {"offline", "idle", "busy"} DEF Assign, TypeOK
  <2> QED
    BY <1>0, <1>6, <2>1, RunnerFrame DEF Assign
<1> QED
  BY <1>1, <1>2, <1>3, <1>4, <1>5, <1>6 DEF Guest

\* A new task's generation is not one that the collector is about to delete.
LEMMA RunnerSpawnStep ==
    ASSUME ClaimInv, RunnerInv, NEW j \in Jobs, SpawnJob(j), UNCHANGED <<github, gc>>
    PROVE  RunnerInv'
<1>1. PICK s \in Slots, g \in Gens : Spawned(j, s, g)
  BY SpawnFrame DEF ClaimInv
<1>2. \A l \in gc.listed : l.id # g
  BY <1>1 DEF Spawned, Unused
<1>3. RunnerPass'
  BY <1>1, <1>2 DEF Spawned, RunnerInv, RunnerPass, Active, github
<1>4. LiveRunnerSpared'
  BY <1>1 DEF Spawned, RunnerInv, LiveRunnerSpared, github
<1> QED
  BY <1>3, <1>4 DEF RunnerInv

\* A task changes only its own registration.
LEMMA RunnerWorkerStep ==
    ASSUME ClaimInv, RunnerInv, NEW s \in Slots, Worker(s)
    PROVE  RunnerInv'
<1>0. TypeOK /\ WithJob /\ RunnerPass /\ LiveRunnerSpared
  BY DEF ClaimInv, RunnerInv
<1>1. Active(s)
  BY DEF Worker, WorkerMint, WorkerStart, WorkerShell, WorkerTeardown, WorkerFile, Active
<1>2. \A t \in Slots : t # s /\ Active(t) =>
        /\ wk[t].job # wk[s].job /\ wk[t].gen # wk[s].gen
        /\ wk[t].job \in Jobs
  BY <1>1, JobsApart DEF ClaimInv, Owned, WithJob
<1>3. ASSUME NEW pc \in WorkerPC, Goto(s, pc), UNCHANGED <<spent, gc>>,
             \A j \in Jobs : j # wk[s].job => reg'[j] = reg[j],
             pc \in {"start", "shell"} =>
               wk[s].gen \in spent \/ reg'[wk[s].job].id = wk[s].gen
      PROVE  RunnerInv'
  <2>1. /\ wk'[s].pc = pc
        /\ \A t \in Slots : /\ wk'[t].job = wk[t].job /\ wk'[t].gen = wk[t].gen
                            /\ t # s => wk'[t].pc = wk[t].pc
    BY <1>0, <1>3, GotoFrame
  <2>2. RunnerPass'
    BY <1>0, <1>1, <1>3, <2>1 DEF RunnerPass, Active
  <2>3. LiveRunnerSpared'
    BY <1>0, <1>2, <1>3, <2>1 DEF LiveRunnerSpared, Active
  <2> QED
    BY <2>2, <2>3 DEF RunnerInv
<1>4. CASE WorkerMint(s)
  <2>1. /\ \A j \in Jobs : j # wk[s].job => reg'[j] = reg[j]
        /\ \/ Goto(s, "start") /\ reg'[wk[s].job].id = wk[s].gen
           \/ Goto(s, "file")
    BY <1>0, <1>1, <1>4 DEF WorkerMint, TypeOK, WithJob
  <2> QED
    BY <1>3, <1>4, <2>1 DEF WorkerMint, WorkerPC
<1>5. CASE WorkerStart(s)
  BY <1>0, <1>3, <1>5 DEF WorkerStart, WorkerPC, LiveRunnerSpared, github
<1>6. CASE WorkerShell(s)
  BY <1>0, <1>3, <1>6 DEF WorkerShell, WorkerPC, github
<1>7. CASE WorkerTeardown(s)
  <2>1. \A j \in Jobs : j # wk[s].job => reg'[j] = reg[j]
    BY <1>0, <1>7 DEF WorkerTeardown, Deregister, TypeOK
  <2> QED
    BY <1>3, <1>7, <2>1 DEF WorkerTeardown, WorkerPC
<1>8. CASE WorkerFile(s)
  <2>1. /\ wk'[s] = IdleTask
        /\ \A t \in Slots : t # s => wk'[t] = wk[t]
    BY <1>0, <1>8 DEF WorkerFile, TypeOK
  <2>2. RunnerPass'
    BY <1>0, <1>8, <2>1 DEF WorkerFile, RunnerPass, Active, IdleTask
  <2>3. LiveRunnerSpared'
    BY <1>0, <1>2, <1>8, <2>1 DEF WorkerFile, LiveRunnerSpared, Active, IdleTask
  <2> QED
    BY <2>2, <2>3 DEF RunnerInv
<1> QED
  BY <1>4, <1>5, <1>6, <1>7, <1>8 DEF Worker

\* The collector dooms only runners without a claim, on a read of cur/ that is
\* later than its list of runners, and deletes them by id.
LEMMA RunnerSweepStep ==
    ASSUME ClaimInv, RunnerInv, Sweep
    PROVE  RunnerInv'
<1>0. TypeOK /\ WithJob /\ RunnerPass /\ LiveRunnerSpared /\ LiveClaimed /\ OneImage /\ Owned
  BY DEF ClaimInv, RunnerInv
<1>1. ASSUME UNCHANGED <<reg, spent, wk>>
      PROVE  LiveRunnerSpared'
  BY <1>0, <1>1 DEF LiveRunnerSpared
<1>2. ASSUME UNCHANGED <<reg, spent, wk>>, gc'.listed = {}
      PROVE  RunnerInv'
  BY <1>1, <1>2 DEF RunnerInv, RunnerPass
<1>3. CASE GcRead
  BY <1>2, <1>3 DEF GcRead, IdleGc, github
<1>4. CASE GcList
  <2>1. gc'.listed = gc.listed
    BY <1>0, <1>4 DEF GcList, PlanVmReaps, TypeOK
  <2> QED
    BY <1>0, <1>2, <1>4, <2>1 DEF GcList, RunnerPass, github
<1>5. ASSUME NEW j \in Jobs, GcStop(j)
      PROVE  RunnerInv'
  <2>1. gc'.listed = gc.listed
    BY <1>0, <1>5 DEF GcStop, TypeOK
  <2> QED
    BY <1>0, <1>2, <1>5, <2>1 DEF GcStop, RunnerPass, github
<1>6. CASE GcDelete
  <2>1. gc'.listed = gc.listed
    BY <1>0, <1>6 DEF GcDelete, TypeOK
  <2> QED
    BY <1>0, <1>2, <1>6, <2>1 DEF GcDelete, RunnerPass, github
<1>7. CASE GcRunners
  <2>1. UNCHANGED <<reg, spent, wk>>
    BY <1>7 DEF GcRunners, github
  <2>2. gc'.pc = "again" \/ gc'.listed = {}
    BY <1>0, <1>7, ToDeregFields DEF GcRunners, IdleGc, TypeOK
  <2> QED
    BY <1>1, <1>2, <2>1, <2>2 DEF RunnerInv, RunnerPass
<1>8. CASE GcAgain
  <2>1. UNCHANGED <<reg, spent, wk>>
    BY <1>8 DEF GcAgain, github
  <2>2. gc'.listed = {} \/ gc' = ToDereg(Doomed(Claimed \ gc.reaped))
    BY <1>8, ToDeregFields DEF GcAgain
  <2>3. ASSUME NEW t \in Slots, Active(t)
        PROVE  wk[t].job \in Claimed \ gc.reaped
    BY <1>0, <2>3 DEF Claimed, LiveClaimed, OneImage, Owned, WithJob, Active
  <2>4. CASE gc' = ToDereg(Doomed(Claimed \ gc.reaped))
    <3>1. gc'.pc = "dereg" /\ gc'.listed = Doomed(Claimed \ gc.reaped)
      BY <2>4, ToDeregFields
    <3>2. \A l \in gc'.listed : l.name \notin Claimed \ gc.reaped
      BY <3>1 DEF Doomed
    <3>3. RunnerPass'
      BY <2>1, <2>3, <3>1, <3>2 DEF RunnerPass, Active
    <3> QED
      BY <1>1, <2>1, <3>3 DEF RunnerInv
  <2> QED
    BY <1>2, <2>1, <2>2, <2>4
<1>9. CASE GcDereg
  <2>1. PICK l \in gc.listed :
          /\ gc' = [gc EXCEPT !.listed = @ \ {l}]
          /\ Deregister(l.name, l.id) \/ UNCHANGED reg
    BY <1>9 DEF GcDereg
  <2>2. UNCHANGED <<spent, wk>> /\ gc.pc = "dereg"
    BY <1>9 DEF GcDereg
  <2>3. gc'.pc = "dereg" /\ gc'.listed \subseteq gc.listed
    BY <1>0, <2>1, <2>2 DEF TypeOK
  <2>4. RunnerPass'
    BY <1>0, <2>2, <2>3 DEF RunnerPass, Active
  <2>5. \A t \in Slots : Active(t) => wk[t].job # l.name \/ wk[t].gen # l.id
    BY <1>0, <2>2 DEF RunnerPass
  <2>6. \A j \in Jobs : reg'[j] = reg[j] \/ (j = l.name /\ reg[j].id = l.id)
    BY <1>0, <2>1 DEF Deregister, TypeOK
  <2>7. LiveRunnerSpared'
    BY <1>0, <2>2, <2>5, <2>6 DEF LiveRunnerSpared, WithJob, Active
  <2> QED
    BY <2>4, <2>7 DEF RunnerInv
<1>10. CASE GcEnd
  BY <1>2, <1>10 DEF GcEnd, IdleGc, github
<1>11. CASE GcAbort
  BY <1>0, <1>2, <1>11 DEF GcAbort, RunnerPass, github
<1> QED
  BY <1>3, <1>4, <1>5, <1>6, <1>7, <1>8, <1>9, <1>10, <1>11 DEF Sweep

LEMMA RunnerStep ==
    ASSUME ClaimInv, RunnerInv, [Next]_vars
    PROVE  RunnerInv'
<1>1. ASSUME UNCHANGED <<reg, spent, wk, gc>>
      PROVE  RunnerInv'
  BY <1>1 DEF RunnerInv, RunnerPass, LiveRunnerSpared, Active
<1>2. ASSUME NEW j \in Jobs, Dispatch(j)
      PROVE  RunnerInv'
  BY <1>1, <1>2, RunnerSpawnStep DEF Dispatch, github
<1>3. CASE Reconcile
  <2>1. ASSUME NEW j \in Jobs, RecMint(j)
        PROVE  RunnerInv'
    BY <1>1, <2>1, RunnerSpawnStep DEF RecMint, github
  <2> QED
    BY <1>1, <1>3, <2>1 DEF Reconcile, RecBegin, RecRunners, RecQueue, RecEnd, github
<1>4. ASSUME NEW j \in Jobs, GcExpire(j)
      PROVE  RunnerInv'
  BY <1>1, <1>4 DEF GcExpire, github
<1>5. CASE Crash
  BY <1>5 DEF Crash, IdleTask, IdleGc, RunnerInv, RunnerPass, LiveRunnerSpared
<1>6. CASE ReapVms \/ RefileClaims
  BY <1>1, <1>6 DEF ReapVms, RefileClaims, github
<1>7. CASE UNCHANGED vars
  BY <1>1, <1>7 DEF vars
<1> QED
  BY <1>2, <1>3, <1>4, <1>5, <1>6, <1>7, RunnerGuestStep, RunnerWorkerStep,
     RunnerSweepStep
  DEF Next

\* While the image stays what it is, a job task's registration stays until its
\* runner has run a job or the task deletes it: the sweep's runner pass deletes
\* no runner of a task, however its reads of cur/ and of GitHub's list fall
\* between the task's steps.
THEOREM RunnersStayWithTheirTasks ==
    ASSUME Rebuilds = FALSE
    PROVE  Spec => []LiveRunnerSpared
<1>1. Init => RunnerInv
  BY DEF Init, IdleTask, IdleGc, RunnerInv, RunnerPass, LiveRunnerSpared
<1>2. ClaimInv /\ RunnerInv /\ [Next]_vars => RunnerInv'
  BY RunnerStep
<1>3. RunnerInv => LiveRunnerSpared
  BY DEF RunnerInv
<1> QED
  BY <1>1, <1>2, <1>3, ClaimInvAlways, PTL DEF Spec
-----------------------------------------------------------------------------
(* VMs. *)

\* stop and delete, by name, touch one VM.
LEMMA VmFrame ==
    ASSUME TypeOK, NEW j \in Jobs,
           StopVm(j) \/ \E gone \in BOOLEAN : DeleteVm(j, gone)
    PROVE  \A i \in Jobs : i # j => vm'[i] = vm[i]
BY DEF TypeOK, StopVm, DeleteVm

\* The plan is made of what is not in the read of cur/, and shrinks.
LEMMA VmPassStep ==
    ASSUME ClaimInv, VmPass, [Next]_vars
    PROVE  VmPass'
<1>0. TypeOK /\ OneImage
  BY DEF ClaimInv
<1>1. ASSUME UNCHANGED gc
      PROVE  VmPass'
  BY <1>1 DEF VmPass
<1>2. ASSUME gc'.orphans = {}
      PROVE  VmPass'
  BY <1>2 DEF VmPass
<1>3. ASSUME gc'.live = gc.live, gc'.known = gc.known, gc'.orphans \subseteq gc.orphans
      PROVE  VmPass'
  BY <1>3 DEF VmPass
<1>4. CASE GcRead
  BY <1>2, <1>4 DEF GcRead, IdleGc
<1>5. CASE GcList
  <2>1. CASE PlanVmReaps
    <3> DEFINE stale == IF gc.known THEN {j \in HasVm \cap gc.live : vm[j].img # image}
                        ELSE {}
               orphans == IF gc.known THEN HasVm \ gc.live ELSE {}
    <3>1. gc' = [gc EXCEPT !.pc = "reap", !.orphans = orphans, !.stale = stale]
      BY <2>1 DEF PlanVmReaps
    <3>2. orphans \cap gc.live = {} /\ (gc.known \/ orphans = {})
      OBVIOUS
    <3> HIDE DEF orphans, stale
    <3>3. /\ gc'.live = gc.live /\ gc'.known = gc.known /\ gc'.orphans = orphans
      BY <1>0, <3>1 DEF TypeOK
    <3> QED
      BY <3>2, <3>3 DEF VmPass
  <2>2. CASE gc' = [gc EXCEPT !.pc = "reap"]
    BY <1>0, <1>3, <2>2 DEF TypeOK
  <2> QED
    BY <1>5, <2>1, <2>2 DEF GcList
<1>6. ASSUME NEW j \in Jobs, GcStop(j)
      PROVE  VmPass'
  BY <1>0, <1>3, <1>6 DEF GcStop, TypeOK
<1>7. CASE GcDelete
  <2>1. gc' = [gc EXCEPT !.pc = "reap", !.at = NoJob, !.orphans = @ \ {gc.at},
                 !.stale = @ \ {gc.at}]
    BY <1>0, <1>7 DEF GcDelete, OneImage
  <2> QED
    BY <1>0, <1>3, <2>1 DEF TypeOK
<1>8. CASE GcRunners \/ GcAgain \/ GcDereg
  <2>1. ASSUME NEW doomed, gc' = ToDereg(doomed)
        PROVE  VmPass'
    BY <1>2, <2>1, ToDeregFields
  <2>2. CASE GcRunners
    <3>1. ASSUME NEW reaped, NEW all,
                 gc' = [IdleGc EXCEPT !.pc = "again", !.reaped = reaped, !.listed = all]
          PROVE  VmPass'
      BY <1>2, <3>1 DEF IdleGc
    <3> QED
      BY <2>1, <2>2, <3>1 DEF GcRunners
  <2>3. CASE GcAgain
    BY <2>1, <2>3 DEF GcAgain
  <2>4. CASE GcDereg
    BY <1>0, <1>3, <2>4 DEF GcDereg, TypeOK
  <2> QED
    BY <1>8, <2>2, <2>3, <2>4
<1>9. CASE GcEnd \/ Crash
  BY <1>2, <1>9 DEF GcEnd, Crash, IdleGc
<1>10. ASSUME NEW j \in Jobs,
              Enqueue(j) \/ Guest(j) \/ Dispatch(j) \/ GcExpire(j) \/ RecMint(j)
       PROVE  VmPass'
  BY <1>1, <1>10 DEF Enqueue, Guest, RunnerOnline, Steal, JobEnds, RunnerLost, Assign,
     Dispatch, GcExpire, RecMint
<1>11. ASSUME NEW s \in Slots, Worker(s)
       PROVE  VmPass'
  BY <1>1, <1>11 DEF Worker, WorkerMint, WorkerStart, WorkerShell, WorkerTeardown,
     WorkerFile
<1>12. CASE \/ GcAbort \/ ReapVms \/ RefileClaims \/ UNCHANGED vars
            \/ RecBegin \/ RecRunners \/ RecQueue \/ RecEnd
  BY <1>1, <1>12 DEF GcAbort, ReapVms, RefileClaims, vars, RecBegin, RecRunners, RecQueue,
     RecEnd
<1> QED
  BY <1>4, <1>5, <1>6, <1>7, <1>8, <1>9, <1>10, <1>11, <1>12 DEF Next, Sweep, Reconcile

\* The obligation of LiveVmSpared for one task and one step.
Spared(s) == RunsInVm(s) /\ InShell(s)' => RunsInVm(s)' \/ NewToVmPass(wk[s].job)

\* The steps of a task: its own end its run, and the others' are about another VM.
LEMMA SparedByWorker ==
    ASSUME ClaimInv, NEW s \in Slots, NEW t \in Slots, Worker(t)
    PROVE  Spared(s)
<1>0. TypeOK /\ WithJob
  BY DEF ClaimInv
<1>1. Active(t)
  BY DEF Worker, WorkerMint, WorkerStart, WorkerShell, WorkerTeardown, WorkerFile, Active
<1>2. wk[t].job \in Jobs
  BY <1>0, <1>1 DEF WithJob
<1>3. CASE s = t
  <2>1. CASE InShell(s)
    <3>1. WorkerShell(s)
      BY <1>3, <2>1 DEF Worker, WorkerMint, WorkerStart, WorkerTeardown, WorkerFile, InShell
    <3>2. wk'[s].pc = "stop"
      BY <1>0, <3>1, GotoFrame DEF WorkerShell, WorkerPC
    <3> QED
      BY <3>2 DEF Spared, InShell
  <2> QED
    BY <2>1 DEF Spared, RunsInVm
<1>4. CASE s # t
  <2>1. wk'[s].job = wk[s].job /\ wk'[s].gen = wk[s].gen
    <3>1. CASE WorkerFile(t)
      BY <1>0, <1>4, <3>1 DEF WorkerFile, TypeOK
    <3>2. ASSUME NEW pc \in WorkerPC, Goto(t, pc)
          PROVE  wk'[s].job = wk[s].job /\ wk'[s].gen = wk[s].gen
      BY <1>0, <3>2, GotoFrame
    <3> QED
      BY <3>1, <3>2
      DEF Worker, WorkerMint, WorkerStart, WorkerShell, WorkerTeardown, WorkerPC
  <2>2. \A j \in Jobs : j # wk[t].job => vm'[j] = vm[j]
    <3>1. CASE WorkerStart(t)
      BY <1>0, <3>1 DEF WorkerStart, TypeOK
    <3>2. CASE WorkerTeardown(t)
      BY <1>0, <1>2, <3>2, VmFrame DEF WorkerTeardown
    <3> QED
      BY <3>1, <3>2 DEF Worker, WorkerMint, WorkerShell, WorkerFile
  <2>3. CASE Active(s)
    <3>1. wk[s].job \in Jobs /\ wk[s].job # wk[t].job
      BY <1>0, <1>1, <1>4, <2>3, JobsApart DEF WithJob
    <3> QED
      BY <2>1, <2>2, <3>1 DEF Spared, RunsInVm
  <2> QED
    BY <2>3 DEF Spared, RunsInVm, InShell, Active
<1> QED
  BY <1>3, <1>4

\* A step of the collector that stops or deletes is about a VM of its plan.
LEMMA SparedByVmPass ==
    ASSUME ClaimInv, VmPass, NEW s \in Slots, NEW j \in gc.orphans, UNCHANGED wk,
           gc.pc \in {"reap", "delete"}, \A i \in Jobs : i # j => vm'[i] = vm[i]
    PROVE  Spared(s)
<1>1. NewToVmPass(j)
  BY DEF NewToVmPass, VmPass
<1>2. CASE Active(s)
  <2>1. wk[s].job \in Jobs
    BY <1>2 DEF ClaimInv, WithJob
  <2> QED
    BY <1>1, <2>1 DEF Spared, RunsInVm
<1> QED
  BY <1>2 DEF Spared, RunsInVm, InShell, Active

LEMMA SparedBySweep ==
    ASSUME ClaimInv, VmPass, NEW s \in Slots, Sweep
    PROVE  Spared(s)
<1>0. TypeOK /\ OneImage
  BY DEF ClaimInv
<1>1. ASSUME NEW j \in Jobs, GcStop(j)
      PROVE  Spared(s)
  <2>1. j \in gc.orphans /\ UNCHANGED wk /\ gc.pc \in {"reap", "delete"}
    BY <1>0, <1>1 DEF GcStop, OneImage
  <2>2. \A i \in Jobs : i # j => vm'[i] = vm[i]
    BY <1>0, <1>1, VmFrame DEF GcStop
  <2> QED
    BY <2>1, <2>2, SparedByVmPass
<1>2. CASE GcDelete
  <2>1. gc.at \in gc.orphans /\ UNCHANGED wk /\ gc.pc \in {"reap", "delete"}
    BY <1>0, <1>2 DEF GcDelete, OneImage
  <2>2. gc.at \in Jobs /\ \E gone \in BOOLEAN : DeleteVm(gc.at, gone)
    BY <1>0, <1>2, <2>1 DEF GcDelete, OneImage, TypeOK
  <2>3. \A i \in Jobs : i # gc.at => vm'[i] = vm[i]
    BY <1>0, <2>2, VmFrame
  <2> QED
    BY <2>1, <2>3, SparedByVmPass
<1>3. CASE GcAbort \/ GcRead \/ GcList \/ GcRunners \/ GcAgain \/ GcDereg \/ GcEnd
  BY <1>3 DEF GcAbort, GcRead, GcList, GcRunners, GcAgain, GcDereg, GcEnd, Spared, RunsInVm,
     InShell
<1> QED
  BY <1>1, <1>2, <1>3 DEF Sweep

LEMMA VmsSpared ==
    ASSUME ClaimInv, VmPass, [Next]_vars, NEW s \in Slots
    PROVE  Spared(s)
<1>1. ASSUME UNCHANGED <<vm, wk>>
      PROVE  Spared(s)
  BY <1>1 DEF Spared, RunsInVm, InShell
<1>2. ASSUME NEW j \in Jobs, SpawnJob(j), UNCHANGED vm
      PROVE  Spared(s)
  <2>1. PICK t \in Slots, g \in Gens : Spawned(j, t, g)
    BY <1>2, SpawnFrame DEF ClaimInv
  <2>2. s # t => UNCHANGED wk[s]
    BY <2>1 DEF Spawned
  <2>3. s = t => ~InShell(s)
    BY <2>1 DEF Spawned, InShell
  <2> QED
    BY <1>2, <2>2, <2>3 DEF Spared, RunsInVm
<1>3. ASSUME NEW j \in Jobs,
             Enqueue(j) \/ Guest(j) \/ Dispatch(j) \/ GcExpire(j) \/ RecMint(j)
      PROVE  Spared(s)
  BY <1>1, <1>2, <1>3 DEF Enqueue, Guest, RunnerOnline, Steal, JobEnds, RunnerLost, Assign,
     Dispatch, GcExpire, RecMint
<1>4. CASE Crash
  BY <1>4 DEF Crash, IdleTask, Spared, InShell
<1>5. CASE ReapVms
  BY <1>5 DEF ReapVms, ClaimInv, Stages, Active, Spared, RunsInVm, InShell
<1>6. CASE \/ RefileClaims \/ UNCHANGED vars \/ RecBegin \/ RecRunners \/ RecQueue
           \/ RecEnd
  BY <1>1, <1>6 DEF RefileClaims, vars, RecBegin, RecRunners, RecQueue, RecEnd
<1> QED
  BY <1>3, <1>4, <1>5, <1>6, SparedByWorker, SparedBySweep DEF Next, Reconcile

\* While the image stays what it is, the VM of a task that runs its job in it is
\* stopped or deleted only by a VM pass of the collector that read cur/ before the
\* task's claim was in it: neither another task's teardown under a reused name, nor
\* a pass that saw the claim or could not read cur/, however late its plan is
\* carried out, nor the startup reap ends it.
THEOREM VmsStayWithTheirTasks ==
    ASSUME Rebuilds = FALSE
    PROVE  Spec => LiveVmSpared
<1>1. Init => VmPass
  BY DEF Init, IdleGc, VmPass
<1>2. ClaimInv /\ VmPass /\ [Next]_vars => VmPass'
  BY VmPassStep
<1>3. ClaimInv /\ VmPass /\ [Next]_vars =>
        [\A s \in Slots : RunsInVm(s) /\ InShell(s)' => RunsInVm(s)' \/ NewToVmPass(wk[s].job)]_vars
  BY VmsSpared DEF Spared
<1> QED
  BY <1>1, <1>2, <1>3, ClaimInvAlways, PTL DEF Spec, LiveVmSpared
=============================================================================
