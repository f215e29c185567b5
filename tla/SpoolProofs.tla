----------------------------- MODULE SpoolProofs -----------------------------
(***************************************************************************)
(* Proofs about Spool for every set of jobs and tasks and every bound.     *)
(* SingleOwner is not inductive by itself: that a new claim meets no other *)
(* task follows from each task having its own claim in cur/ (OwnerBacked), *)
(* so that an exclusive rename fails on it, and from what the dispatch     *)
(* loop has in cur/ between its rename and its second look at the archive  *)
(* being nobody's (TentativeBacked).                                       *)
(*                                                                         *)
(* The archive needs a second invariant, ArchiveInv: who has its lock, that*)
(* a marker is stamped before the lock is let go, that the pruner unlinks  *)
(* what it judged under the lock, and that a claim is taken back for a     *)
(* marker which is still there or has expired.  From the two invariants    *)
(* follow both refinements: the system calls implement the atomic claim    *)
(* store (ClaimStore) and the moves a reader sees (SpoolMoves).            *)
(***************************************************************************)
EXTENDS Spool, TLAPS

\* Generations are handed out in order, and 0 is no claim.
GenBound ==
    /\ \A j \in Jobs : cur[j].gen < nextGen
    /\ \A w \in Workers : Holding(w) => wk[w].gen # 0 /\ wk[w].gen < nextGen

\* What the dispatch loop has in cur/ between the rename and its verdict is
\* its own and no task's.
TentativeBacked ==
    disp.pc \in {"postDone", "postError", "revert"} =>
        /\ disp.gen # 0
        /\ disp.gen < nextGen
        /\ cur[disp.job].gen = disp.gen
        /\ \A w \in Workers : Holding(w) => wk[w].job # disp.job

\* The verdict of the first half of the second look stays true.
PostCheck == disp.pc = "postError" => ~Exists(done[disp.job])

\* A claim is only reverted while its id is remembered elsewhere, or forgotten.
RevertGuard ==
    disp.pc = "revert" => Archived(disp.job) \/ disp.job \notin claimed

SpoolInv ==
    /\ TypeOK
    /\ GenBound
    /\ OwnerBacked
    /\ SingleOwner
    /\ TentativeBacked

-----------------------------------------------------------------------------
(* Types of the helpers. *)

LEMMA FileTypes ==
    ASSUME TypeOK
    PROVE  /\ NoFile \in File /\ ~Exists(NoFile)
           /\ NewClaim \in File /\ NewClaim.gen = nextGen
           /\ \A j \in Jobs : Installed(j) \in File /\ Installed(j).gen = cur[j].gen
           /\ \A d \in Dirs, j \in Jobs : Marker(d, j) \in File
           /\ \A f \in File : /\ [f EXCEPT !.mtime = clock] \in File
                              /\ [f EXCEPT !.mtime = clock].gen = f.gen
  <1>1. NoFile \in File /\ ~Exists(NoFile)
    BY DEF NoFile, File, Exists
  <1>2. NewClaim \in File /\ NewClaim.gen = nextGen
    BY DEF NewClaim, File, TypeOK
  <1>3. ASSUME NEW j \in Jobs
        PROVE  Installed(j) \in File /\ Installed(j).gen = cur[j].gen
    <2>1. cur[j] \in File /\ clock \in Nat
      BY DEF TypeOK
    <2> QED
      BY <2>1 DEF Installed, File
  <1>4. \A d \in Dirs, j \in Jobs : Marker(d, j) \in File
    BY DEF Marker, TypeOK
  <1>5. ASSUME NEW f \in File
        PROVE  /\ [f EXCEPT !.mtime = clock] \in File
               /\ [f EXCEPT !.mtime = clock].gen = f.gen
    <2>1. clock \in Nat
      BY DEF TypeOK
    <2> QED
      BY <2>1 DEF File
  <1> QED
    BY <1>1, <1>2, <1>3, <1>4, <1>5

LEMMA SetMarkerType ==
    ASSUME done \in [Jobs -> File], error \in [Jobs -> File],
           NEW d \in Dirs, NEW j \in Jobs, NEW f \in File, SetMarker(d, j, f)
    PROVE  done' \in [Jobs -> File] /\ error' \in [Jobs -> File]
  BY DEF SetMarker

LEMMA TaskType ==
    ASSUME NEW t \in Task
    PROVE  /\ t.pc \in WorkerPC /\ t.job \in Jobs /\ t.gen \in Nat
           /\ t.src \in Sources /\ t.dest \in Dirs
           /\ IdleWorker(t) \in Task /\ IdleWorker(t).pc = "idle"
  BY DEF Task, IdleWorker, WorkerPC, Sources, Dirs

LEMMA GotoType ==
    ASSUME wk \in [Workers -> Task], NEW w \in Workers, NEW pc \in WorkerPC,
           WorkerGoto(w, pc)
    PROVE  wk' \in [Workers -> Task]
  <1>1. wk[w] \in Task
    OBVIOUS
  <1>2. [wk[w] EXCEPT !.pc = pc] \in Task
    BY <1>1 DEF Task
  <1> QED
    BY <1>2 DEF WorkerGoto

LEMMA SpawnType ==
    ASSUME wk \in [Workers -> Task], claimed \in SUBSET Jobs, NEW w \in Workers,
           NEW j \in Jobs, NEW g \in Nat, NEW s \in Sources, Spawn(w, j, g, s)
    PROVE  wk' \in [Workers -> Task] /\ claimed' \in SUBSET Jobs
  <1>1. [pc |-> "run", job |-> j, gen |-> g, src |-> s, dest |-> "done"] \in Task
    BY DEF Task, WorkerPC, Dirs
  <1> QED
    BY <1>1 DEF Spawn

LEMMA ClaimerType ==
    ASSUME NEW c \in Claimer
    PROVE  /\ c.pc \in DispPC /\ c.job \in Jobs /\ c.gen \in Nat
           /\ IdleDisp(c) \in Claimer /\ IdleDisp(c).pc = "idle"
           /\ \A pc \in DispPC : [c EXCEPT !.pc = pc] \in Claimer
           /\ \A pc \in DispPC, j \in Jobs : [c EXCEPT !.pc = pc, !.job = j] \in Claimer
           /\ \A pc \in DispPC, g \in Nat : [c EXCEPT !.pc = pc, !.gen = g] \in Claimer
  BY DEF Claimer, IdleDisp, DispPC

LEMMA PrunerType ==
    ASSUME NEW p \in Pruner
    PROVE  /\ p.pc \in PrunePC /\ p.job \in Jobs /\ p.dir \in Dirs /\ p.now \in Nat
           /\ IdlePrune(p) \in Pruner
           /\ \A pc \in PrunePC : [p EXCEPT !.pc = pc] \in Pruner
           /\ \A pc \in PrunePC, j \in Jobs : [p EXCEPT !.pc = pc, !.job = j] \in Pruner
           /\ \A pc \in PrunePC, d \in Dirs, n \in Nat :
                 [p EXCEPT !.pc = pc, !.dir = d, !.now = n] \in Pruner
  BY DEF Pruner, IdlePrune, PrunePC, Dirs
-----------------------------------------------------------------------------
LEMMA InitType == Init => TypeOK
  BY SMT DEF Init, TypeOK, NoFile, File, DispPC, WorkerPC, PrunePC, Sources, Dirs,
             Claimer, Minter, Task, Pruner

LEMMA TypeStep == TypeOK /\ [Next]_vars => TypeOK'
  <1> SUFFICES ASSUME TypeOK, [Next]_vars PROVE TypeOK'
    OBVIOUS
  <1>0. /\ disp \in Claimer /\ prune \in Pruner
        /\ \A w \in Workers : wk[w] \in Task
        /\ {"idle", "preDone", "preError", "rename", "postDone", "postError",
            "revert", "unlinkNew"} \subseteq DispPC
        /\ {"idle", "run", "lock", "excl", "preserve", "move", "stamp",
            "unlock"} \subseteq WorkerPC
        /\ {"idle", "scan", "lock", "restat", "unlink"} \subseteq PrunePC
        /\ {"webhook", "reconcile", "gc"} \subseteq Sources
        /\ {"done", "error"} \subseteq Dirs
    BY DEF TypeOK, DispPC, WorkerPC, PrunePC, Sources, Dirs
  <1>00. disp.job \in Jobs /\ disp.gen \in Nat /\ IdleDisp(disp) \in Claimer
         /\ prune.job \in Jobs /\ prune.dir \in Dirs
    BY <1>0, ClaimerType, PrunerType
  <1> USE DEF files, ghosts, tasks
  <1>1. ASSUME NEW j \in Jobs, Deliver(j) PROVE TypeOK'
    BY <1>1 DEF Deliver, TypeOK
  <1>2. ASSUME NEW j \in Jobs, ClaimBegin(j) PROVE TypeOK'
    BY <1>2, <1>0, ClaimerType DEF ClaimBegin, TypeOK
  <1>3. ASSUME NEW j \in Jobs, MintBegin(j) PROVE TypeOK'
    BY <1>3 DEF MintBegin, TypeOK, Minter
  <1>4. ASSUME NEW j \in Jobs, PruneJudge(j) PROVE TypeOK'
    BY <1>4, <1>0, PrunerType DEF PruneJudge, TypeOK
  <1>5. ASSUME NEW j \in Jobs, NEW w \in Workers, GcFinalizeBegin(w, j) PROVE TypeOK'
    <2>1. cur[j].gen \in Nat
      BY DEF TypeOK, File
    <2>2. [pc |-> "lock", job |-> j, gen |-> cur[j].gen, src |-> "gc",
           dest |-> "error"] \in Task
      BY <2>1 DEF Task, WorkerPC, Sources, Dirs
    <2> QED
      BY <1>5, <2>2 DEF GcFinalizeBegin, TypeOK
  <1>6. ASSUME NEW a, NEW b \in DispPC, DispGoto(a, b) PROVE TypeOK'
    BY <1>6, <1>0, ClaimerType DEF DispGoto, TypeOK
  <1>7. CASE ClaimPreDone \/ ClaimPreError \/ ClaimPostDone
    BY <1>7, <1>6, <1>0 DEF ClaimPreDone, ClaimPreError, ClaimPostDone
  <1>8. CASE ClaimRename
    <2>1. disp' \in Claimer
      <3>1. nextGen \in Nat
        BY DEF TypeOK
      <3>2. /\ [disp EXCEPT !.pc = "postDone", !.gen = nextGen] \in Claimer
            /\ [disp EXCEPT !.pc = "unlinkNew"] \in Claimer
        BY <1>0, <3>1, ClaimerType
      <3> QED
        BY <1>8, <1>00, <3>2 DEF ClaimRename
    <2>2. cur' \in [Jobs -> File]
      BY <1>8, FileTypes DEF ClaimRename, TypeOK
    <2>3. new' \in SUBSET Jobs /\ nextGen' \in Nat \ {0}
      BY <1>8 DEF ClaimRename, TypeOK
    <2> QED
      BY <1>8, <2>1, <2>2, <2>3 DEF ClaimRename, TypeOK
  <1>10. CASE ClaimPostError
    <2>1. disp' \in Claimer
      BY <1>10, <1>0, ClaimerType DEF ClaimPostError
    <2>2. wk' \in [Workers -> Task] /\ claimed' \in SUBSET Jobs
      <3>1. wk \in [Workers -> Task] /\ claimed \in SUBSET Jobs
        BY DEF TypeOK
      <3> QED
        BY <1>10, <1>0, <1>00, <3>1, SpawnType DEF ClaimPostError
    <2> QED
      BY <1>10, <2>1, <2>2 DEF ClaimPostError, TypeOK
  <1>11. CASE ClaimRevert
    BY <1>11, <1>00, FileTypes DEF ClaimRevert, TypeOK
  <1>12. CASE ClaimUnlinkNew \/ ClaimFails
    BY <1>12, <1>00 DEF ClaimUnlinkNew, ClaimFails, TypeOK
  <1>13. CASE MintRename
    <2>0. rec.job \in Jobs /\ [rec EXCEPT !.pc = "idle"] \in Minter
      BY DEF TypeOK, Minter
    <2>1. wk' \in [Workers -> Task] /\ claimed' \in SUBSET Jobs
      <3>1. wk \in [Workers -> Task] /\ claimed \in SUBSET Jobs /\ nextGen \in Nat
        BY DEF TypeOK
      <3> QED
        BY <1>13, <1>0, <2>0, <3>1, SpawnType DEF MintRename
    <2>2. cur' \in [Jobs -> File] /\ nextGen' \in Nat \ {0}
      BY <1>13, FileTypes DEF MintRename, TypeOK
    <2> QED
      BY <1>13, <2>0, <2>1, <2>2 DEF MintRename, TypeOK
  <1>14. ASSUME NEW w \in Workers, LockArchive(w) PROVE TypeOK'
    BY <1>14, <1>0, GotoType DEF LockArchive, TypeOK
  <1>15. ASSUME NEW w \in Workers, ArchiveExcl(w) PROVE TypeOK'
    <2>0. wk[w].job \in Jobs /\ wk[w].dest \in Dirs
      BY <1>0, TaskType
    <2>1. wk' \in [Workers -> Task]
      <3>1. wk \in [Workers -> Task]
        BY DEF TypeOK
      <3> QED
        BY <1>15, <1>0, <3>1, GotoType DEF ArchiveExcl
    <2>2. done' \in [Jobs -> File] /\ error' \in [Jobs -> File]
      <3>1. done \in [Jobs -> File] /\ error \in [Jobs -> File]
        BY DEF TypeOK
      <3> QED
        BY <1>15, <2>0, <3>1, FileTypes, SetMarkerType DEF ArchiveExcl
    <2>3. cur' \in [Jobs -> File]
      BY <1>15, <2>0, FileTypes DEF ArchiveExcl, TypeOK
    <2> QED
      BY <1>15, <2>1, <2>2, <2>3 DEF ArchiveExcl, TypeOK
  <1>16. ASSUME NEW w \in Workers, ArchivePreserve(w) PROVE TypeOK'
    <2>0. wk[w].job \in Jobs /\ wk[w].dest \in Dirs
      BY <1>0, TaskType
    <2>1. wk' \in [Workers -> Task]
      BY <1>16, <1>0, GotoType DEF ArchivePreserve, TypeOK
    <2>2. done' \in [Jobs -> File] /\ error' \in [Jobs -> File]
      <3>1. done \in [Jobs -> File] /\ error \in [Jobs -> File]
        BY DEF TypeOK
      <3> QED
        BY <1>16, <2>0, <3>1, FileTypes, SetMarkerType DEF ArchivePreserve
    <2>3. bak' \in [Jobs -> File]
      BY <1>16, <2>0, FileTypes DEF ArchivePreserve, TypeOK
    <2> QED
      BY <1>16, <2>1, <2>2, <2>3 DEF ArchivePreserve, TypeOK
  <1>17. ASSUME NEW w \in Workers, ArchiveMove(w) PROVE TypeOK'
    <2>0. wk[w].job \in Jobs /\ wk[w].dest \in Dirs
      BY <1>0, TaskType
    <2>1. wk' \in [Workers -> Task]
      <3>1. wk \in [Workers -> Task]
        BY DEF TypeOK
      <3> QED
        BY <1>17, <1>0, <3>1, GotoType DEF ArchiveMove
    <2>2. done' \in [Jobs -> File] /\ error' \in [Jobs -> File]
      <3>1. done \in [Jobs -> File] /\ error \in [Jobs -> File]
            /\ bak[wk[w].job] \in File
        BY <2>0 DEF TypeOK
      <3> QED
        BY <1>17, <2>0, <3>1, FileTypes, SetMarkerType DEF ArchiveMove
    <2>3. cur' \in [Jobs -> File] /\ bak' \in [Jobs -> File]
      BY <1>17, <2>0, FileTypes DEF ArchiveMove, TypeOK
    <2> QED
      BY <1>17, <2>1, <2>2, <2>3 DEF ArchiveMove, TypeOK
  <1>18. ASSUME NEW w \in Workers, ArchiveStamp(w) PROVE TypeOK'
    <2>0. wk[w].job \in Jobs /\ wk[w].dest \in Dirs
      BY <1>0, TaskType
    <2>1. wk' \in [Workers -> Task]
      BY <1>18, <1>0, GotoType DEF ArchiveStamp, TypeOK
    <2>2. done' \in [Jobs -> File] /\ error' \in [Jobs -> File]
      <3>1. done \in [Jobs -> File] /\ error \in [Jobs -> File]
        BY DEF TypeOK
      <3>2. [Marker(wk[w].dest, wk[w].job) EXCEPT !.mtime = clock] \in File
        BY <2>0, FileTypes
      <3> QED
        BY <1>18, <2>0, <3>1, <3>2, SetMarkerType DEF ArchiveStamp
    <2> QED
      BY <1>18, <2>1, <2>2 DEF ArchiveStamp, TypeOK
  <1>19. ASSUME NEW w \in Workers, UnlockArchive(w) PROVE TypeOK'
    BY <1>19, <1>0, TaskType DEF UnlockArchive, TypeOK
  <1>20. ASSUME NEW w \in Workers, NEW d \in Dirs, FinalizeBegin(w, d) PROVE TypeOK'
    <2>1. [wk[w] EXCEPT !.pc = "lock", !.dest = d] \in Task
      BY <1>0 DEF Task
    <2>2. wk' = [wk EXCEPT ![w] = [wk[w] EXCEPT !.pc = "lock", !.dest = d]]
      BY <1>20 DEF FinalizeBegin, TypeOK, Task
    <2> QED
      BY <1>20, <2>1, <2>2 DEF FinalizeBegin, TypeOK
  <1>21. ASSUME NEW d \in Dirs, PruneBegin(d) PROVE TypeOK'
    BY <1>21, <1>0, PrunerType DEF PruneBegin, TypeOK
  <1>22. CASE PruneEnd
    BY <1>22, <1>0, PrunerType DEF PruneEnd, TypeOK
  <1>23. CASE PruneLock
    BY <1>23, <1>0, PrunerType DEF PruneLock, TypeOK
  <1>24. CASE PruneRestat
    <2>1. prune' \in Pruner
      BY <1>24, <1>0, PrunerType DEF PruneRestat
    <2>2. lock' \in {"free", "prune", "fin"}
      BY <1>24 DEF PruneRestat, TypeOK
    <2> QED
      BY <1>24, <2>1, <2>2 DEF PruneRestat, TypeOK
  <1>25. CASE PruneUnlink
    <2>0. claimed' \in SUBSET Jobs
      BY <1>25 DEF PruneUnlink, TypeOK
    <2>1. done' \in [Jobs -> File] /\ error' \in [Jobs -> File]
      BY <1>25, <1>00, FileTypes, SetMarkerType DEF PruneUnlink, TypeOK
    <2>2. prune' \in Pruner
      BY <1>25, <1>0, PrunerType DEF PruneUnlink
    <2> QED
      BY <1>25, <2>0, <2>1, <2>2 DEF PruneUnlink, TypeOK
  <1>26. CASE Tick
    BY <1>26 DEF Tick, TypeOK
  <1>27. CASE Crash
    <2>1. /\ disp' \in Claimer /\ prune' \in Pruner /\ rec' \in Minter
      BY <1>27, <1>0, <1>00, PrunerType DEF Crash, TypeOK, Minter
    <2>2. wk' \in [Workers -> Task]
      BY <1>27, <1>0, TaskType DEF Crash
    <2>3. bak' \in [Jobs -> File]
      BY <1>27, FileTypes DEF Crash
    <2> QED
      BY <1>27, <2>1, <2>2, <2>3 DEF Crash, TypeOK
  <1>28. CASE UNCHANGED vars
    BY <1>28 DEF vars, TypeOK
  <1> QED
    BY <1>1, <1>2, <1>3, <1>4, <1>5, <1>7, <1>8, <1>10, <1>11,
       <1>12, <1>13, <1>14, <1>15, <1>16, <1>17, <1>18, <1>19, <1>20, <1>21,
       <1>22, <1>23, <1>24, <1>25, <1>26, <1>27, <1>28
       DEF Next, TryClaim, Finalize, Prune

(* Every file, task record and counter of the spool keeps its type, whatever
   the interleaving of the tasks. *)
THEOREM SpoolTypeCorrect == Spec => []TypeOK
  BY InitType, TypeStep, PTL DEF Spec
-----------------------------------------------------------------------------
(* What a task's step leaves alone. *)

LEMMA GotoFrame ==
    ASSUME wk \in [Workers -> Task], NEW w \in Workers, NEW pc, WorkerGoto(w, pc)
    PROVE  /\ wk'[w].pc = pc /\ wk'[w].job = wk[w].job /\ wk'[w].gen = wk[w].gen
           /\ wk'[w].src = wk[w].src /\ wk'[w].dest = wk[w].dest
           /\ \A v \in Workers : v # w => wk'[v] = wk[v]
  <1>1. wk[w] \in Task
    OBVIOUS
  <1>2. wk'[w] = [wk[w] EXCEPT !.pc = pc]
    BY DEF WorkerGoto
  <1>3. \A v \in Workers : v # w => wk'[v] = wk[v]
    BY DEF WorkerGoto
  <1> QED
    BY <1>1, <1>2, <1>3 DEF Task

LEMMA SpawnFrame ==
    ASSUME wk \in [Workers -> Task], NEW w \in Workers, NEW j, NEW g, NEW s,
           Spawn(w, j, g, s)
    PROVE  /\ wk[w].pc = "idle"
           /\ wk'[w].pc = "run" /\ wk'[w].job = j /\ wk'[w].gen = g /\ wk'[w].src = s
           /\ \A v \in Workers : v # w => wk'[v] = wk[v]
           /\ claimed' = claimed \cup {j}
  BY DEF Spawn

(* The steps that move no claim, start no task and end none: the dispatch loop
   looks, the pruner works, time passes. *)
LEMMA QuietStep ==
    ASSUME SpoolInv,
           UNCHANGED <<cur, nextGen>>,
           \A w \in Workers : /\ Holding(w)' => Holding(w)
                              /\ wk'[w].job = wk[w].job \/ ~Holding(w)'
                              /\ wk'[w].gen = wk[w].gen \/ ~Holding(w)'
                              /\ wk'[w].src = wk[w].src \/ ~Holding(w)',
           \/ disp'.pc \notin {"postDone", "postError", "revert"}
           \/ /\ disp'.job = disp.job /\ disp'.gen = disp.gen
              /\ disp.pc \in {"postDone", "postError", "revert"},
           TypeOK'
    PROVE  SpoolInv'
  BY DEF SpoolInv, GenBound, SingleOwner, OwnerBacked, TentativeBacked

LEMMA InitInv == Init => SpoolInv
  <1> SUFFICES ASSUME Init PROVE SpoolInv
    OBVIOUS
  <1>1. TypeOK
    BY InitType
  <1>2. /\ \A w \in Workers : wk[w].pc = "idle"
        /\ disp.pc = "idle"
        /\ \A j \in Jobs : cur[j].gen = 0
        /\ nextGen = 1
    BY DEF Init, NoFile
  <1>3. \A w \in Workers : ~Holding(w)
    BY <1>2 DEF Holding
  <1> QED
    BY <1>1, <1>2, <1>3
       DEF SpoolInv, GenBound, SingleOwner, OwnerBacked, TentativeBacked

LEMMA InvStep == SpoolInv /\ [Next]_vars => SpoolInv'
  <1> SUFFICES ASSUME SpoolInv, [Next]_vars PROVE SpoolInv'
    OBVIOUS
  <1>t. TypeOK /\ TypeOK'
    BY TypeStep DEF SpoolInv
  <1>w. /\ wk \in [Workers -> Task]
        /\ \A w \in Workers : /\ wk[w].job \in Jobs /\ wk[w].gen \in Nat
                              /\ wk[w].dest \in Dirs
        /\ disp.job \in Jobs /\ disp.gen \in Nat /\ rec.job \in Jobs
        /\ nextGen \in Nat
        /\ cur \in [Jobs -> File]
        /\ \A j \in Jobs : cur[j].gen \in Nat
    BY <1>t, TaskType, ClaimerType DEF TypeOK, File, Minter
  <1>f. NoFile.gen = 0 /\ NewClaim.gen = nextGen
    BY <1>t, FileTypes DEF Exists
  <1>c. disp \in Claimer
    BY <1>t DEF TypeOK
  <1>d. \A pc : /\ [disp EXCEPT !.pc = pc].pc = pc
                /\ [disp EXCEPT !.pc = pc].job = disp.job
                /\ [disp EXCEPT !.pc = pc].gen = disp.gen
    BY <1>c DEF Claimer
  <1> USE DEF files, ghosts, tasks
  \* Steps that leave cur/, the generations and the tasks alone.
  <1>q. ASSUME UNCHANGED <<cur, nextGen, wk, disp>> PROVE SpoolInv'
    BY <1>q, <1>t, QuietStep DEF Holding
  <1>1. ASSUME NEW j \in Jobs, Deliver(j) PROVE SpoolInv'
    BY <1>1, <1>q DEF Deliver
  <1>2. ASSUME NEW j \in Jobs, ClaimBegin(j) PROVE SpoolInv'
    <2>1. disp'.pc = "preDone"
      BY <1>2, <1>c DEF ClaimBegin, Claimer
    <2> QED
      BY <1>2, <2>1, <1>t, QuietStep DEF ClaimBegin, Holding
  <1>3. ASSUME NEW j \in Jobs, MintBegin(j) PROVE SpoolInv'
    BY <1>3, <1>q DEF MintBegin
  <1>4. ASSUME NEW j \in Jobs, PruneJudge(j) PROVE SpoolInv'
    BY <1>4, <1>q DEF PruneJudge
  <1>5. ASSUME NEW j \in Jobs, NEW w \in Workers, GcFinalizeBegin(w, j)
        PROVE  SpoolInv'
    <2>1. /\ wk'[w].job = j /\ wk'[w].gen = cur[j].gen
          /\ cur[j].gen # 0
          /\ \A v \in Workers : v # w => wk'[v] = wk[v]
          /\ UNCHANGED <<cur, nextGen, disp>>
          /\ ~Tentative(j)
          /\ \A v \in Workers : Holding(v) => wk[v].job # j
          /\ wk'[w].pc = "lock"
      BY <1>5, <1>w DEF GcFinalizeBegin, Exists
    <2>2. /\ \A v \in Workers : v # w => (Holding(v)' <=> Holding(v))
          /\ Holding(w)'
      BY <2>1 DEF Holding
    <2>3. GenBound' /\ OwnerBacked'
      BY <1>w, <2>1, <2>2 DEF SpoolInv, GenBound, OwnerBacked
    <2>4. SingleOwner'
      BY <1>w, <2>1, <2>2 DEF SpoolInv, SingleOwner
    <2>5. TentativeBacked'
      BY <1>w, <2>1, <2>2 DEF SpoolInv, TentativeBacked, Tentative
    <2> QED
      BY <1>t, <2>3, <2>4, <2>5 DEF SpoolInv
  <1>6. ASSUME NEW a, NEW b, DispGoto(a, b),
               b \in {"preError", "rename", "unlinkNew"}
               \/ a \in {"postDone", "postError"}
        PROVE  SpoolInv'
    <2>1. disp'.pc = b /\ disp'.job = disp.job /\ disp'.gen = disp.gen /\ disp.pc = a
      BY <1>6, <1>d DEF DispGoto
    <2> QED
      BY <1>6, <2>1, <1>t, QuietStep DEF DispGoto, Holding
  <1>7. CASE ClaimPreDone \/ ClaimPreError \/ ClaimPostDone
    BY <1>7, <1>6 DEF ClaimPreDone, ClaimPreError, ClaimPostDone
  <1>8. CASE ClaimRename
    <2>1. CASE disp'.pc \in {"idle", "unlinkNew"} /\ UNCHANGED <<cur, nextGen>>
      BY <1>8, <2>1, <1>t, QuietStep DEF ClaimRename, Holding
    <2>2. CASE /\ ~Exists(cur[disp.job])
               /\ cur' = [cur EXCEPT ![disp.job] = NewClaim]
               /\ nextGen' = nextGen + 1
               /\ disp' = [disp EXCEPT !.pc = "postDone", !.gen = nextGen]
      <3>1. disp'.pc = "postDone" /\ disp'.job = disp.job /\ disp'.gen = nextGen
        BY <2>2, <1>c DEF Claimer
      <3>2. /\ cur'[disp.job].gen = nextGen
            /\ \A j \in Jobs : j # disp.job => cur'[j] = cur[j]
            /\ cur[disp.job].gen = 0
            /\ UNCHANGED wk
        BY <1>8, <2>2, <1>w, <1>f DEF Exists, ClaimRename
      <3>3. \A w \in Workers : Holding(w)' <=> Holding(w)
        BY <3>2 DEF Holding
      <3>4. GenBound' /\ SingleOwner'
        BY <1>w, <2>2, <3>2, <3>3 DEF SpoolInv, GenBound, SingleOwner
      <3>5. OwnerBacked'
        BY <1>w, <3>2, <3>3 DEF SpoolInv, OwnerBacked, GenBound
      <3>6. TentativeBacked'
        BY <1>w, <2>2, <3>1, <3>2, <3>3 DEF SpoolInv, TentativeBacked, GenBound, OwnerBacked
      <3> QED
        BY <1>t, <3>4, <3>5, <3>6 DEF SpoolInv
    <2>3. [disp EXCEPT !.pc = "unlinkNew"].pc = "unlinkNew" /\ IdleDisp(disp).pc = "idle"
      BY <1>d DEF IdleDisp
    <2> QED
      BY <1>8, <2>1, <2>2, <2>3 DEF ClaimRename
  <1>10. CASE ClaimPostError
    <2>1. CASE Exists(error[disp.job])
      BY <1>10, <2>1, <1>d, <1>t, QuietStep DEF ClaimPostError, Holding
    <2>2. CASE ~Exists(error[disp.job])
      <3>1. PICK w \in Workers : Spawn(w, disp.job, disp.gen, "webhook")
        BY <1>10, <2>2 DEF ClaimPostError
      <3>2. /\ wk'[w].pc = "run" /\ wk'[w].job = disp.job /\ wk'[w].gen = disp.gen
            /\ wk'[w].src = "webhook"
            /\ \A v \in Workers : v # w => wk'[v] = wk[v]
            /\ UNCHANGED <<cur, nextGen>>
            /\ disp'.pc = "idle" /\ disp.pc = "postError"
        BY <1>10, <2>2, <3>1, <1>w, SpawnFrame DEF ClaimPostError, IdleDisp
      <3>3. /\ \A v \in Workers : v # w => (Holding(v)' <=> Holding(v))
            /\ Holding(w)'
        BY <3>2 DEF Holding
      <3>4. /\ disp.gen # 0 /\ disp.gen < nextGen
            /\ cur[disp.job].gen = disp.gen
            /\ \A v \in Workers : Holding(v) => wk[v].job # disp.job
        BY <3>2 DEF SpoolInv, TentativeBacked
      <3>5. GenBound' /\ OwnerBacked' /\ TentativeBacked'
        BY <1>w, <3>2, <3>3, <3>4 DEF SpoolInv, GenBound, OwnerBacked, TentativeBacked
      <3>6. SingleOwner'
        BY <3>2, <3>3, <3>4 DEF SpoolInv, SingleOwner
      <3> QED
        BY <1>t, <3>5, <3>6 DEF SpoolInv
    <2> QED
      BY <2>1, <2>2
  <1>11. CASE ClaimRevert
    <2>1. /\ disp.pc = "revert" /\ disp'.pc = "idle"
          /\ cur'[disp.job].gen = 0
          /\ \A j \in Jobs : j # disp.job => cur'[j] = cur[j]
          /\ UNCHANGED <<wk, nextGen>>
      BY <1>11, <1>w, <1>f DEF ClaimRevert, IdleDisp
    <2>2. \A w \in Workers : Holding(w) => wk[w].job # disp.job
      BY <2>1 DEF SpoolInv, TentativeBacked
    <2>3. \A w \in Workers : Holding(w)' <=> Holding(w)
      BY <2>1 DEF Holding
    <2> QED
      BY <1>t, <1>w, <2>1, <2>2, <2>3
         DEF SpoolInv, GenBound, SingleOwner, OwnerBacked, TentativeBacked
  <1>12. CASE ClaimUnlinkNew \/ ClaimFails
    BY <1>12, <1>t, QuietStep DEF ClaimUnlinkNew, ClaimFails, IdleDisp, Holding
  <1>13. CASE MintRename
    <2>1. CASE UNCHANGED <<cur, wk, nextGen, claimed>>
      BY <1>13, <2>1, <1>q DEF MintRename
    <2>2. CASE /\ ~Exists(cur[rec.job])
               /\ cur' = [cur EXCEPT ![rec.job] = NewClaim]
               /\ nextGen' = nextGen + 1
               /\ \E w \in Workers : Spawn(w, rec.job, nextGen, "reconcile")
      <3>1. PICK w \in Workers : Spawn(w, rec.job, nextGen, "reconcile")
        BY <1>13, <2>2 DEF MintRename
      <3>2. /\ wk'[w].pc = "run" /\ wk'[w].job = rec.job /\ wk'[w].gen = nextGen
            /\ wk'[w].src = "reconcile"
            /\ \A v \in Workers : v # w => wk'[v] = wk[v]
        BY <3>1, <1>w, SpawnFrame
      <3>3. /\ cur'[rec.job].gen = nextGen
            /\ \A j \in Jobs : j # rec.job => cur'[j] = cur[j]
            /\ cur[rec.job].gen = 0
            /\ nextGen' = nextGen + 1
            /\ UNCHANGED disp
        BY <1>13, <2>2, <1>w, <1>f DEF MintRename, Exists
      <3>4. /\ \A v \in Workers : v # w => (Holding(v)' <=> Holding(v))
            /\ Holding(w)'
        BY <3>2 DEF Holding
      <3>5. \A v \in Workers : Holding(v) => wk[v].gen < nextGen /\ wk[v].job # rec.job
        BY <3>3 DEF SpoolInv, GenBound, OwnerBacked
      <3>6. GenBound'
        BY <1>w, <3>2, <3>3, <3>4 DEF SpoolInv, GenBound
      <3>7. OwnerBacked' /\ SingleOwner'
        BY <1>w, <3>2, <3>3, <3>4, <3>5 DEF SpoolInv, OwnerBacked, SingleOwner
      <3>8. TentativeBacked'
        BY <1>w, <3>2, <3>3, <3>4, <3>5 DEF SpoolInv, TentativeBacked
      <3> QED
        BY <1>t, <3>6, <3>7, <3>8 DEF SpoolInv
    <2> QED
      BY <1>13, <2>1, <2>2 DEF MintRename
  \* A task that keeps its claim, or has already given it up.
  <1>g. ASSUME NEW w \in Workers, NEW pc, WorkerGoto(w, pc),
               UNCHANGED <<cur, nextGen, disp>>,
               Holding(w) \/ pc \in {"stamp", "unlock"}
        PROVE  SpoolInv'
    <2>1. /\ wk'[w].pc = pc /\ wk'[w].job = wk[w].job /\ wk'[w].gen = wk[w].gen
          /\ wk'[w].src = wk[w].src
          /\ \A v \in Workers : v # w => wk'[v] = wk[v]
      BY <1>g, <1>w, GotoFrame
    <2> QED
      BY <1>g, <2>1, <1>t, QuietStep DEF Holding
  \* A task that moves its claim out of cur/.
  <1>m. ASSUME NEW w \in Workers, WorkerGoto(w, "stamp"), Holding(w),
               cur' = [cur EXCEPT ![wk[w].job] = NoFile],
               UNCHANGED <<nextGen, disp>>
        PROVE  SpoolInv'
    <2>1. /\ wk'[w].pc = "stamp"
          /\ \A v \in Workers : v # w => wk'[v] = wk[v]
          /\ cur'[wk[w].job].gen = 0
          /\ \A j \in Jobs : j # wk[w].job => cur'[j] = cur[j]
      BY <1>m, <1>w, <1>f, GotoFrame
    <2>2. /\ \A v \in Workers : v # w => (Holding(v)' <=> Holding(v))
          /\ ~Holding(w)'
      BY <2>1 DEF Holding
    <2>3. \A v \in Workers : v # w /\ Holding(v) => wk[v].job # wk[w].job
      BY <1>m DEF SpoolInv, SingleOwner
    <2>4. disp.pc \in {"postDone", "postError", "revert"} => disp.job # wk[w].job
      BY <1>m DEF SpoolInv, TentativeBacked
    <2>5. GenBound' /\ SingleOwner'
      BY <1>w, <1>m, <2>1, <2>2 DEF SpoolInv, GenBound, SingleOwner
    <2>6. OwnerBacked' /\ TentativeBacked'
      BY <1>w, <1>m, <2>1, <2>2, <2>3, <2>4 DEF SpoolInv, OwnerBacked, TentativeBacked
    <2> QED
      BY <1>t, <2>5, <2>6 DEF SpoolInv
  <1>14. ASSUME NEW w \in Workers, LockArchive(w) PROVE SpoolInv'
    BY <1>14, <1>g DEF LockArchive, Holding
  <1>15. ASSUME NEW w \in Workers, ArchiveExcl(w) PROVE SpoolInv'
    <2>1. Holding(w) /\ UNCHANGED <<nextGen, disp>>
      BY <1>15 DEF ArchiveExcl, Holding
    <2> QED
      BY <1>15, <2>1, <1>g, <1>m DEF ArchiveExcl
  <1>16. ASSUME NEW w \in Workers, ArchivePreserve(w) PROVE SpoolInv'
    BY <1>16, <1>g DEF ArchivePreserve, Holding
  <1>17. ASSUME NEW w \in Workers, ArchiveMove(w) PROVE SpoolInv'
    <2>1. Holding(w) /\ UNCHANGED <<nextGen, disp>>
      BY <1>17 DEF ArchiveMove, Holding
    <2> QED
      BY <1>17, <2>1, <1>g, <1>m DEF ArchiveMove
  <1>18. ASSUME NEW w \in Workers, ArchiveStamp(w) PROVE SpoolInv'
    BY <1>18, <1>g DEF ArchiveStamp
  <1>19. ASSUME NEW w \in Workers, UnlockArchive(w) PROVE SpoolInv'
    <2>1. /\ wk'[w].pc = "idle"
          /\ \A v \in Workers : v # w => wk'[v] = wk[v]
      BY <1>19, <1>w DEF UnlockArchive, IdleWorker
    <2> QED
      BY <1>19, <2>1, <1>t, QuietStep DEF UnlockArchive, Holding
  <1>20. ASSUME NEW w \in Workers, NEW d \in Dirs, FinalizeBegin(w, d) PROVE SpoolInv'
    <2>1. wk[w] \in Task
      BY <1>w
    <2>2. wk'[w] = [wk[w] EXCEPT !.pc = "lock", !.dest = d]
      BY <1>20, <1>w, <2>1 DEF FinalizeBegin, Task
    <2>3. /\ wk'[w].job = wk[w].job /\ wk'[w].gen = wk[w].gen
          /\ wk'[w].src = wk[w].src
      BY <2>1, <2>2 DEF Task
    <2>4. \A v \in Workers : v # w => wk'[v] = wk[v]
      BY <1>20, <1>w DEF FinalizeBegin
    <2> QED
      BY <1>20, <2>3, <2>4, <1>t, QuietStep DEF FinalizeBegin, Holding
  <1>21. ASSUME NEW d \in Dirs, PruneBegin(d) PROVE SpoolInv'
    BY <1>21, <1>q DEF PruneBegin
  <1>22. CASE Prune
    BY <1>22, <1>q DEF Prune, PruneEnd, PruneLock, PruneRestat, PruneUnlink
  <1>26. CASE Tick
    BY <1>26, <1>q DEF Tick
  <1>27. CASE Crash
    <2>1. /\ \A w \in Workers : ~Holding(w)'
          /\ disp'.pc = "idle"
          /\ UNCHANGED <<cur, nextGen>>
      BY <1>27 DEF Crash, IdleWorker, IdleDisp, Holding
    <2> QED
      BY <1>t, <1>w, <2>1
         DEF SpoolInv, GenBound, SingleOwner, OwnerBacked, TentativeBacked
  <1>28. CASE UNCHANGED vars
    BY <1>28, <1>q DEF vars
  <1> QED
    BY <1>1, <1>2, <1>3, <1>4, <1>5, <1>7, <1>8, <1>10, <1>11,
       <1>12, <1>13, <1>14, <1>15, <1>16, <1>17, <1>18, <1>19, <1>20, <1>21,
       <1>22, <1>26, <1>27, <1>28
       DEF Next, TryClaim, Finalize

(* No workflow_job id is worked on by two tasks at once, for any number of
   jobs, tasks, deliveries, mints and crashes. *)
THEOREM SpoolSingleOwner == Spec => []SingleOwner
  <1>1. SpoolInv => SingleOwner
    BY DEF SpoolInv
  <1> QED
    BY InitInv, InvStep, <1>1, PTL DEF Spec

(* A running task always has its own claim in cur/. *)
THEOREM SpoolOwnerBacked == Spec => []OwnerBacked
  <1>1. SpoolInv => OwnerBacked
    BY DEF SpoolInv
  <1> QED
    BY InitInv, InvStep, <1>1, PTL DEF Spec

(* Both together: every id has at most one task, and that task's claim is in
   cur/ for as long as it runs. *)
THEOREM SpoolClaimsOwned == Spec => []ClaimsOwned
  <1>1. SingleOwner /\ OwnerBacked => ClaimsOwned
    BY DEF ClaimsOwned
  <1> QED
    BY SpoolSingleOwner, SpoolOwnerBacked, <1>1, PTL
-----------------------------------------------------------------------------
(* Replays.  The invariants about the archive rest on SpoolInv: a marker of an
   id is only installed by the task that holds the id's claim. *)
ReplayInv == ReplayNeverRuns /\ PostCheck /\ ReplayGuard /\ RevertGuard

\* Markers appear only where the claim of their id was.
LEMMA MarkerFrame ==
    ASSUME TypeOK, NEW d \in Dirs, NEW j \in Jobs, NEW f, SetMarker(d, j, f)
    PROVE  /\ \A i \in Jobs : i # j => /\ done'[i] = done[i]
                                       /\ error'[i] = error[i]
           /\ d = "done" => done'[j] = f /\ error'[j] = error[j]
           /\ d = "error" => error'[j] = f /\ done'[j] = done[j]
  BY DEF SetMarker, TypeOK, Dirs

(* Steps that leave the archive and cur/ alone, start no task, and let the
   dispatch loop neither begin a second look nor decide to revert. *)
LEMMA QuietReplay ==
    ASSUME ReplayInv,
           UNCHANGED <<cur, done, error, claimed>>,
           \A w \in Workers : /\ Holding(w)' => Holding(w)
                              /\ wk'[w].job = wk[w].job \/ ~Holding(w)'
                              /\ wk'[w].src = wk[w].src \/ ~Holding(w)',
           \/ disp'.pc \notin {"postError", "revert"}
           \/ disp'.job = disp.job /\ disp'.pc = disp.pc
    PROVE  ReplayInv'
  BY DEF ReplayInv, ReplayNeverRuns, PostCheck, ReplayGuard, RevertGuard, Archived

LEMMA ReplayInit == Init => ReplayInv
  <1> SUFFICES ASSUME Init PROVE ReplayInv
    OBVIOUS
  <1>1. (\A w \in Workers : wk[w].pc = "idle") /\ disp.pc = "idle" /\ claimed = {}
    BY DEF Init
  <1> QED
    BY <1>1 DEF ReplayInv, ReplayNeverRuns, PostCheck, ReplayGuard, RevertGuard, Holding

LEMMA ReplayStep == SpoolInv /\ ReplayInv /\ [Next]_vars => ReplayInv'
  <1> SUFFICES ASSUME SpoolInv, ReplayInv, [Next]_vars PROVE ReplayInv'
    OBVIOUS
  <1>t. TypeOK
    BY DEF SpoolInv
  <1>w. /\ wk \in [Workers -> Task]
        /\ \A w \in Workers : wk[w].job \in Jobs /\ wk[w].dest \in Dirs
        /\ disp.job \in Jobs /\ rec.job \in Jobs
        /\ prune.job \in Jobs /\ prune.dir \in Dirs
        /\ cur \in [Jobs -> File] /\ claimed \in SUBSET Jobs
    BY <1>t, TaskType, ClaimerType, PrunerType DEF TypeOK, Minter
  <1>f. /\ NoFile.gen = 0 /\ NewClaim.gen = nextGen /\ nextGen # 0
        /\ \A j \in Jobs : Installed(j).gen = cur[j].gen
        /\ \A d \in Dirs, j \in Jobs :
              [Marker(d, j) EXCEPT !.mtime = clock].gen = Marker(d, j).gen
    BY <1>t, FileTypes DEF Exists, TypeOK
  <1>c. disp \in Claimer
    BY <1>t DEF TypeOK
  <1>d. \A pc : /\ [disp EXCEPT !.pc = pc].pc = pc
                /\ [disp EXCEPT !.pc = pc].job = disp.job
    BY <1>c DEF Claimer
  <1>i. IdleDisp(disp).pc = "idle"
    BY DEF IdleDisp
  \* The claim of a task, and the claim of the dispatch loop, are in cur/.
  <1>h. \A w \in Workers : Holding(w) => Exists(cur[wk[w].job])
    BY DEF SpoolInv, OwnerBacked, GenBound, Exists
  <1>k. disp.pc \in {"postDone", "postError", "revert"} =>
          /\ Exists(cur[disp.job])
          /\ \A w \in Workers : Holding(w) => wk[w].job # disp.job
    BY DEF SpoolInv, TentativeBacked, Exists
  <1>u. \A v, w \in Workers :
          (v # w /\ Holding(v) /\ Holding(w)) => wk[v].job # wk[w].job
    BY DEF SpoolInv, SingleOwner
  <1> USE DEF files, ghosts, tasks
  <1>q. ASSUME UNCHANGED <<cur, done, error, claimed, wk, disp>> PROVE ReplayInv'
    BY <1>q, QuietReplay DEF Holding
  <1>1. ASSUME NEW j \in Jobs, Deliver(j) PROVE ReplayInv'
    BY <1>1, <1>q DEF Deliver
  <1>2. ASSUME NEW j \in Jobs, ClaimBegin(j) PROVE ReplayInv'
    <2>1. disp'.pc = "preDone"
      BY <1>2, <1>c DEF ClaimBegin, Claimer
    <2> QED
      BY <1>2, <2>1, QuietReplay DEF ClaimBegin, Holding
  <1>3. ASSUME NEW j \in Jobs, MintBegin(j) PROVE ReplayInv'
    BY <1>3, <1>q DEF MintBegin
  <1>4. ASSUME NEW j \in Jobs, PruneJudge(j) PROVE ReplayInv'
    BY <1>4, <1>q DEF PruneJudge
  <1>5. ASSUME NEW j \in Jobs, NEW w \in Workers, GcFinalizeBegin(w, j)
        PROVE  ReplayInv'
    <2>1. /\ wk'[w].src = "gc"
          /\ \A v \in Workers : v # w => wk'[v] = wk[v]
          /\ UNCHANGED <<cur, done, error, claimed, disp>>
      BY <1>5, <1>w DEF GcFinalizeBegin
    <2>2. ReplayNeverRuns'
      BY <2>1 DEF ReplayInv, ReplayNeverRuns, Holding, Archived
    <2> QED
      BY <2>1, <2>2 DEF ReplayInv, PostCheck, ReplayGuard, RevertGuard, Archived
  <1>6. CASE ClaimPreDone \/ ClaimPreError
    <2>1. disp'.pc \in {"unlinkNew", "preError", "rename"}
      BY <1>6, <1>d DEF ClaimPreDone, ClaimPreError, DispGoto
    <2> QED
      BY <1>6, <2>1, QuietReplay DEF ClaimPreDone, ClaimPreError, DispGoto, Holding
  <1>7. CASE ClaimPostDone
    <2>1. /\ disp'.job = disp.job
          /\ disp'.pc = IF Exists(done[disp.job]) THEN "revert" ELSE "postError"
          /\ UNCHANGED <<cur, done, error, claimed, wk>>
      BY <1>7, <1>d DEF ClaimPostDone, DispGoto
    <2> QED
      BY <2>1 DEF ReplayInv, ReplayNeverRuns, PostCheck, ReplayGuard, RevertGuard,
                  Archived, Holding
  <1>8. CASE ClaimRename
    <2>1. /\ disp'.pc \in {"idle", "unlinkNew", "postDone"}
          /\ UNCHANGED <<done, error, claimed, wk>>
      <3>1. [disp EXCEPT !.pc = "postDone", !.gen = nextGen].pc = "postDone"
        BY <1>c DEF Claimer
      <3> QED
        BY <1>8, <1>d, <1>i, <3>1 DEF ClaimRename
    <2>2. \A j \in Jobs : Exists(cur[j]) => Exists(cur'[j])
      BY <1>8, <1>w, <1>f DEF ClaimRename, Exists
    <2> QED
      BY <1>w, <2>1, <2>2 DEF ReplayInv, ReplayNeverRuns, PostCheck, ReplayGuard,
                              RevertGuard, Archived, Holding
  <1>10. CASE ClaimPostError
    <2>1. CASE Exists(error[disp.job])
      <3>1. /\ disp'.job = disp.job /\ disp'.pc = "revert"
            /\ UNCHANGED <<cur, done, error, claimed, wk>>
        BY <1>10, <2>1, <1>d DEF ClaimPostError
      <3> QED
        BY <2>1, <3>1 DEF ReplayInv, ReplayNeverRuns, PostCheck, ReplayGuard,
                          RevertGuard, Archived, Holding
    <2>2. CASE ~Exists(error[disp.job])
      <3>1. PICK w \in Workers : Spawn(w, disp.job, disp.gen, "webhook")
        BY <1>10, <2>2 DEF ClaimPostError
      <3>2. /\ wk'[w].pc = "run" /\ wk'[w].job = disp.job
            /\ \A v \in Workers : v # w => wk'[v] = wk[v]
            /\ claimed' = claimed \cup {disp.job}
            /\ UNCHANGED <<cur, done, error>>
            /\ disp'.pc = "idle" /\ disp.pc = "postError"
        BY <1>10, <2>2, <3>1, <1>w, <1>i, SpawnFrame DEF ClaimPostError
      <3>3. ~Archived(disp.job) /\ Exists(cur[disp.job])
        BY <2>2, <3>2, <1>k DEF ReplayInv, PostCheck, Archived
      <3>4. ReplayNeverRuns'
        BY <3>2, <3>3 DEF ReplayInv, ReplayNeverRuns, Holding, Archived
      <3> QED
        BY <3>2, <3>3, <3>4 DEF ReplayInv, PostCheck, ReplayGuard, RevertGuard, Archived
    <2> QED
      BY <2>1, <2>2
  <1>11. CASE ClaimRevert
    <2>1. /\ disp.pc = "revert" /\ disp'.pc = "idle"
          /\ \A j \in Jobs : j # disp.job => cur'[j] = cur[j]
          /\ UNCHANGED <<done, error, claimed, wk>>
      BY <1>11, <1>w, <1>i DEF ClaimRevert
    <2> QED
      BY <1>w, <2>1 DEF ReplayInv, ReplayNeverRuns, PostCheck, ReplayGuard,
                        RevertGuard, Archived, Holding
  <1>12. CASE ClaimUnlinkNew \/ ClaimFails
    BY <1>12, <1>i, QuietReplay DEF ClaimUnlinkNew, ClaimFails, Holding
  <1>13. CASE MintRename
    <2>1. CASE UNCHANGED <<cur, wk, nextGen, claimed>>
      BY <1>13, <2>1, <1>q DEF MintRename
    <2>2. CASE /\ ~Exists(cur[rec.job])
               /\ cur' = [cur EXCEPT ![rec.job] = NewClaim]
               /\ \E w \in Workers : Spawn(w, rec.job, nextGen, "reconcile")
      <3>1. PICK w \in Workers : Spawn(w, rec.job, nextGen, "reconcile")
        BY <1>13, <2>2 DEF MintRename
      <3>2. /\ wk'[w].src = "reconcile"
            /\ \A v \in Workers : v # w => wk'[v] = wk[v]
            /\ claimed' = claimed \cup {rec.job}
        BY <3>1, <1>w, SpawnFrame
      <3>3. /\ Exists(cur'[rec.job])
            /\ \A j \in Jobs : j # rec.job => cur'[j] = cur[j]
            /\ UNCHANGED <<done, error, disp>>
        BY <1>13, <2>2, <1>w, <1>f DEF MintRename, Exists
      <3>4. ReplayNeverRuns'
        BY <3>2, <3>3 DEF ReplayInv, ReplayNeverRuns, Holding, Archived
      <3>5. RevertGuard'
        BY <2>2, <3>2, <3>3, <1>k DEF ReplayInv, RevertGuard, Archived
      <3>6. ReplayGuard'
        BY <1>w, <3>2, <3>3 DEF ReplayInv, ReplayGuard, Archived
      <3> QED
        BY <3>3, <3>4, <3>5, <3>6 DEF ReplayInv, PostCheck
    <2> QED
      BY <1>13, <2>1, <2>2 DEF MintRename
  <1>g. ASSUME NEW w \in Workers, NEW pc, WorkerGoto(w, pc),
               UNCHANGED <<cur, done, error, claimed, disp>>,
               Holding(w) \/ pc \in {"stamp", "unlock"}
        PROVE  ReplayInv'
    <2>1. /\ wk'[w].pc = pc /\ wk'[w].job = wk[w].job /\ wk'[w].src = wk[w].src
          /\ \A v \in Workers : v # w => wk'[v] = wk[v]
      BY <1>g, <1>w, GotoFrame
    <2> QED
      BY <1>g, <2>1, QuietReplay DEF Holding
  \* The claim leaves cur/ in the step that makes it a marker.
  <1>m. ASSUME NEW w \in Workers, WorkerGoto(w, "stamp"), Holding(w),
               cur' = [cur EXCEPT ![wk[w].job] = NoFile],
               SetMarker(wk[w].dest, wk[w].job, Installed(wk[w].job)),
               UNCHANGED <<claimed, disp>>
        PROVE  ReplayInv'
    <2>1. /\ wk'[w].pc = "stamp"
          /\ \A v \in Workers : v # w => wk'[v] = wk[v]
          /\ \A j \in Jobs : j # wk[w].job => cur'[j] = cur[j]
      BY <1>m, <1>w, GotoFrame
    <2>2. Exists(Installed(wk[w].job))
      BY <1>m, <1>h, <1>w, <1>f DEF Exists
    <2>3. /\ \A j \in Jobs : j # wk[w].job => done'[j] = done[j] /\ error'[j] = error[j]
          /\ Exists(done'[wk[w].job]) \/ Exists(error'[wk[w].job])
      BY <1>m, <1>t, <1>w, <2>2, MarkerFrame DEF Dirs
    <2>4. \A v \in Workers : Holding(v)' => v # w /\ Holding(v) /\ wk[v].job # wk[w].job
      BY <1>m, <1>u, <2>1 DEF Holding
    <2>5. ReplayNeverRuns'
      BY <1>w, <2>1, <2>3, <2>4 DEF ReplayInv, ReplayNeverRuns, Archived
    <2>6. PostCheck' /\ RevertGuard'
      BY <1>m, <1>k, <1>w, <2>3 DEF ReplayInv, PostCheck, RevertGuard, Archived
    <2>7. ReplayGuard'
      BY <1>m, <1>w, <2>1, <2>3 DEF ReplayInv, ReplayGuard, Archived
    <2> QED
      BY <2>5, <2>6, <2>7 DEF ReplayInv
  <1>14. ASSUME NEW w \in Workers, LockArchive(w) PROVE ReplayInv'
    BY <1>14, <1>g DEF LockArchive, Holding
  <1>15. ASSUME NEW w \in Workers, ArchiveExcl(w) PROVE ReplayInv'
    <2>1. Holding(w) /\ UNCHANGED <<claimed, disp>>
      BY <1>15 DEF ArchiveExcl, Holding
    <2> QED
      BY <1>15, <2>1, <1>g, <1>m DEF ArchiveExcl
  <1>16. ASSUME NEW w \in Workers, ArchivePreserve(w) PROVE ReplayInv'
    <2>1. Holding(w) /\ UNCHANGED <<cur, claimed, disp>> /\ WorkerGoto(w, "move")
      BY <1>16 DEF ArchivePreserve, Holding
    <2>2. CASE UNCHANGED <<done, error>>
      BY <2>1, <2>2, <1>g
    <2>3. CASE SetMarker(wk[w].dest, wk[w].job, NoFile)
      <3>1. /\ wk'[w].pc = "move" /\ wk'[w].job = wk[w].job /\ wk'[w].src = wk[w].src
            /\ \A v \in Workers : v # w => wk'[v] = wk[v]
        BY <2>1, <1>w, GotoFrame
      <3>2. /\ \A j \in Jobs : j # wk[w].job =>
                                 done'[j] = done[j] /\ error'[j] = error[j]
            /\ Exists(done'[wk[w].job]) => Exists(done[wk[w].job])
            /\ Exists(error'[wk[w].job]) => Exists(error[wk[w].job])
        BY <2>3, <1>t, <1>w, <1>f, MarkerFrame DEF Dirs, Exists
      <3>3. ReplayNeverRuns'
        BY <1>w, <2>1, <3>1, <3>2 DEF ReplayInv, ReplayNeverRuns, Archived, Holding
      <3>4. PostCheck' /\ RevertGuard'
        BY <2>1, <1>k, <1>w, <3>2 DEF ReplayInv, PostCheck, RevertGuard, Archived
      <3>5. ReplayGuard'
        BY <2>1, <1>h, <1>w, <3>2 DEF ReplayInv, ReplayGuard, Archived
      <3> QED
        BY <3>3, <3>4, <3>5 DEF ReplayInv
    <2> QED
      BY <1>16, <2>2, <2>3 DEF ArchivePreserve
  <1>17. ASSUME NEW w \in Workers, ArchiveMove(w) PROVE ReplayInv'
    <2>1. Holding(w) /\ UNCHANGED <<claimed, disp>>
      BY <1>17 DEF ArchiveMove, Holding
    <2>2. CASE /\ WorkerGoto(w, "stamp")
               /\ cur' = [cur EXCEPT ![wk[w].job] = NoFile]
               /\ SetMarker(wk[w].dest, wk[w].job, Installed(wk[w].job))
      BY <2>1, <2>2, <1>m
    <2>3. CASE UNCHANGED <<cur, done, error>> /\ WorkerGoto(w, "unlock")
      BY <2>1, <2>3, <1>g
    \* The rename failed and the old marker goes back.
    <2>4. CASE /\ UNCHANGED cur
               /\ WorkerGoto(w, "unlock")
               /\ SetMarker(wk[w].dest, wk[w].job, bak[wk[w].job])
               /\ Exists(bak[wk[w].job])
      <3>1. /\ wk'[w].pc = "unlock"
            /\ \A v \in Workers : v # w => wk'[v] = wk[v]
        BY <2>4, <1>w, GotoFrame
      <3>2. /\ \A j \in Jobs : j # wk[w].job =>
                                 done'[j] = done[j] /\ error'[j] = error[j]
            /\ Archived(wk[w].job)'
        BY <2>4, <1>t, <1>w, <3>1, MarkerFrame, GotoFrame DEF Dirs, Archived
      <3>3. \A v \in Workers : Holding(v)' => v # w /\ Holding(v) /\ wk[v].job # wk[w].job
        BY <2>1, <1>u, <3>1 DEF Holding
      <3>4. ReplayNeverRuns'
        BY <1>w, <3>1, <3>2, <3>3 DEF ReplayInv, ReplayNeverRuns, Archived
      <3>5. PostCheck' /\ RevertGuard'
        BY <2>1, <1>k, <1>w, <3>2 DEF ReplayInv, PostCheck, RevertGuard, Archived
      <3>6. ReplayGuard'
        BY <2>1, <2>4, <1>h, <1>w, <3>2 DEF ReplayInv, ReplayGuard, Archived
      <3> QED
        BY <3>4, <3>5, <3>6 DEF ReplayInv
    <2> QED
      BY <1>17, <2>2, <2>3, <2>4 DEF ArchiveMove
  <1>18. ASSUME NEW w \in Workers, ArchiveStamp(w) PROVE ReplayInv'
    <2>1. /\ WorkerGoto(w, "unlock")
          /\ UNCHANGED <<cur, claimed, disp>>
      BY <1>18 DEF ArchiveStamp
    <2>2. ASSUME NEW j \in Jobs
          PROVE  /\ Exists(done'[j]) <=> Exists(done[j])
                 /\ Exists(error'[j]) <=> Exists(error[j])
      <3> DEFINE d == wk[w].dest
                 i == wk[w].job
                 m == Marker(d, i)
      <3>1. d \in Dirs /\ i \in Jobs
        BY <1>w
      <3>2. CASE ~Exists(m)
        BY <1>18, <3>2 DEF ArchiveStamp
      <3>3. CASE Exists(m)
        <4>1. SetMarker(d, i, [m EXCEPT !.mtime = clock])
          BY <1>18, <3>3 DEF ArchiveStamp
        <4>2. [m EXCEPT !.mtime = clock].gen = m.gen
          BY <1>f, <3>1
        <4>3. CASE j # i
          BY <4>1, <4>3, <3>1, <1>t, MarkerFrame
        <4>4. CASE j = i /\ d = "done"
          <5>1. done'[i] = [m EXCEPT !.mtime = clock] /\ error'[i] = error[i]
            BY <4>1, <4>4, <3>1, <1>t, MarkerFrame
          <5>2. m = done[i]
            BY <4>4 DEF Marker
          <5>3. done'[i].gen = done[i].gen
            BY <5>1, <5>2, <4>2
          <5> QED
            BY <5>1, <5>3, <4>4 DEF Exists
        <4>5. CASE j = i /\ d = "error"
          <5>1. error'[i] = [m EXCEPT !.mtime = clock] /\ done'[i] = done[i]
            BY <4>1, <4>5, <3>1, <1>t, MarkerFrame
          <5>2. m = error[i]
            BY <4>5 DEF Marker
          <5>3. error'[i].gen = error[i].gen
            BY <5>1, <5>2, <4>2
          <5> QED
            BY <5>1, <5>3, <4>5 DEF Exists
        <4> QED
          BY <3>1, <4>3, <4>4, <4>5 DEF Dirs
      <3> QED
        BY <3>2, <3>3
    <2>3. /\ wk'[w].pc = "unlock"
          /\ \A v \in Workers : v # w => wk'[v] = wk[v]
      BY <2>1, <1>w, GotoFrame
    <2>4. \A j \in Jobs : Archived(j)' <=> Archived(j)
      BY <2>2 DEF Archived
    <2>5. \A v \in Workers : Holding(v)' => Holding(v) /\ wk'[v] = wk[v]
      BY <2>3 DEF Holding
    <2>6. ReplayNeverRuns'
      BY <1>w, <2>4, <2>5 DEF ReplayInv, ReplayNeverRuns
    <2>7. PostCheck'
      BY <1>w, <2>1, <2>2 DEF ReplayInv, PostCheck
    <2>8. ReplayGuard'
      BY <1>w, <2>1, <2>4 DEF ReplayInv, ReplayGuard
    <2>9. RevertGuard'
      BY <1>w, <2>1, <2>4 DEF ReplayInv, RevertGuard
    <2> QED
      BY <2>6, <2>7, <2>8, <2>9 DEF ReplayInv
  <1>19. ASSUME NEW w \in Workers, UnlockArchive(w) PROVE ReplayInv'
    <2>1. /\ wk'[w].pc = "idle"
          /\ \A v \in Workers : v # w => wk'[v] = wk[v]
      BY <1>19, <1>w DEF UnlockArchive, IdleWorker
    <2> QED
      BY <1>19, <2>1, QuietReplay DEF UnlockArchive, Holding
  <1>20. ASSUME NEW w \in Workers, NEW d \in Dirs, FinalizeBegin(w, d) PROVE ReplayInv'
    <2>1. wk[w] \in Task
      BY <1>w
    <2>2. wk'[w] = [wk[w] EXCEPT !.pc = "lock", !.dest = d]
      BY <1>20, <1>w, <2>1 DEF FinalizeBegin, Task
    <2>3. wk'[w].job = wk[w].job /\ wk'[w].src = wk[w].src
      BY <2>1, <2>2 DEF Task
    <2>4. \A v \in Workers : v # w => wk'[v] = wk[v]
      BY <1>20, <1>w DEF FinalizeBegin
    <2> QED
      BY <1>20, <2>3, <2>4, QuietReplay DEF FinalizeBegin, Holding
  <1>21. ASSUME NEW d \in Dirs, PruneBegin(d) PROVE ReplayInv'
    BY <1>21, <1>q DEF PruneBegin
  <1>22. CASE PruneEnd \/ PruneLock \/ PruneRestat
    BY <1>22, <1>q DEF PruneEnd, PruneLock, PruneRestat
  <1>25. CASE PruneUnlink
    <2> SUFFICES ASSUME SetMarker(prune.dir, prune.job, NoFile),
                        claimed' = IF Remembered(prune.job)' THEN claimed
                                   ELSE claimed \ {prune.job}
                 PROVE  ReplayInv'
      BY <1>25, <1>q DEF PruneUnlink
    <2>1. UNCHANGED <<cur, disp, wk>>
      BY <1>25 DEF PruneUnlink
    <2>2. /\ \A j \in Jobs : j # prune.job => done'[j] = done[j] /\ error'[j] = error[j]
          /\ Exists(done'[prune.job]) => Exists(done[prune.job])
          /\ Exists(error'[prune.job]) => Exists(error[prune.job])
      BY <1>t, <1>w, <1>f, MarkerFrame DEF Dirs, Exists
    <2>3. ReplayNeverRuns' /\ PostCheck'
      BY <1>w, <2>1, <2>2 DEF ReplayInv, ReplayNeverRuns, PostCheck, Archived, Holding
    <2>4. ASSUME NEW j \in Jobs, j \in claimed'
          PROVE  /\ j \in claimed
                 /\ j = prune.job => Archived(j)' \/ (Exists(cur[j]) /\ ~Tentative(j))
      <3>1. prune'.job = prune.job
        BY <1>25, <1>t DEF PruneUnlink, TypeOK, Pruner
      <3>2. j \in claimed /\ (j = prune.job => Remembered(prune.job)')
        BY <2>4
      <3>3. j = prune.job => Remembered(j)'
        BY <3>1, <3>2
      <3> QED
        BY <2>1, <3>2, <3>3 DEF Remembered, Tentative
    <2>5. ReplayGuard'
      BY <1>w, <2>1, <2>2, <2>4 DEF ReplayInv, ReplayGuard, Archived
    <2>6. RevertGuard'
      BY <1>w, <2>1, <2>2, <2>4 DEF ReplayInv, RevertGuard, Archived, Tentative
    <2> QED
      BY <2>3, <2>5, <2>6 DEF ReplayInv
  <1>26. CASE Tick
    BY <1>26, <1>q DEF Tick
  <1>27. CASE Crash
    <2>1. /\ \A w \in Workers : ~Holding(w)'
          /\ disp'.pc = "idle"
          /\ UNCHANGED <<cur, done, error, claimed>>
      BY <1>27 DEF Crash, IdleWorker, IdleDisp, Holding
    <2> QED
      BY <2>1 DEF ReplayInv, ReplayNeverRuns, PostCheck, ReplayGuard, RevertGuard, Archived
  <1>28. CASE UNCHANGED vars
    BY <1>28, <1>q DEF vars
  <1> QED
    BY <1>1, <1>2, <1>3, <1>4, <1>5, <1>6, <1>7, <1>8, <1>10, <1>11,
       <1>12, <1>13, <1>14, <1>15, <1>16, <1>17, <1>18, <1>19, <1>20, <1>21,
       <1>22, <1>25, <1>26, <1>27, <1>28
       DEF Next, TryClaim, Finalize, Prune

LEMMA ReplayInvariant == Spec => [](SpoolInv /\ ReplayInv)
  BY InitInv, InvStep, ReplayInit, ReplayStep, PTL DEF Spec

(* A delivery of an archived id never runs, however the finalizer that archives
   it interleaves with try_claim. *)
THEOREM SpoolReplayNeverRuns == Spec => []ReplayNeverRuns
  <1>1. ReplayInv => ReplayNeverRuns
    BY DEF ReplayInv
  <1> QED
    BY ReplayInvariant, <1>1, PTL

(* A started job is remembered by cur/ or by the archive at every point between
   two system calls, until retention forgets it. *)
THEOREM SpoolReplayGuard == Spec => []ReplayGuard
  <1>1. ReplayInv => ReplayGuard
    BY DEF ReplayInv
  <1> QED
    BY ReplayInvariant, <1>1, PTL
-----------------------------------------------------------------------------
(* The claim store.  What a step does to the claim and the markers of an id is all
   that its status can see. *)

\* The id has a claim that is not the dispatch loop's to take back.
Confirmed(j) == Exists(cur[j]) /\ ~Tentative(j)

LEMMA StatusIs ==
    ASSUME NEW j \in Jobs
    PROVE  /\ ClaimStatus[j] = IF Confirmed(j) THEN "owned"
                               ELSE IF Archived(j) THEN "archived" ELSE "free"
           /\ ClaimStatus'[j] = IF Confirmed(j)' THEN "owned"
                                ELSE IF Archived(j)' THEN "archived" ELSE "free"
  BY DEF ClaimStatus, Confirmed

\* A step that leaves all ids but k alone is a step of the claim store if it
\* confirms k's claim, files it, or only removes markers of k.
LEMMA StatusStep ==
    ASSUME NEW k \in Jobs,
           \A j \in Jobs : j # k => /\ Confirmed(j)' <=> Confirmed(j)
                                    /\ Archived(j)' <=> Archived(j),
           \/ Confirmed(k)'
           \/ Confirmed(k) /\ Archived(k)'
           \/ ~Confirmed(k) /\ (Archived(k)' => Archived(k))
    PROVE  [Claims!Next]_ClaimStatus
  <1>1. /\ ClaimStatus = [j \in Jobs |-> ClaimStatus[j]]
        /\ ClaimStatus' = [j \in Jobs |-> ClaimStatus'[j]]
    BY DEF ClaimStatus
  <1>2. \A j \in Jobs : j # k => ClaimStatus'[j] = ClaimStatus[j]
    BY StatusIs
  <1> DEFINE To(s) == ClaimStatus' = [ClaimStatus EXCEPT ![k] = s]
  <1>3. To(ClaimStatus'[k])
    BY <1>1, <1>2
  <1>4. ClaimStatus'[k] = ClaimStatus[k] => ClaimStatus' = ClaimStatus
    BY <1>1, <1>2
  <1>5. CASE Confirmed(k)'
    <2>1. ClaimStatus'[k] = "owned"
      BY <1>5, StatusIs
    <2>2. CASE ClaimStatus[k] = "owned"
      BY <1>4, <2>1, <2>2
    <2>3. CASE ClaimStatus[k] # "owned"
      <3>1. Claims!Mint(k)
        BY <1>3, <2>1, <2>3 DEF Claims!Mint
      <3> QED
        BY <3>1 DEF Claims!Next
    <2> QED
      BY <2>2, <2>3
  <1>6. CASE Confirmed(k) /\ ~Confirmed(k)' /\ Archived(k)'
    <2>1. ClaimStatus[k] = "owned" /\ ClaimStatus'[k] = "archived"
      BY <1>6, StatusIs
    <2>2. Claims!Finish(k)
      BY <1>3, <2>1 DEF Claims!Finish
    <2> QED
      BY <2>2 DEF Claims!Next
  <1>7. CASE ~Confirmed(k) /\ ~Confirmed(k)' /\ (Archived(k)' => Archived(k))
    <2>1. CASE Archived(k)' <=> Archived(k)
      BY <1>4, <1>7, <2>1, StatusIs
    <2>2. CASE Archived(k) /\ ~Archived(k)'
      <3>1. ClaimStatus[k] = "archived" /\ ClaimStatus'[k] = "free"
        BY <1>7, <2>2, StatusIs
      <3>2. Claims!Forget(k)
        BY <1>3, <3>1 DEF Claims!Forget
      <3> QED
        BY <3>2 DEF Claims!Next
    <2> QED
      BY <1>7, <2>1, <2>2
  <1> QED
    BY <1>5, <1>6, <1>7

LEMMA StatusInit == Init => Claims!Init
  BY DEF Init, Claims!Init, ClaimStatus, Archived, Exists, NoFile, Tentative

LEMMA ClaimsStep == SpoolInv /\ [Next]_vars => [Claims!Next]_ClaimStatus
  <1> SUFFICES ASSUME SpoolInv, [Next]_vars PROVE [Claims!Next]_ClaimStatus
    OBVIOUS
  <1>t. TypeOK
    BY DEF SpoolInv
  <1>w. /\ wk \in [Workers -> Task]
        /\ \A w \in Workers : wk[w].job \in Jobs /\ wk[w].dest \in Dirs
        /\ disp.job \in Jobs /\ rec.job \in Jobs
        /\ prune.job \in Jobs /\ prune.dir \in Dirs
        /\ cur \in [Jobs -> File] /\ disp \in Claimer
    BY <1>t, TaskType, ClaimerType, PrunerType DEF TypeOK, Minter
  <1>f. /\ ~Exists(NoFile) /\ Exists(NewClaim)
        /\ \A j \in Jobs : Exists(Installed(j)) <=> Exists(cur[j])
        /\ \A d \in Dirs, j \in Jobs :
              Exists([Marker(d, j) EXCEPT !.mtime = clock]) <=> Exists(Marker(d, j))
    BY <1>t, FileTypes DEF Exists, TypeOK
  <1>d. \A pc : /\ [disp EXCEPT !.pc = pc].pc = pc
                /\ [disp EXCEPT !.pc = pc].job = disp.job
    BY <1>w DEF Claimer
  <1>e. /\ IdleDisp(disp).pc = "idle"
        /\ \A pc, j : [disp EXCEPT !.pc = pc, !.job = j].pc = pc
        /\ \A pc, g : /\ [disp EXCEPT !.pc = pc, !.gen = g].pc = pc
                      /\ [disp EXCEPT !.pc = pc, !.gen = g].job = disp.job
    BY <1>w DEF Claimer, IdleDisp
  \* A task's claim is in cur/ and confirmed.
  <1>h. \A w \in Workers : Holding(w) => Confirmed(wk[w].job)
    BY DEF SpoolInv, OwnerBacked, GenBound, TentativeBacked, Exists, Confirmed, Tentative
  <1>k. disp.pc \in {"postDone", "postError", "revert"} => Exists(cur[disp.job])
    BY DEF SpoolInv, TentativeBacked, Exists
  <1> USE DEF files, ghosts, tasks
  \* A step that leaves cur/, the archive and the dispatch loop's claim alone.
  <1>q. ASSUME UNCHANGED <<cur, done, error>>, \A j \in Jobs : Tentative(j)' <=> Tentative(j)
        PROVE  [Claims!Next]_ClaimStatus
    BY <1>q, <1>w, StatusStep DEF Confirmed, Archived
  <1>1. CASE UNCHANGED <<cur, done, error, disp>>
    BY <1>1, <1>q DEF Tentative
  <1>2. ASSUME NEW j \in Jobs, ClaimBegin(j) PROVE [Claims!Next]_ClaimStatus
    <2>1. disp'.pc = "preDone"
      BY <1>2, <1>e DEF ClaimBegin
    <2> QED
      BY <1>2, <1>q, <2>1 DEF ClaimBegin, Tentative
  <1>3. CASE ClaimPreDone \/ ClaimPreError \/ ClaimPostDone
    <2>1. /\ disp'.job = disp.job
          /\ \/ /\ disp.pc \in {"preDone", "preError"}
                /\ disp'.pc \in {"unlinkNew", "preError", "rename"}
             \/ disp.pc = "postDone" /\ disp'.pc \in {"revert", "postError"}
          /\ UNCHANGED <<cur, done, error>>
      BY <1>3, <1>d DEF ClaimPreDone, ClaimPreError, ClaimPostDone, DispGoto
    <2> QED
      BY <1>q, <2>1 DEF Tentative
  \* The claim is made, and is tentative.
  <1>4. CASE ClaimRename
    <2>1. disp.pc = "rename" /\ UNCHANGED <<done, error>>
      BY <1>4 DEF ClaimRename
    <2>2. CASE disp' = IdleDisp(disp) /\ UNCHANGED cur
      BY <1>e, <1>q, <2>1, <2>2 DEF Tentative
    <2>3. CASE disp' = [disp EXCEPT !.pc = "unlinkNew"] /\ UNCHANGED cur
      BY <1>d, <1>q, <2>1, <2>3 DEF Tentative
    <2>4. CASE /\ ~Exists(cur[disp.job])
               /\ cur' = [cur EXCEPT ![disp.job] = NewClaim]
               /\ disp' = [disp EXCEPT !.pc = "postDone", !.gen = nextGen]
      <3>1. disp'.pc = "postDone" /\ disp'.job = disp.job
        BY <1>e, <2>4
      <3>2. \A j \in Jobs : j # disp.job => cur'[j] = cur[j]
        BY <1>w, <2>4
      <3>3. \A j \in Jobs : Archived(j)' <=> Archived(j)
        BY <2>1 DEF Archived
      <3>4. /\ ~Confirmed(disp.job)
            /\ \A j \in Jobs : j # disp.job => (Confirmed(j)' <=> Confirmed(j))
        BY <2>1, <2>4, <3>1, <3>2 DEF Confirmed, Tentative
      <3> QED
        BY <1>w, <3>3, <3>4, StatusStep
    <2> QED
      BY <1>4, <2>2, <2>3, <2>4 DEF ClaimRename
  \* The tentative claim is confirmed, or left in cur/ by a revert that fails.
  <1>c. ASSUME UNCHANGED <<cur, done, error>>, disp'.pc = "idle",
               disp.pc \in {"postError", "revert", "rename", "unlinkNew"}
        PROVE  [Claims!Next]_ClaimStatus
    <2>1. \A j \in Jobs : Archived(j)' <=> Archived(j)
      BY <1>c DEF Archived
    <2>2. \A j \in Jobs : Confirmed(j)' <=> Exists(cur[j])
      BY <1>c DEF Confirmed, Tentative
    <2>3. \A j \in Jobs : j # disp.job => (Confirmed(j) <=> Exists(cur[j]))
      BY DEF Confirmed, Tentative
    <2>4. PICK k \in Jobs : k = disp.job
      BY <1>w
    <2>5. Confirmed(k) => Confirmed(k)'
      BY <2>2 DEF Confirmed
    <2> QED
      BY <2>1, <2>2, <2>3, <2>4, <2>5, StatusStep
  <1>5. CASE ClaimPostError
    <2>1. CASE Exists(error[disp.job])
      <3>1. /\ disp'.job = disp.job /\ disp'.pc = "revert" /\ disp.pc = "postError"
            /\ UNCHANGED <<cur, done, error>>
        BY <1>5, <2>1, <1>d DEF ClaimPostError
      <3> QED
        BY <1>q, <3>1 DEF Tentative
    <2>2. CASE ~Exists(error[disp.job])
      BY <1>5, <2>2, <1>c, <1>e DEF ClaimPostError
    <2> QED
      BY <2>1, <2>2
  <1>6. CASE ClaimUnlinkNew \/ ClaimFails
    BY <1>6, <1>c, <1>e DEF ClaimUnlinkNew, ClaimFails
  <1>7. CASE ClaimRevert
    <2>1. /\ disp.pc = "revert" /\ disp'.pc = "idle"
          /\ \A j \in Jobs : j # disp.job => cur'[j] = cur[j]
          /\ ~Exists(cur'[disp.job])
          /\ UNCHANGED <<done, error>>
      BY <1>7, <1>w, <1>e, <1>f DEF ClaimRevert
    <2>2. \A j \in Jobs : Archived(j)' <=> Archived(j)
      BY <2>1 DEF Archived
    <2>3. /\ ~Confirmed(disp.job)
          /\ \A j \in Jobs : j # disp.job => (Confirmed(j)' <=> Confirmed(j))
      BY <2>1 DEF Confirmed, Tentative
    <2> QED
      BY <1>w, <2>2, <2>3, StatusStep
  \* A synthetic claim is confirmed as it is made.
  <1>8. CASE MintRename
    <2> SUFFICES ASSUME ~Exists(cur[rec.job]), cur' = [cur EXCEPT ![rec.job] = NewClaim]
                 PROVE  [Claims!Next]_ClaimStatus
      BY <1>8, <1>1 DEF MintRename
    <2>1. /\ \A j \in Jobs : j # rec.job => cur'[j] = cur[j]
          /\ Exists(cur'[rec.job])
          /\ UNCHANGED <<done, error, disp>>
      BY <1>8, <1>w, <1>f DEF MintRename
    <2>2. \A j \in Jobs : (Archived(j)' <=> Archived(j)) /\ (Tentative(j)' <=> Tentative(j))
      BY <2>1 DEF Archived, Tentative
    <2>3. ~Tentative(rec.job)
      BY <1>k DEF Tentative
    <2>4. PICK k \in Jobs : k = rec.job
      BY <1>w
    <2>5. /\ \A j \in Jobs : j # k => (Confirmed(j)' <=> Confirmed(j))
          /\ Confirmed(k)'
      BY <2>1, <2>2, <2>3, <2>4 DEF Confirmed
    <2> QED
      BY <2>2, <2>5, StatusStep
  \* A task's steps on its own id, with the dispatch loop where it was.
  <1>m. ASSUME NEW w \in Workers, UNCHANGED disp,
               \A j \in Jobs : j # wk[w].job =>
                 /\ cur'[j] = cur[j] /\ done'[j] = done[j] /\ error'[j] = error[j],
               \/ Holding(w) /\ UNCHANGED cur
               \/ Holding(w) /\ \E k \in Jobs : k = wk[w].job /\ Archived(k)'
        PROVE  [Claims!Next]_ClaimStatus
    <2>1. PICK k \in Jobs : k = wk[w].job
      BY <1>w
    <2>2. \A j \in Jobs : Tentative(j)' <=> Tentative(j)
      BY <1>m DEF Tentative
    <2>3. \A j \in Jobs : j # k => /\ Confirmed(j)' <=> Confirmed(j)
                                   /\ Archived(j)' <=> Archived(j)
      BY <1>m, <2>1, <2>2 DEF Confirmed, Archived
    <2>4. Confirmed(k)
      BY <1>h, <1>m, <2>1
    <2>5. Confirmed(k)' \/ Archived(k)'
      BY <1>m, <2>1, <2>2, <2>4 DEF Confirmed
    <2> QED
      BY <2>3, <2>4, <2>5, StatusStep
  <1>i. ASSUME NEW w \in Workers, Holding(w), UNCHANGED disp,
               cur' = [cur EXCEPT ![wk[w].job] = NoFile],
               SetMarker(wk[w].dest, wk[w].job, Installed(wk[w].job))
        PROVE  [Claims!Next]_ClaimStatus
    <2>1. PICK k \in Jobs : k = wk[w].job
      BY <1>w
    <2>2. Exists(Installed(k))
      BY <1>i, <1>h, <1>f, <2>1 DEF Confirmed
    <2>3. /\ \A j \in Jobs : j # k => /\ cur'[j] = cur[j] /\ done'[j] = done[j]
                                      /\ error'[j] = error[j]
          /\ Exists(done'[k]) \/ Exists(error'[k])
      BY <1>i, <1>t, <1>w, <2>1, <2>2, MarkerFrame DEF Dirs
    <2>4. Archived(k)'
      BY <2>3 DEF Archived
    <2> QED
      BY <1>i, <1>m, <2>1, <2>3, <2>4
  <1>9. ASSUME NEW w \in Workers, ArchiveExcl(w) PROVE [Claims!Next]_ClaimStatus
    <2>1. Holding(w) /\ UNCHANGED disp
      BY <1>9 DEF ArchiveExcl, Holding
    <2> QED
      BY <1>9, <1>1, <1>i, <2>1 DEF ArchiveExcl
  <1>10. ASSUME NEW w \in Workers, ArchivePreserve(w) PROVE [Claims!Next]_ClaimStatus
    <2>1. Holding(w) /\ UNCHANGED <<disp, cur>>
      BY <1>10 DEF ArchivePreserve, Holding
    <2>2. \A j \in Jobs : j # wk[w].job => done'[j] = done[j] /\ error'[j] = error[j]
      BY <1>10, <1>t, <1>w, MarkerFrame DEF ArchivePreserve
    <2> QED
      BY <1>m, <2>1, <2>2
  <1>11. ASSUME NEW w \in Workers, ArchiveMove(w) PROVE [Claims!Next]_ClaimStatus
    <2>1. Holding(w) /\ UNCHANGED disp
      BY <1>11 DEF ArchiveMove, Holding
    <2>2. CASE /\ cur' = [cur EXCEPT ![wk[w].job] = NoFile]
               /\ SetMarker(wk[w].dest, wk[w].job, Installed(wk[w].job))
      BY <1>i, <2>1, <2>2
    <2>3. CASE UNCHANGED <<cur, done, error>>
      BY <1>1, <2>1, <2>3
    <2>4. CASE UNCHANGED cur /\ SetMarker(wk[w].dest, wk[w].job, bak[wk[w].job])
      <3>1. \A j \in Jobs : j # wk[w].job => done'[j] = done[j] /\ error'[j] = error[j]
        BY <2>4, <1>t, <1>w, MarkerFrame
      <3> QED
        BY <1>m, <2>1, <2>4, <3>1
    <2> QED
      BY <1>11, <2>2, <2>3, <2>4 DEF ArchiveMove
  \* A marker is removed, or keeps being there.
  <1>p. ASSUME NEW k \in Jobs, UNCHANGED <<cur, disp>>,
               \A j \in Jobs : j # k => done'[j] = done[j] /\ error'[j] = error[j],
               /\ Exists(done'[k]) => Exists(done[k])
               /\ Exists(error'[k]) => Exists(error[k])
        PROVE  [Claims!Next]_ClaimStatus
    <2>1. \A j \in Jobs : Confirmed(j)' <=> Confirmed(j)
      BY <1>p DEF Confirmed, Tentative
    <2>2. /\ \A j \in Jobs : j # k => (Archived(j)' <=> Archived(j))
          /\ Archived(k)' => Archived(k)
      BY <1>p DEF Archived
    <2> QED
      BY <2>1, <2>2, StatusStep
  <1>12. ASSUME NEW w \in Workers, ArchiveStamp(w) PROVE [Claims!Next]_ClaimStatus
    <2>1. UNCHANGED <<cur, disp>>
      BY <1>12 DEF ArchiveStamp
    <2> SUFFICES ASSUME SetMarker(wk[w].dest, wk[w].job,
                          [Marker(wk[w].dest, wk[w].job) EXCEPT !.mtime = clock])
                 PROVE  [Claims!Next]_ClaimStatus
      BY <1>12, <1>1, <2>1 DEF ArchiveStamp
    <2> DEFINE d == wk[w].dest
               i == wk[w].job
               f == [Marker(d, i) EXCEPT !.mtime = clock]
    <2>2. d \in Dirs /\ i \in Jobs /\ SetMarker(d, i, f)
      BY <1>w
    <2>3. Exists(f) <=> Exists(Marker(d, i))
      BY <1>f, <2>2
    <2> HIDE DEF d, i, f
    <2>4. /\ \A j \in Jobs : j # i => done'[j] = done[j] /\ error'[j] = error[j]
          /\ Exists(done'[i]) => Exists(done[i])
          /\ Exists(error'[i]) => Exists(error[i])
      BY <1>t, <2>2, <2>3, MarkerFrame DEF Dirs, Marker
    <2> QED
      BY <1>p, <2>1, <2>2, <2>4
  <1>13. CASE PruneUnlink
    <2>1. UNCHANGED <<cur, disp>>
      BY <1>13 DEF PruneUnlink
    <2>2. CASE UNCHANGED <<done, error>>
      BY <1>1, <2>1, <2>2
    <2>3. CASE SetMarker(prune.dir, prune.job, NoFile)
      <3>1. /\ \A j \in Jobs : j # prune.job => done'[j] = done[j] /\ error'[j] = error[j]
            /\ Exists(done'[prune.job]) => Exists(done[prune.job])
            /\ Exists(error'[prune.job]) => Exists(error[prune.job])
        BY <1>t, <1>w, <1>f, <2>3, MarkerFrame DEF Dirs
      <3> QED
        BY <1>p, <1>w, <2>1, <3>1
    <2> QED
      BY <1>13, <2>2, <2>3 DEF PruneUnlink
  \* A crash turns a tentative claim into one nobody takes back.
  <1>14. CASE Crash
    <2>1. UNCHANGED <<cur, done, error>> /\ disp'.pc = "idle"
      BY <1>14, <1>e DEF Crash
    <2>2. \A j \in Jobs : Archived(j)' <=> Archived(j)
      BY <2>1 DEF Archived
    <2>3. \A j \in Jobs : ~Tentative(j)'
      BY <2>1 DEF Tentative
    <2>4. \A j \in Jobs : j # disp.job => ~Tentative(j)
      BY DEF Tentative
    <2>5. \A j \in Jobs : j # disp.job => (Confirmed(j)' <=> Confirmed(j))
      BY <2>1, <2>3, <2>4 DEF Confirmed
    <2>6. PICK k \in Jobs : k = disp.job
      BY <1>w
    <2>7. Confirmed(k) => Confirmed(k)'
      BY <2>1, <2>3 DEF Confirmed
    <2> QED
      BY <2>2, <2>5, <2>6, <2>7, StatusStep
  <1> QED
    BY <1>1, <1>2, <1>3, <1>4, <1>5, <1>6, <1>7, <1>8, <1>9, <1>10, <1>11, <1>12, <1>13,
       <1>14
       DEF Next, TryClaim, Finalize, Prune, Deliver, MintBegin, PruneJudge,
           GcFinalizeBegin, LockArchive, UnlockArchive, FinalizeBegin, PruneBegin,
           PruneEnd, PruneLock, PruneRestat, Tick, vars

(* The spool implements the atomic claim store: its system calls, interleaved and
   cut short by crashes, take no job that is owned, start no archived one on a
   webhook, and never lose a claim before its marker is there. *)
THEOREM SpoolImplementsClaimStore == Spec => ClaimsSpec
  <1>1. SpoolInv /\ [Next]_vars => [Claims!Next]_ClaimStatus
    BY ClaimsStep
  <1>2. Spec => []SpoolInv
    BY ReplayInvariant, PTL
  <1> QED
    BY <1>1, <1>2, StatusInit, PTL DEF Spec, ClaimsSpec, Claims!Spec
-----------------------------------------------------------------------------
(* The archive under its lock. *)

\* The task is inside archive().
InArchive(w) == wk[w].pc \in {"excl", "preserve", "move", "stamp", "unlock"}

\* ARCHIVE_MUTATION_LOCK: one finalizer, or the pruner's second look and unlink.
Locked ==
    /\ prune.pc \in {"restat", "unlink"} => lock = "prune"
    /\ \A w \in Workers : InArchive(w) => lock = "fin"
    /\ \A v, w \in Workers : InArchive(v) /\ InArchive(w) => v = w

\* No file is from the future, and what is absent has left nothing behind.
Whole(f) == (Exists(f) \/ f = NoFile) /\ f.mtime <= clock /\ f.fin <= clock

Dated ==
    /\ \A j \in Jobs : Whole(cur[j]) /\ Whole(done[j]) /\ Whole(error[j]) /\ Whole(bak[j])
    /\ prune.now <= clock

\* A marker has its stamp unless its finalizer is about to give it one or died.
Unfinished(d, j) ==
    \/ crashes > 0
    \/ \E w \in Workers : wk[w].pc = "stamp" /\ wk[w].dest = d /\ wk[w].job = j

Stamped ==
    /\ \A d \in Dirs, j \in Jobs :
         Marker(d, j).mtime < Marker(d, j).fin => Unfinished(d, j)
    /\ \A j \in Jobs : bak[j].mtime < bak[j].fin => crashes > 0

\* A marker goes back only to where it was taken from.
Vacant ==
    \A w \in Workers : wk[w].pc = "move" /\ Exists(bak[wk[w].job]) =>
        ~Exists(Marker(wk[w].dest, wk[w].job))

\* What the pruner is about to unlink is what it looked at under the lock.
Judged == prune.pc = "unlink" => Expired(prune.now, Marker(prune.dir, prune.job))

\* A claim is reverted for a marker that only the pruner may have removed since.
Reverting == disp.pc = "revert" => Archived(disp.job) \/ clock > Retention

ArchiveInv == Locked /\ Dated /\ Stamped /\ Vacant /\ Judged /\ Reverting
-----------------------------------------------------------------------------
LEMMA ArchiveInit == Init => ArchiveInv
  <1> SUFFICES ASSUME Init PROVE ArchiveInv
    OBVIOUS
  <1>1. /\ \A w \in Workers : wk[w].pc = "idle"
        /\ disp.pc = "idle" /\ prune.pc = "idle" /\ prune.now = 0
        /\ clock = 0
        /\ \A j \in Jobs : /\ cur[j] = NoFile /\ done[j] = NoFile /\ error[j] = NoFile
                           /\ bak[j] = NoFile
    BY DEF Init
  <1>2. \A f : f = NoFile => Whole(f) /\ ~(f.mtime < f.fin)
    BY <1>1 DEF Whole, NoFile
  <1>3. Dated
    BY <1>1, <1>2 DEF Dated
  <1>4. Stamped
    BY <1>1, <1>2 DEF Stamped, Marker
  <1> QED
    BY <1>1, <1>3, <1>4 DEF ArchiveInv, Locked, InArchive, Vacant, Judged, Reverting

\* The lock is taken when it is free and released by whoever has it.
LEMMA LockedStep == TypeOK /\ Locked /\ [Next]_vars => Locked'
  <1> SUFFICES ASSUME TypeOK, Locked, [Next]_vars PROVE Locked'
    OBVIOUS
  <1>w. /\ wk \in [Workers -> Task] /\ prune \in Pruner
    BY DEF TypeOK
  <1>p. /\ \A pc : [prune EXCEPT !.pc = pc].pc = pc
        /\ \A pc, j : [prune EXCEPT !.pc = pc, !.job = j].pc = pc
        /\ \A pc, d, n : [prune EXCEPT !.pc = pc, !.dir = d, !.now = n].pc = pc
        /\ IdlePrune(prune).pc = "idle"
    BY <1>w DEF Pruner, IdlePrune
  <1> USE DEF files, ghosts, tasks
  \* Steps that do not touch the lock and take no task into archive().
  <1>q. ASSUME UNCHANGED lock,
               prune'.pc \in {"restat", "unlink"} => prune.pc \in {"restat", "unlink"},
               \A w \in Workers : InArchive(w)' => InArchive(w)
        PROVE  Locked'
    BY <1>q DEF Locked
  <1>1. CASE UNCHANGED <<lock, prune, wk>>
    BY <1>1, <1>q DEF InArchive
  <1>2. ASSUME NEW w \in Workers, NEW pc, wk'[w].pc = pc, InArchive(w) \/ pc \in {"run", "lock"},
               \A v \in Workers : v # w => wk'[v] = wk[v], UNCHANGED <<lock, prune>>
        PROVE  Locked'
    BY <1>2, <1>q DEF InArchive
  <1>g. ASSUME NEW w \in Workers, NEW pc, WorkerGoto(w, pc), InArchive(w),
               UNCHANGED <<lock, prune>>
        PROVE  Locked'
    BY <1>2, <1>g, <1>w, GotoFrame
  <1>3. CASE ClaimPostError \/ MintRename
    BY <1>1, <1>2, <1>3, <1>w, SpawnFrame DEF ClaimPostError, MintRename
  <1>4. ASSUME NEW j \in Jobs, NEW w \in Workers, GcFinalizeBegin(w, j) PROVE Locked'
    BY <1>2, <1>4, <1>w DEF GcFinalizeBegin
  <1>5. ASSUME NEW w \in Workers, NEW d \in Dirs, FinalizeBegin(w, d) PROVE Locked'
    <2>1. wk'[w].pc = "lock" /\ \A v \in Workers : v # w => wk'[v] = wk[v]
      BY <1>5, <1>w DEF FinalizeBegin, Task
    <2> QED
      BY <1>2, <1>5, <2>1 DEF FinalizeBegin
  <1>6. ASSUME NEW w \in Workers, LockArchive(w) PROVE Locked'
    <2>1. /\ lock = "free" /\ lock' = "fin" /\ UNCHANGED prune
          /\ \A v \in Workers : v # w => wk'[v] = wk[v]
      BY <1>6, <1>w, GotoFrame DEF LockArchive
    <2> QED
      BY <2>1 DEF Locked, InArchive
  <1>7. ASSUME NEW w \in Workers, UnlockArchive(w) PROVE Locked'
    <2>1. /\ wk[w].pc = "unlock" /\ wk'[w].pc = "idle" /\ UNCHANGED prune
          /\ \A v \in Workers : v # w => wk'[v] = wk[v]
      BY <1>7, <1>w DEF UnlockArchive, IdleWorker
    <2>2. \A v \in Workers : ~InArchive(v)'
      BY <2>1 DEF Locked, InArchive
    <2> QED
      BY <2>1, <2>2 DEF Locked, InArchive
  <1>8. ASSUME NEW w \in Workers,
               ArchiveExcl(w) \/ ArchivePreserve(w) \/ ArchiveMove(w) \/ ArchiveStamp(w)
        PROVE  Locked'
    BY <1>8, <1>g DEF ArchiveExcl, ArchivePreserve, ArchiveMove, ArchiveStamp, InArchive
  <1>9. CASE PruneLock
    BY <1>9 DEF PruneLock, Locked, InArchive
  <1>10. CASE PruneRestat \/ PruneUnlink
    <2>1. /\ prune.pc \in {"restat", "unlink"} /\ UNCHANGED wk
          /\ UNCHANGED lock \/ prune'.pc = "scan"
      BY <1>10, <1>p DEF PruneRestat, PruneUnlink
    <2> QED
      BY <2>1 DEF Locked, InArchive
  <1>11. CASE PruneEnd \/ (\E j \in Jobs : PruneJudge(j)) \/ \E d \in Dirs : PruneBegin(d)
    <2>1. PruneEnd => prune'.pc = "idle"
      BY <1>p DEF PruneEnd
    <2>2. \A j \in Jobs : PruneJudge(j) => prune'.pc = "lock"
      BY <1>p DEF PruneJudge
    <2>3. \A d \in Dirs : PruneBegin(d) => prune'.pc = "scan"
      BY <1>p DEF PruneBegin
    <2>4. UNCHANGED <<lock, wk>>
      BY <1>11 DEF PruneEnd, PruneJudge, PruneBegin
    <2> QED
      BY <1>11, <1>q, <2>1, <2>2, <2>3, <2>4 DEF InArchive
  <1>12. CASE Crash
    <2>1. prune'.pc = "idle" /\ \A w \in Workers : wk'[w].pc = "idle"
      BY <1>12, <1>p DEF Crash, IdleWorker
    <2> QED
      BY <2>1 DEF Locked, InArchive
  <1> QED
    BY <1>1, <1>3, <1>4, <1>5, <1>6, <1>7, <1>8, <1>9, <1>10, <1>11, <1>12
       DEF Next, TryClaim, Finalize, Prune, Deliver, ClaimBegin, MintBegin, Tick, vars,
           ClaimPreDone, ClaimPreError, ClaimPostDone, DispGoto, ClaimRename, ClaimRevert,
           ClaimUnlinkNew, ClaimFails

\* What a step may make of a file.
LEMMA WholeFiles ==
    ASSUME TypeOK, clock' \in Nat, clock <= clock'
    PROVE  /\ Whole(NoFile)' /\ Whole(NewClaim)
           /\ \A f \in File : Whole(f) => Whole(f)'
           /\ \A j \in Jobs : Whole(cur[j]) /\ Exists(cur[j]) => Whole(Installed(j))
           /\ \A f \in File : Whole(f) /\ Exists(f) => Whole([f EXCEPT !.mtime = clock])
  <1>t. clock \in Nat /\ nextGen \in Nat \ {0} /\ \A j \in Jobs : cur[j] \in File
    BY DEF TypeOK
  <1>1. Whole(NoFile)'
    BY DEF Whole, NoFile
  <1>2. Whole(NewClaim)
    BY <1>t DEF Whole, NewClaim, Exists
  <1>3. \A f \in File : Whole(f) => Whole(f)'
    BY <1>t DEF Whole, File
  <1>4. ASSUME NEW f \in File, Whole(f), Exists(f)
        PROVE  Whole([f EXCEPT !.mtime = clock]) /\ Whole([f EXCEPT !.fin = clock])
    BY <1>4, <1>t DEF Whole, Exists, File
  <1> QED
    BY <1>1, <1>2, <1>3, <1>4, <1>t DEF Installed

LEMMA DatedStep == SpoolInv /\ Dated /\ [Next]_vars => Dated'
  <1> SUFFICES ASSUME SpoolInv, Dated, [Next]_vars PROVE Dated'
    OBVIOUS
  <1>t. TypeOK
    BY DEF SpoolInv
  <1>w. /\ \A w \in Workers : wk[w].job \in Jobs /\ wk[w].dest \in Dirs
        /\ disp.job \in Jobs /\ rec.job \in Jobs
        /\ prune.job \in Jobs /\ prune.dir \in Dirs /\ prune.now \in Nat
        /\ cur \in [Jobs -> File] /\ done \in [Jobs -> File] /\ error \in [Jobs -> File]
        /\ bak \in [Jobs -> File] /\ clock \in Nat
    BY <1>t, TaskType, ClaimerType, PrunerType DEF TypeOK, Minter
  <1>f. /\ UNCHANGED clock => Whole(NoFile)
        /\ UNCHANGED clock => Whole(NewClaim)
        /\ UNCHANGED clock => \A j \in Jobs : Exists(cur[j]) => Whole(Installed(j))
        /\ UNCHANGED clock => \A f \in File : Whole(f) /\ Exists(f) =>
                                 Whole([f EXCEPT !.mtime = clock])
    <2>1. \A j \in Jobs : Whole(cur[j])
      BY DEF Dated
    <2>2. UNCHANGED clock => (Whole(NoFile)' <=> Whole(NoFile))
      BY DEF Whole
    <2> QED
      BY <1>t, <1>w, <2>1, <2>2, WholeFiles
  <1> USE DEF files, ghosts, tasks
  <1>k. ASSUME UNCHANGED clock, prune'.now <= clock,
               \A j \in Jobs : /\ Whole(cur'[j]) /\ Whole(done'[j]) /\ Whole(error'[j])
                               /\ Whole(bak'[j])
        PROVE  Dated'
    BY <1>k DEF Dated, Whole
  <1>d. prune.now <= clock /\ \A j \in Jobs : /\ Whole(cur[j]) /\ Whole(done[j])
                                              /\ Whole(error[j]) /\ Whole(bak[j])
    BY DEF Dated
  <1>1. CASE UNCHANGED <<cur, done, error, bak, clock>> /\ prune'.now <= clock
    BY <1>1, <1>d, <1>k
  <1>2. ASSUME NEW k \in Jobs, NEW f, Whole(f), cur' = [cur EXCEPT ![k] = f],
               UNCHANGED <<done, error, bak, clock, prune>>
        PROVE  Dated'
    BY <1>2, <1>d, <1>k, <1>w
  <1>3. CASE ClaimRename \/ ClaimRevert \/ MintRename
    BY <1>1, <1>2, <1>3, <1>d, <1>f, <1>w DEF ClaimRename, ClaimRevert, MintRename
  <1>m. ASSUME NEW d \in Dirs, NEW k \in Jobs, NEW f, Whole(f), SetMarker(d, k, f)
        PROVE  \A j \in Jobs : Whole(done'[j]) /\ Whole(error'[j])
    BY <1>m, <1>d, <1>t, MarkerFrame DEF Dirs
  <1>n. Whole(NoFile) \/ clock' # clock
    BY <1>f
  <1>4. ASSUME NEW w \in Workers, ArchiveExcl(w) PROVE Dated'
    <2>1. UNCHANGED <<bak, clock, prune>>
      BY <1>4 DEF ArchiveExcl
    <2>2. \A j \in Jobs : Whole(cur'[j])
      BY <1>4, <1>d, <1>f, <1>w, <2>1 DEF ArchiveExcl
    <2>3. \A j \in Jobs : Whole(done'[j]) /\ Whole(error'[j])
      BY <1>4, <1>d, <1>f, <1>m, <1>w, <2>1 DEF ArchiveExcl
    <2> QED
      BY <1>d, <1>k, <2>1, <2>2, <2>3
  <1>5. ASSUME NEW w \in Workers, ArchivePreserve(w) PROVE Dated'
    <2>1. UNCHANGED <<cur, clock, prune>>
      BY <1>5 DEF ArchivePreserve
    <2>2. \A j \in Jobs : Whole(bak'[j])
      <3>1. Whole(Marker(wk[w].dest, wk[w].job))
        BY <1>d, <1>w DEF Marker
      <3> QED
        BY <1>5, <1>d, <1>f, <1>w, <2>1, <3>1 DEF ArchivePreserve
    <2>3. \A j \in Jobs : Whole(done'[j]) /\ Whole(error'[j])
      BY <1>5, <1>d, <1>f, <1>m, <1>w, <2>1 DEF ArchivePreserve
    <2> QED
      BY <1>d, <1>k, <2>1, <2>2, <2>3
  <1>6. ASSUME NEW w \in Workers, ArchiveMove(w) PROVE Dated'
    <2>1. UNCHANGED <<clock, prune>>
      BY <1>6 DEF ArchiveMove
    <2>2. \A j \in Jobs : Whole(cur'[j]) /\ Whole(bak'[j])
      BY <1>6, <1>d, <1>f, <1>w, <2>1 DEF ArchiveMove
    <2>3. \A j \in Jobs : Whole(done'[j]) /\ Whole(error'[j])
      BY <1>6, <1>d, <1>f, <1>m, <1>w, <2>1 DEF ArchiveMove
    <2> QED
      BY <1>d, <1>k, <2>1, <2>2, <2>3
  <1>7. ASSUME NEW w \in Workers, ArchiveStamp(w) PROVE Dated'
    <2>1. UNCHANGED <<cur, bak, clock, prune>>
      BY <1>7 DEF ArchiveStamp
    <2>2. /\ Whole(Marker(wk[w].dest, wk[w].job))
          /\ Marker(wk[w].dest, wk[w].job) \in File
      BY <1>d, <1>w DEF Marker
    <2>3. \A j \in Jobs : Whole(done'[j]) /\ Whole(error'[j])
      BY <1>7, <1>d, <1>f, <1>m, <1>w, <2>1, <2>2 DEF ArchiveStamp
    <2> QED
      BY <1>d, <1>k, <2>1, <2>3
  <1>p. ASSUME NEW pc
        PROVE  /\ [prune EXCEPT !.pc = pc].now = prune.now
               /\ \A j : [prune EXCEPT !.pc = pc, !.job = j].now = prune.now
               /\ \A d, n : [prune EXCEPT !.pc = pc, !.dir = d, !.now = n].now = n
               /\ IdlePrune(prune).now = 0
    BY <1>t DEF TypeOK, Pruner, IdlePrune
  <1>8. CASE PruneUnlink
    <2>1. UNCHANGED <<cur, bak, clock>> /\ prune'.now = prune.now
      BY <1>8, <1>p DEF PruneUnlink
    <2>2. \A j \in Jobs : Whole(done'[j]) /\ Whole(error'[j])
      BY <1>8, <1>d, <1>f, <1>m, <1>w, <2>1 DEF PruneUnlink
    <2> QED
      BY <1>d, <1>k, <2>1, <2>2
  <1>9. CASE PruneEnd \/ PruneLock \/ PruneRestat
    <2>1. prune'.now \in {0, prune.now}
      BY <1>9, <1>p DEF PruneEnd, PruneLock, PruneRestat
    <2> QED
      BY <1>1, <1>9, <1>d, <1>w, <2>1 DEF PruneEnd, PruneLock, PruneRestat
  <1>10. ASSUME NEW j \in Jobs, PruneJudge(j) PROVE Dated'
    BY <1>1, <1>10, <1>d, <1>p DEF PruneJudge
  <1>11. ASSUME NEW d \in Dirs, PruneBegin(d) PROVE Dated'
    <2>1. prune'.now = clock
      BY <1>11, <1>p DEF PruneBegin
    <2> QED
      BY <1>1, <1>11, <1>w, <2>1 DEF PruneBegin
  <1>12. CASE Tick
    <2>1. clock' = clock + 1 /\ UNCHANGED <<cur, done, error, bak, prune>>
      BY <1>12 DEF Tick
    <2>2. \A f \in File : Whole(f) => Whole(f)'
      BY <1>t, <1>w, <2>1, WholeFiles
    <2>3. \A j \in Jobs : /\ Whole(cur[j])' /\ Whole(done[j])'
                          /\ Whole(error[j])' /\ Whole(bak[j])'
      BY <1>d, <1>w, <2>1 DEF Whole, File
    <2> QED
      BY <1>d, <1>w, <2>1, <2>3 DEF Dated
  <1>13. CASE Crash
    <2>1. UNCHANGED <<cur, done, error, clock>> /\ prune'.now = 0
      BY <1>13, <1>p DEF Crash
    <2>2. \A j \in Jobs : Whole(bak'[j])
      BY <1>13, <1>f, <2>1 DEF Crash
    <2> QED
      BY <1>d, <1>k, <1>w, <2>1, <2>2
  <1> QED
    BY <1>1, <1>3, <1>4, <1>5, <1>6, <1>7, <1>8, <1>9, <1>10, <1>11, <1>12, <1>13, <1>d
       DEF Next, TryClaim, Finalize, Prune, Deliver, ClaimBegin, MintBegin, vars,
           ClaimPreDone, ClaimPreError, ClaimPostDone, ClaimPostError, DispGoto,
           ClaimUnlinkNew, ClaimFails, GcFinalizeBegin, LockArchive, UnlockArchive,
           FinalizeBegin

\* The steps that change a marker, a file moved aside or who is in archive().
ArchiveMoves ==
    \/ PruneUnlink \/ Crash
    \/ \E w \in Workers :
         ArchiveExcl(w) \/ ArchivePreserve(w) \/ ArchiveMove(w) \/ ArchiveStamp(w)

\* Every other step leaves the archive alone.
LEMMA QuietArchive ==
    ASSUME TypeOK, [Next]_vars, ~ArchiveMoves
    PROVE  /\ UNCHANGED <<done, error, bak, crashes>>
           /\ clock' \in Nat /\ clock <= clock'
           /\ \A w \in Workers :
                \/ wk'[w] = wk[w]
                \/ /\ wk[w].pc \notin {"move", "stamp"}
                   /\ wk'[w].pc \notin {"move", "stamp"}
  <1>w. wk \in [Workers -> Task] /\ clock \in Nat
    BY DEF TypeOK
  <1> USE DEF files, ghosts, tasks
  <1>c. CASE UNCHANGED <<done, error, bak, crashes, clock, wk>>
    BY <1>c, <1>w
  <1>1. CASE Tick
    BY <1>1, <1>w DEF Tick
  <1>s. ASSUME NEW w \in Workers, wk[w].pc \notin {"move", "stamp"},
               wk'[w].pc \notin {"move", "stamp"},
               \A v \in Workers : v # w => wk'[v] = wk[v],
               UNCHANGED <<done, error, bak, crashes, clock>>
        PROVE  /\ clock' \in Nat /\ clock <= clock'
               /\ UNCHANGED <<done, error, bak, crashes>>
               /\ \A v \in Workers :
                    \/ wk'[v] = wk[v]
                    \/ /\ wk[v].pc \notin {"move", "stamp"}
                       /\ wk'[v].pc \notin {"move", "stamp"}
    BY <1>s, <1>w
  <1>2. CASE ClaimPostError \/ MintRename
    <2>1. CASE \E w \in Workers : \E j, g, s : Spawn(w, j, g, s)
      <3>1. PICK w \in Workers : \E j, g, s : Spawn(w, j, g, s)
        BY <2>1
      <3>2. /\ wk[w].pc = "idle" /\ wk'[w].pc = "run"
            /\ \A v \in Workers : v # w => wk'[v] = wk[v]
        BY <1>w, <3>1, SpawnFrame
      <3> QED
        BY <1>2, <1>s, <3>2 DEF ClaimPostError, MintRename
    <2>2. CASE UNCHANGED wk
      BY <1>2, <1>c, <2>2 DEF ClaimPostError, MintRename
    <2> QED
      BY <1>2, <2>1, <2>2 DEF ClaimPostError, MintRename
  <1>3. ASSUME NEW j \in Jobs, NEW w \in Workers, GcFinalizeBegin(w, j)
        PROVE  wk[w].pc = "idle" /\ wk'[w].pc = "lock" /\
               \A v \in Workers : v # w => wk'[v] = wk[v]
    BY <1>3, <1>w DEF GcFinalizeBegin
  <1>4. ASSUME NEW d \in Dirs, NEW w \in Workers, FinalizeBegin(w, d)
        PROVE  wk[w].pc = "run" /\ wk'[w].pc = "lock" /\
               \A v \in Workers : v # w => wk'[v] = wk[v]
    BY <1>4, <1>w DEF FinalizeBegin, Task
  <1>5. ASSUME NEW w \in Workers, LockArchive(w)
        PROVE  wk[w].pc = "lock" /\ wk'[w].pc = "excl" /\
               \A v \in Workers : v # w => wk'[v] = wk[v]
    BY <1>5, <1>w, GotoFrame DEF LockArchive
  <1>6. ASSUME NEW w \in Workers, UnlockArchive(w)
        PROVE  wk[w].pc = "unlock" /\ wk'[w].pc = "idle" /\
               \A v \in Workers : v # w => wk'[v] = wk[v]
    BY <1>6, <1>w DEF UnlockArchive, IdleWorker
  <1>7. CASE \E w \in Workers, j \in Jobs : GcFinalizeBegin(w, j)
    BY <1>7, <1>3, <1>s DEF GcFinalizeBegin
  <1>8. CASE \E w \in Workers, d \in Dirs : FinalizeBegin(w, d)
    BY <1>8, <1>4, <1>s DEF FinalizeBegin
  <1>9. CASE \E w \in Workers : LockArchive(w) \/ UnlockArchive(w)
    BY <1>9, <1>5, <1>6, <1>s DEF LockArchive, UnlockArchive
  <1> QED
    BY <1>c, <1>1, <1>2, <1>7, <1>8, <1>9
       DEF Next, TryClaim, Finalize, Prune, Deliver, ClaimBegin, MintBegin, vars,
           ClaimPreDone, ClaimPreError, ClaimPostDone, DispGoto, ClaimRename, ClaimRevert,
           ClaimUnlinkNew, ClaimFails, PruneEnd, PruneLock, PruneRestat, PruneBegin,
           PruneJudge, ArchiveMoves

\* A task in archive() is alone with the markers.
LEMMA Alone ==
    ASSUME TypeOK, Locked, NEW w \in Workers,
           ArchiveExcl(w) \/ ArchivePreserve(w) \/ ArchiveMove(w) \/ ArchiveStamp(w)
    PROVE  /\ InArchive(w) /\ InArchive(w)' /\ wk'[w].job = wk[w].job
           /\ wk'[w].dest = wk[w].dest
           /\ \A v \in Workers : v # w => wk'[v] = wk[v] /\ ~InArchive(v)
           /\ prune.pc \notin {"restat", "unlink"}
           /\ UNCHANGED <<disp, prune, clock, crashes>>
  <1>w. wk \in [Workers -> Task]
    BY DEF TypeOK
  <1>1. PICK pc \in {"preserve", "move", "stamp", "unlock"} : WorkerGoto(w, pc)
    BY DEF ArchiveExcl, ArchivePreserve, ArchiveMove, ArchiveStamp
  <1>2. /\ wk'[w].pc = pc /\ wk'[w].job = wk[w].job /\ wk'[w].dest = wk[w].dest
        /\ \A v \in Workers : v # w => wk'[v] = wk[v]
    BY <1>1, <1>w, GotoFrame
  <1>3. InArchive(w) /\ UNCHANGED <<disp, prune, clock, crashes>>
    BY DEF InArchive, ArchiveExcl, ArchivePreserve, ArchiveMove, ArchiveStamp, ghosts
  <1> QED
    BY <1>1, <1>2, <1>3 DEF Locked, InArchive

LEMMA VacantStep == TypeOK /\ Locked /\ Vacant /\ [Next]_vars => Vacant'
  <1> SUFFICES ASSUME TypeOK, Locked, Vacant, [Next]_vars PROVE Vacant'
    OBVIOUS
  <1>w. /\ wk \in [Workers -> Task]
        /\ \A w \in Workers : wk[w].job \in Jobs /\ wk[w].dest \in Dirs
        /\ bak \in [Jobs -> File] /\ prune \in Pruner
    BY TaskType DEF TypeOK
  <1>1. CASE ~ArchiveMoves
    BY <1>1, QuietArchive DEF Vacant, Marker
  <1>2. ASSUME NEW w \in Workers, wk'[w].pc # "move",
               ArchiveExcl(w) \/ ArchivePreserve(w) \/ ArchiveMove(w) \/ ArchiveStamp(w)
        PROVE  Vacant'
    BY <1>2, Alone DEF Vacant, InArchive
  <1>3. ASSUME NEW w \in Workers, ArchiveExcl(w) \/ ArchiveMove(w) \/ ArchiveStamp(w)
        PROVE  Vacant'
    <2>1. PICK pc \in {"preserve", "stamp", "unlock"} : WorkerGoto(w, pc)
      BY <1>3 DEF ArchiveExcl, ArchiveMove, ArchiveStamp
    <2>2. wk'[w].pc = pc
      BY <1>w, <2>1, GotoFrame
    <2> QED
      BY <1>2, <1>3, <2>1, <2>2
  <1>4. ASSUME NEW w \in Workers, ArchivePreserve(w) PROVE Vacant'
    <2>1. ~Exists(NoFile)
      BY FileTypes
    <2>j. PICK j \in Jobs, d \in Dirs : j = wk[w].job /\ d = wk[w].dest
      BY <1>w
    <2>2. /\ wk'[w].job = j /\ wk'[w].dest = d
          /\ \A v \in Workers : v # w => wk'[v].pc # "move"
      BY <1>4, <2>j, Alone DEF InArchive
    <2>3. Exists(bak'[j]) => ~Exists(Marker(d, j)')
      <3>1. CASE SetMarker(d, j, NoFile)
        BY <2>1, <3>1, MarkerFrame DEF Marker, Dirs
      <3>2. CASE bak' = [bak EXCEPT ![j] = NoFile]
        BY <1>w, <2>1, <3>2
      <3> QED
        BY <1>4, <2>j, <3>1, <3>2 DEF ArchivePreserve
    <2> QED
      BY <2>2, <2>3 DEF Vacant, Marker, Exists
  <1>5. CASE Crash
    <2>1. \A w \in Workers : wk'[w].pc = "idle"
      BY <1>5 DEF Crash, IdleWorker
    <2> QED
      BY <2>1 DEF Vacant
  <1>6. CASE PruneUnlink
    <2>1. \A w \in Workers : ~InArchive(w)
      BY <1>6 DEF PruneUnlink, Locked
    <2> QED
      BY <1>6, <2>1 DEF PruneUnlink, Vacant, InArchive
  <1> QED
    BY <1>1, <1>3, <1>4, <1>5, <1>6 DEF ArchiveMoves

LEMMA JudgedStep == TypeOK /\ Locked /\ Judged /\ [Next]_vars => Judged'
  <1> SUFFICES ASSUME TypeOK, Locked, Judged, [Next]_vars PROVE Judged'
    OBVIOUS
  <1>p. /\ \A pc : /\ [prune EXCEPT !.pc = pc].pc = pc
                   /\ [prune EXCEPT !.pc = pc].job = prune.job
                   /\ [prune EXCEPT !.pc = pc].dir = prune.dir
                   /\ [prune EXCEPT !.pc = pc].now = prune.now
    BY DEF TypeOK, Pruner
  <1>s. \A pc, j : [prune EXCEPT !.pc = pc, !.job = j].pc = pc
    BY DEF TypeOK, Pruner
  <1>b. \A pc, d, n : [prune EXCEPT !.pc = pc, !.dir = d, !.now = n].pc = pc
    BY DEF TypeOK, Pruner
  <1>i. IdlePrune(prune).pc = "idle"
    BY DEF IdlePrune
  <1>1. ASSUME NEW w \in Workers,
               ArchiveExcl(w) \/ ArchivePreserve(w) \/ ArchiveMove(w) \/ ArchiveStamp(w)
        PROVE  Judged'
    BY <1>1, Alone DEF Judged
  <1>2. CASE PruneUnlink
    BY <1>2, <1>p DEF PruneUnlink, Judged
  <1>3. CASE Crash
    BY <1>3, <1>i DEF Crash, Judged
  <1>4. CASE ~ArchiveMoves
    <2>1. UNCHANGED <<done, error>>
      BY <1>4, QuietArchive
    <2>2. CASE UNCHANGED prune
      BY <2>1, <2>2 DEF Judged, Expired, Marker
    <2>3. CASE PruneRestat
      <3>1. CASE Expired(prune.now, Marker(prune.dir, prune.job))
        <4>1. /\ prune'.now = prune.now /\ prune'.dir = prune.dir
              /\ prune'.job = prune.job
          BY <1>p, <2>3, <3>1 DEF PruneRestat
        <4> QED
          BY <2>1, <3>1, <4>1 DEF Judged, Expired, Marker
      <3>2. CASE ~Expired(prune.now, Marker(prune.dir, prune.job))
        BY <1>p, <2>3, <3>2 DEF PruneRestat, Judged
      <3> QED
        BY <3>1, <3>2
    <2>4. CASE prune'.pc # "unlink"
      BY <2>4 DEF Judged
    <2>5. PruneEnd \/ PruneLock => prune'.pc # "unlink"
      BY <1>i, <1>p DEF PruneEnd, PruneLock
    <2>6. \A j \in Jobs : PruneJudge(j) => prune'.pc # "unlink"
      BY <1>s DEF PruneJudge
    <2>7. \A d \in Dirs : PruneBegin(d) => prune'.pc # "unlink"
      BY <1>b DEF PruneBegin
    <2> QED
      BY <1>4, <2>2, <2>3, <2>4, <2>5, <2>6, <2>7
         DEF Next, TryClaim, Finalize, Prune, Deliver, ClaimBegin, MintBegin, vars, Tick,
             ClaimPreDone, ClaimPreError, ClaimPostDone, ClaimPostError, DispGoto,
             ClaimRename, ClaimRevert, ClaimUnlinkNew, ClaimFails, MintRename,
             GcFinalizeBegin, FinalizeBegin, LockArchive, UnlockArchive, ArchiveMoves,
             files, ghosts, tasks
  <1> QED
    BY <1>1, <1>2, <1>3, <1>4 DEF ArchiveMoves

\* What the pruner unlinks has been there, unstamped since, for longer than the
\* retention.
LEMMA Overdue ==
    ASSUME TypeOK, Dated, Judged, prune.pc = "unlink"
    PROVE  /\ Exists(Marker(prune.dir, prune.job))
           /\ clock > Marker(prune.dir, prune.job).mtime + Retention
           /\ clock > Retention
  <1> DEFINE f == Marker(prune.dir, prune.job)
  <1>1. f \in File /\ prune.now \in Nat /\ clock \in Nat
    BY FileTypes, PrunerType DEF TypeOK
  <1>2. f.mtime \in Nat
    BY <1>1 DEF File
  <1>3. Expired(prune.now, f)
    BY DEF Judged
  <1>4. prune.now <= clock
    BY DEF Dated
  <1> HIDE DEF f
  <1>5. Exists(f) /\ clock > f.mtime + Retention /\ clock > Retention
    BY <1>1, <1>2, <1>3, <1>4, SpoolAssumption DEF Expired, Age
  <1> QED
    BY <1>5 DEF f

LEMMA RevertingStep ==
    SpoolInv /\ Locked /\ Dated /\ Judged /\ Reverting /\ [Next]_vars => Reverting'
  <1> SUFFICES ASSUME SpoolInv, Locked, Dated, Judged, Reverting, [Next]_vars
               PROVE  Reverting'
    OBVIOUS
  <1>t. TypeOK
    BY DEF SpoolInv
  <1>w. /\ wk \in [Workers -> Task]
        /\ \A w \in Workers : wk[w].job \in Jobs /\ wk[w].dest \in Dirs
        /\ disp \in Claimer /\ disp.job \in Jobs
        /\ prune.job \in Jobs /\ prune.dir \in Dirs
        /\ clock \in Nat
    BY <1>t, TaskType, ClaimerType, PrunerType DEF TypeOK
  <1>j. PICK k \in Jobs : k = disp.job
    BY <1>w
  <1>d. \A pc : /\ [disp EXCEPT !.pc = pc].pc = pc
                /\ [disp EXCEPT !.pc = pc].job = disp.job
    BY <1>w DEF Claimer
  <1>i. IdleDisp(disp).pc = "idle"
    BY DEF IdleDisp
  <1>q. CASE disp'.pc # "revert"
    BY <1>q DEF Reverting
  \* The markers are as they were, and the verdict is old or just given.
  <1>1. ASSUME UNCHANGED <<done, error>>, clock' \in Nat, clock <= clock',
               disp'.job = k, disp.pc = "revert" \/ Archived(k)
        PROVE  Reverting'
    <2>1. Archived(k)' <=> Archived(k)
      BY <1>1 DEF Archived, Exists
    <2>2. Archived(k) \/ clock > Retention
      BY <1>1, <1>j DEF Reverting
    <2>3. Archived(k)' \/ clock' > Retention
      BY <1>1, <1>w, <2>1, <2>2, SpoolAssumption
    <2> QED
      BY <1>1, <2>3 DEF Reverting, Archived, Exists
  <1>2. CASE ~ArchiveMoves
    <2>1. UNCHANGED <<done, error>> /\ clock' \in Nat /\ clock <= clock'
      BY <1>2, <1>t, QuietArchive
    <2>2. CASE UNCHANGED disp
      BY <1>1, <1>j, <1>q, <2>1, <2>2
    <2>3. CASE ClaimPostDone
      BY <1>1, <1>d, <1>j, <1>q, <2>1, <2>3 DEF ClaimPostDone, DispGoto, Archived
    <2>4. CASE ClaimPostError
      BY <1>1, <1>d, <1>i, <1>j, <1>q, <2>1, <2>4 DEF ClaimPostError, Archived
    <2>5. ClaimPreDone \/ ClaimPreError \/ ClaimRevert \/ ClaimUnlinkNew \/ ClaimFails
             => disp'.pc # "revert"
      BY <1>d, <1>i DEF ClaimPreDone, ClaimPreError, DispGoto, ClaimRevert, ClaimUnlinkNew,
                        ClaimFails
    <2>6. (\E j \in Jobs : ClaimBegin(j)) \/ ClaimRename => disp'.pc # "revert"
      <3>1. \A pc, g : [disp EXCEPT !.pc = pc, !.gen = g].pc = pc
        BY <1>w DEF Claimer
      <3>2. \A pc, j : [disp EXCEPT !.pc = pc, !.job = j].pc = pc
        BY <1>w DEF Claimer
      <3>3. ClaimRename => disp'.pc # "revert"
        BY <1>d, <1>i, <3>1 DEF ClaimRename
      <3>4. \A j \in Jobs : ClaimBegin(j) => disp'.pc # "revert"
        BY <3>2 DEF ClaimBegin
      <3> QED
        BY <3>3, <3>4
    <2> QED
      BY <1>2, <1>q, <2>2, <2>3, <2>4, <2>5, <2>6
         DEF Next, TryClaim, Finalize, Prune, Deliver, MintBegin, vars, Tick, MintRename,
             GcFinalizeBegin, FinalizeBegin, LockArchive, UnlockArchive, ArchiveMoves,
             PruneEnd, PruneLock, PruneRestat, PruneBegin, PruneJudge,
             files, ghosts, tasks
  \* A finalizer works on another id, or only restamps.
  <1>3. ASSUME NEW w \in Workers,
               ArchiveExcl(w) \/ ArchivePreserve(w) \/ ArchiveMove(w) \/ ArchiveStamp(w)
        PROVE  Reverting'
    <2>1. UNCHANGED <<disp, clock>>
      BY <1>3, <1>t, Alone
    <2>h. SUFFICES ASSUME disp.pc = "revert" PROVE Archived(k)' <=> Archived(k)
      BY <1>j, <2>1 DEF Reverting, Archived, Exists
    <2>2. Holding(w) => wk[w].job # k
      BY <1>j, <2>h DEF SpoolInv, TentativeBacked
    <2>m. ASSUME NEW f, SetMarker(wk[w].dest, wk[w].job, f), wk[w].job # k
          PROVE  Archived(k)' <=> Archived(k)
      BY <1>t, <1>w, <2>m, MarkerFrame DEF Archived, Exists
    <2>u. CASE UNCHANGED <<done, error>>
      BY <2>u DEF Archived, Exists
    <2>3. CASE ArchiveExcl(w) \/ ArchivePreserve(w) \/ ArchiveMove(w)
      <3>1. wk[w].job # k
        BY <2>2, <2>3 DEF Holding, ArchiveExcl, ArchivePreserve, ArchiveMove
      <3> QED
        BY <2>3, <2>m, <2>u, <3>1 DEF ArchiveExcl, ArchivePreserve, ArchiveMove
    <2>4. CASE ArchiveStamp(w)
      <3> DEFINE d == wk[w].dest
                 j == wk[w].job
                 f == [Marker(d, j) EXCEPT !.mtime = clock]
      <3>1. d \in Dirs /\ j \in Jobs /\ f.gen = Marker(d, j).gen
        BY <1>t, <1>w, FileTypes
      <3>2. UNCHANGED <<done, error>> \/ (SetMarker(d, j, f) /\ Exists(Marker(d, j)))
        BY <2>4 DEF ArchiveStamp
      <3> HIDE DEF d, j, f
      <3>3. ASSUME SetMarker(d, j, f) PROVE Archived(k)' <=> Archived(k)
        <4>1. /\ done'[k].gen = done[k].gen
              /\ error'[k].gen = error[k].gen
          BY <1>t, <3>1, <3>3, MarkerFrame DEF Marker, Dirs
        <4> QED
          BY <4>1 DEF Archived, Exists
      <3> QED
        BY <2>u, <3>2, <3>3
    <2> QED
      BY <1>3, <2>3, <2>4
  <1>4. CASE PruneUnlink
    <2>1. UNCHANGED clock /\ clock > Retention
      BY <1>4, <1>t, Overdue DEF PruneUnlink
    <2> QED
      BY <2>1 DEF Reverting
  <1>5. CASE Crash
    BY <1>5, <1>i, <1>q DEF Crash
  <1> QED
    BY <1>2, <1>3, <1>4, <1>5 DEF ArchiveMoves

\* A marker other than the one written is as it was.
LEMMA OtherMarkers ==
    ASSUME TypeOK, NEW d \in Dirs, NEW j \in Jobs, NEW f, SetMarker(d, j, f)
    PROVE  /\ Marker(d, j)' = f
           /\ \A e \in Dirs, i \in Jobs :
                <<e, i>> # <<d, j>> => Marker(e, i)' = Marker(e, i)
  BY MarkerFrame DEF Marker, Dirs

LEMMA StampedStep ==
    TypeOK /\ Locked /\ Dated /\ Stamped /\ [Next]_vars => Stamped'
  <1> SUFFICES ASSUME TypeOK, Locked, Dated, Stamped, [Next]_vars PROVE Stamped'
    OBVIOUS
  <1>w. /\ wk \in [Workers -> Task]
        /\ \A w \in Workers : wk[w].job \in Jobs /\ wk[w].dest \in Dirs
        /\ prune.job \in Jobs /\ prune.dir \in Dirs
        /\ bak \in [Jobs -> File]
        /\ clock \in Nat /\ crashes \in Nat
    BY TaskType, PrunerType DEF TypeOK
  <1>n. ~(NoFile.mtime < NoFile.fin)
    BY DEF NoFile
  <1>1. CASE ~ArchiveMoves
    BY <1>1, QuietArchive DEF Stamped, Unfinished, Marker
  <1>2. CASE Crash
    <2>1. crashes' > 0
      BY <1>2, <1>w DEF Crash
    <2> QED
      BY <2>1 DEF Stamped, Unfinished
  <1>3. CASE PruneUnlink
    <2>1. UNCHANGED <<bak, wk, crashes>>
      BY <1>3 DEF PruneUnlink
    <2>2. \A d \in Dirs, j \in Jobs : Marker(d, j)' \in {NoFile, Marker(d, j)}
      <3>1. CASE SetMarker(prune.dir, prune.job, NoFile)
        BY <1>w, <3>1, OtherMarkers
      <3>2. CASE UNCHANGED <<done, error>>
        BY <3>2 DEF Marker
      <3> QED
        BY <1>3, <3>1, <3>2 DEF PruneUnlink
    <2> QED
      BY <1>n, <2>1, <2>2 DEF Stamped, Unfinished
  <1>4. ASSUME NEW w \in Workers,
               ArchiveExcl(w) \/ ArchivePreserve(w) \/ ArchiveMove(w) \/ ArchiveStamp(w)
        PROVE  Stamped'
    <2>1. /\ wk'[w].job = wk[w].job /\ wk'[w].dest = wk[w].dest
          /\ \A v \in Workers : v # w => wk'[v] = wk[v] /\ wk[v].pc # "stamp"
          /\ UNCHANGED <<clock, crashes>>
      BY <1>4, Alone DEF InArchive
    <2>j. PICK j \in Jobs, d \in Dirs : j = wk[w].job /\ d = wk[w].dest
      BY <1>w
    <2>s. \A e \in Dirs, i \in Jobs : Marker(e, i).mtime < Marker(e, i).fin =>
             \/ crashes > 0
             \/ wk[w].pc = "stamp" /\ <<e, i>> = <<d, j>>
      BY <2>1, <2>j DEF Stamped, Unfinished
    <2>b. \A i \in Jobs : bak[i].mtime < bak[i].fin => crashes > 0
      BY DEF Stamped
    \* What is left to show of a step, in its own terms.
    <2>k. ASSUME \A i \in Jobs : i # j => bak'[i] = bak[i],
                 \A e \in Dirs, i \in Jobs :
                    <<e, i>> # <<d, j>> => Marker(e, i)' = Marker(e, i),
                 bak'[j].mtime < bak'[j].fin => crashes > 0,
                 Marker(d, j)'.mtime < Marker(d, j)'.fin =>
                    crashes > 0 \/ wk'[w].pc = "stamp"
          PROVE  Stamped'
      <3>1. \A i \in Jobs : bak'[i].mtime < bak'[i].fin => crashes' > 0
        BY <2>1, <2>b, <2>k
      <3>2. ASSUME NEW e \in Dirs, NEW i \in Jobs, Marker(e, i)'.mtime < Marker(e, i)'.fin
            PROVE  Unfinished(e, i)'
        <4>1. CASE <<e, i>> = <<d, j>>
          BY <2>1, <2>j, <2>k, <3>2, <4>1 DEF Unfinished
        <4>2. CASE <<e, i>> # <<d, j>>
          BY <2>1, <2>k, <2>s, <3>2, <4>2 DEF Unfinished
        <4> QED
          BY <4>1, <4>2
      <3> QED
        BY <3>1, <3>2 DEF Stamped
    <2>u. UNCHANGED <<done, error>> => \A e \in Dirs, i \in Jobs : Marker(e, i)' = Marker(e, i)
      BY DEF Marker
    <2>2. CASE ArchiveExcl(w)
      <3>1. CASE UNCHANGED <<done, error>>
        BY <2>2, <2>b, <2>k, <2>s, <2>u, <3>1 DEF ArchiveExcl
      <3>2. CASE SetMarker(d, j, Installed(j)) /\ WorkerGoto(w, "stamp")
        <4>1. wk'[w].pc = "stamp"
          BY <1>w, <3>2, GotoFrame
        <4> QED
          BY <2>2, <2>b, <2>k, <3>2, <4>1, OtherMarkers DEF ArchiveExcl
      <3> QED
        BY <2>2, <2>j, <3>1, <3>2 DEF ArchiveExcl
    <2>3. CASE ArchivePreserve(w)
      <3>1. CASE bak' = [bak EXCEPT ![j] = Marker(d, j)] /\ SetMarker(d, j, NoFile)
        <4>1. bak'[j] = Marker(d, j) /\ \A i \in Jobs : i # j => bak'[i] = bak[i]
          BY <1>w, <3>1
        <4>2. wk[w].pc # "stamp"
          BY <2>3 DEF ArchivePreserve
        <4> QED
          BY <1>n, <2>k, <2>s, <3>1, <4>1, <4>2, OtherMarkers
      <3>2. CASE bak' = [bak EXCEPT ![j] = NoFile] /\ UNCHANGED <<done, error>>
        <4>1. bak'[j] = NoFile /\ \A i \in Jobs : i # j => bak'[i] = bak[i]
          BY <1>w, <3>2
        <4>2. wk[w].pc # "stamp"
          BY <2>3 DEF ArchivePreserve
        <4> QED
          BY <1>n, <2>k, <2>s, <2>u, <3>2, <4>1, <4>2
      <3> QED
        BY <2>3, <2>j, <3>1, <3>2 DEF ArchivePreserve
    <2>4. CASE ArchiveMove(w)
      <3>1. /\ bak'[j] = NoFile /\ \A i \in Jobs : i # j => bak'[i] = bak[i]
            /\ wk[w].pc # "stamp"
        BY <1>w, <2>4, <2>j DEF ArchiveMove
      <3>2. CASE UNCHANGED <<done, error>>
        BY <1>n, <2>k, <2>s, <2>u, <3>1, <3>2
      <3>3. CASE SetMarker(d, j, bak[j])
        BY <1>n, <2>b, <2>k, <3>1, <3>3, OtherMarkers
      <3>4. CASE SetMarker(d, j, Installed(j)) /\ WorkerGoto(w, "stamp")
        <4>1. wk'[w].pc = "stamp"
          BY <1>w, <3>4, GotoFrame
        <4> QED
          BY <1>n, <2>k, <3>1, <3>4, <4>1, OtherMarkers
      <3> QED
        BY <2>4, <2>j, <3>2, <3>3, <3>4 DEF ArchiveMove
    <2>5. CASE ArchiveStamp(w)
      <3>1. UNCHANGED bak
        BY <2>5 DEF ArchiveStamp
      <3>2. CASE Exists(Marker(d, j))
        <4>1. SetMarker(d, j, [Marker(d, j) EXCEPT !.mtime = clock])
          BY <2>5, <2>j, <3>2 DEF ArchiveStamp
        <4>2. Marker(d, j) \in File /\ Marker(d, j).fin <= clock
          BY FileTypes DEF Dated, Whole, Marker
        <4>3. ~([Marker(d, j) EXCEPT !.mtime = clock].mtime
                  < [Marker(d, j) EXCEPT !.mtime = clock].fin)
          BY <1>w, <4>2 DEF File
        <4> QED
          BY <2>b, <2>k, <3>1, <4>1, <4>3, OtherMarkers
      <3>3. CASE ~Exists(Marker(d, j))
        <4>1. UNCHANGED <<done, error>>
          BY <2>5, <2>j, <3>3 DEF ArchiveStamp
        <4>2. Marker(d, j) = NoFile
          BY <3>3 DEF Dated, Whole, Marker
        <4> QED
          BY <1>n, <2>b, <2>k, <2>u, <3>1, <4>1, <4>2
      <3> QED
        BY <3>2, <3>3
    <2> QED
      BY <1>4, <2>2, <2>3, <2>4, <2>5
  <1> QED
    BY <1>1, <1>2, <1>3, <1>4 DEF ArchiveMoves

LEMMA ArchiveStep == SpoolInv /\ ArchiveInv /\ [Next]_vars => ArchiveInv'
  BY LockedStep, DatedStep, StampedStep, VacantStep, JudgedStep, RevertingStep
     DEF ArchiveInv, SpoolInv

LEMMA ArchiveInvariant == Spec => [](SpoolInv /\ ArchiveInv)
  BY InitInv, InvStep, ArchiveInit, ArchiveStep, PTL DEF Spec

\* While the pruner is about to unlink, only its unlink removes a marker.
LEMMA PruneStep ==
    ASSUME SpoolInv, ArchiveInv, [Next]_vars, prune.pc = "unlink",
           NEW d \in Dirs, NEW j \in Jobs, Exists(Marker(d, j)), ~Exists(Marker(d, j)')
    PROVE  Unstamped(Marker(d, j)) \/ clock - Marker(d, j).fin > Retention
  <1>t. TypeOK /\ Locked /\ Dated /\ Judged /\ Stamped
    BY DEF SpoolInv, ArchiveInv
  <1>w. prune.job \in Jobs /\ prune.dir \in Dirs
    BY <1>t, PrunerType DEF TypeOK
  <1>1. \A w \in Workers : ~InArchive(w)
    BY <1>t DEF Locked
  <1>2. PruneUnlink
    <2>1. ~(UNCHANGED <<done, error>>)
      BY DEF Marker, Exists
    <2>2. ArchiveMoves
      BY <1>t, <2>1, QuietArchive
    <2>3. ~Crash
      BY <2>1 DEF Crash
    <2> QED
      BY <1>1, <1>t, <2>2, <2>3, Alone DEF ArchiveMoves
  <1>3. d = prune.dir /\ j = prune.job
    <2>1. SetMarker(prune.dir, prune.job, NoFile)
      BY <1>2 DEF PruneUnlink, Marker, Exists
    <2>2. <<d, j>> # <<prune.dir, prune.job>> => Marker(d, j)' = Marker(d, j)
      BY <1>t, <1>w, <2>1, OtherMarkers
    <2> QED
      BY <2>2 DEF Exists
  <1>4. clock > Marker(d, j).mtime + Retention
    BY <1>3, <1>t, Overdue
  <1>5. Marker(d, j).mtime < Marker(d, j).fin => crashes > 0
    BY <1>1, <1>t DEF Stamped, Unfinished, InArchive
  <1>6. Marker(d, j).mtime \in Nat /\ Marker(d, j).fin \in Nat /\ clock \in Nat
    BY <1>t, FileTypes DEF File, TypeOK
  <1>7. Marker(d, j).mtime < Marker(d, j).fin \/ clock - Marker(d, j).fin > Retention
    BY <1>4, <1>6, SpoolAssumption
  <1> QED
    BY <1>5, <1>7 DEF Unstamped

(* Pruning never unlinks a marker younger than the retention window, counted from
   the moment the job was filed, unless a crash kept it from its stamp: the second
   look is taken under the lock, the unlink is of what it saw, and whoever installed
   the marker has stamped it before letting go of the lock. *)
THEOREM SpoolPruneOnlyExpired == Spec => PruneOnlyExpired
  <1>1. ASSUME SpoolInv, ArchiveInv, [Next]_vars
        PROVE  [\A d \in Dirs, j \in Jobs :
                  (prune.pc = "unlink" /\ Exists(Marker(d, j)) /\ ~Exists(Marker(d, j)'))
                    => Unstamped(Marker(d, j)) \/ clock - Marker(d, j).fin > Retention]_vars
    BY <1>1, PruneStep
  <1> QED
    BY <1>1, ArchiveInvariant, PTL DEF Spec, PruneOnlyExpired
-----------------------------------------------------------------------------
(* The moves a reader sees. *)

\* A file as a reader sees it.
View(f) == [there |-> Exists(f), mtime |-> f.mtime]

LEMMA Views ==
    ASSUME TypeOK
    PROVE  /\ View(NoFile) = Moves!Absent
           /\ View(NewClaim) = Moves!At(clock)
           /\ \A j \in Jobs : View(Installed(j)) = View(cur[j])
           /\ \A f \in File : Exists(f) => /\ View(f) = Moves!At(f.mtime)
                                           /\ View([f EXCEPT !.mtime = clock]) = Moves!At(clock)
  <1>t. clock \in Nat /\ nextGen \in Nat \ {0} /\ \A j \in Jobs : cur[j] \in File
    BY DEF TypeOK
  <1>1. View(NoFile) = Moves!Absent
    BY DEF View, NoFile, Exists, Moves!Absent
  <1>2. View(NewClaim) = Moves!At(clock)
    BY <1>t DEF View, NewClaim, Exists, Moves!At
  <1>3. \A f \in File : View([f EXCEPT !.fin = clock]) = View(f)
    BY DEF View, File, Exists
  <1>4. \A f \in File : Exists(f) => View(f) = Moves!At(f.mtime)
    BY DEF View, Exists, Moves!At
  <1>5. \A f \in File : Exists(f) => View([f EXCEPT !.mtime = clock]) = Moves!At(clock)
    BY DEF View, Exists, Moves!At, File
  <1> QED
    BY <1>t, <1>1, <1>2, <1>3, <1>4, <1>5 DEF Installed

LEMMA SeenIs ==
    /\ \A j \in Jobs : /\ Seen(cur)[j] = View(cur[j])
                       /\ Seen(done)[j] = View(done[j])
                       /\ Seen(error)[j] = View(error[j])
    /\ \A d \in Dirs, j \in Jobs : Moves!Marker(d, j) = View(Marker(d, j))
    /\ \A f : View(f).there = Exists(f) /\ View(f).mtime = f.mtime
    /\ Moves!Dirs = Dirs
    /\ UNCHANGED cur => UNCHANGED Seen(cur)
    /\ UNCHANGED done => UNCHANGED Seen(done)
    /\ UNCHANGED error => UNCHANGED Seen(error)
  <1>1. \A j \in Jobs : /\ Seen(cur)[j] = View(cur[j])
                        /\ Seen(done)[j] = View(done[j])
                        /\ Seen(error)[j] = View(error[j])
    BY DEF Seen, View
  <1>2. \A d \in Dirs, j \in Jobs : Moves!Marker(d, j) = View(Marker(d, j))
    BY <1>1 DEF Moves!Marker, Marker
  <1>3. \A f : View(f).there = Exists(f) /\ View(f).mtime = f.mtime
    BY DEF View
  <1> QED
    BY <1>1, <1>2, <1>3 DEF Moves!Dirs, Dirs, Seen

LEMMA SeenMarker ==
    ASSUME TypeOK, NEW d \in Dirs, NEW j \in Jobs, NEW f, SetMarker(d, j, f)
    PROVE  Moves!SetMarker(d, j, View(f))
  <1>1. done \in [Jobs -> File] /\ error \in [Jobs -> File]
    BY DEF TypeOK
  <1>2. CASE d = "done"
    <2>1. done' = [done EXCEPT ![j] = f] /\ UNCHANGED error
      BY <1>2 DEF SetMarker
    <2>2. Seen(done)' = [Seen(done) EXCEPT ![j] = View(f)]
      BY <1>1, <2>1 DEF Seen, View
    <2> QED
      BY <1>2, <2>1, <2>2 DEF Moves!SetMarker, Seen
  <1>3. CASE d # "done"
    <2>1. error' = [error EXCEPT ![j] = f] /\ UNCHANGED done
      BY <1>3 DEF SetMarker
    <2>2. Seen(error)' = [Seen(error) EXCEPT ![j] = View(f)]
      BY <1>1, <2>1 DEF Seen, View
    <2> QED
      BY <1>3, <2>1, <2>2 DEF Moves!SetMarker, Seen
  <1> QED
    BY <1>2, <1>3

LEMMA SeenCur ==
    ASSUME TypeOK, NEW j \in Jobs, NEW f, cur' = [cur EXCEPT ![j] = f]
    PROVE  Seen(cur)' = [Seen(cur) EXCEPT ![j] = View(f)]
  <1>1. cur \in [Jobs -> File]
    BY DEF TypeOK
  <1> QED
    BY <1>1 DEF Seen, View

LEMMA MovesInit == Init => Moves!MovesInit
  <1> SUFFICES ASSUME Init PROVE Moves!MovesInit
    OBVIOUS
  <1>1. \A j \in Jobs : cur[j] = NoFile /\ done[j] = NoFile /\ error[j] = NoFile
    BY DEF Init
  <1>2. [there |-> Exists(NoFile), mtime |-> NoFile.mtime] = Moves!Absent
    BY DEF Moves!Absent, NoFile, Exists
  <1>3. /\ Seen(cur) = [j \in Jobs |-> Moves!Absent]
        /\ Seen(done) = [j \in Jobs |-> Moves!Absent]
        /\ Seen(error) = [j \in Jobs |-> Moves!Absent]
    BY <1>1, <1>2 DEF Seen
  <1> QED
    BY <1>3 DEF Init, Moves!MovesInit

LEMMA MovesStep == SpoolInv /\ ArchiveInv /\ [Next]_vars => [Moves!MovesNext]_(Moves!moves)
  <1> SUFFICES ASSUME SpoolInv, ArchiveInv, [Next]_vars, ~UNCHANGED (Moves!moves)
               PROVE  Moves!MovesNext
    OBVIOUS
  <1>t. TypeOK /\ Locked /\ Dated /\ Judged /\ Vacant /\ Reverting
    BY DEF SpoolInv, ArchiveInv
  <1>w. /\ wk \in [Workers -> Task]
        /\ \A w \in Workers : wk[w].job \in Jobs /\ wk[w].dest \in Dirs
        /\ disp.job \in Jobs /\ rec.job \in Jobs
        /\ prune.job \in Jobs /\ prune.dir \in Dirs
        /\ clock \in Nat
    BY <1>t, TaskType, ClaimerType, PrunerType DEF TypeOK, Minter
  <1>v. /\ View(NoFile) = Moves!Absent
        /\ View(NewClaim) = Moves!At(clock)
        /\ \A j \in Jobs : View(Installed(j)) = Seen(cur)[j]
    BY <1>t, Views, SeenIs
  <1>r. \A j \in Jobs : Seen(cur)[j].there = Exists(cur[j])
    BY SeenIs
  <1>m. \A d \in Dirs, j \in Jobs : /\ Moves!Marker(d, j).there = Exists(Marker(d, j))
                                    /\ Moves!Marker(d, j).mtime = Marker(d, j).mtime
    BY SeenIs
  <1> USE DEF files, ghosts, tasks
  <1>q. UNCHANGED <<new, cur, done, error, clock>> => FALSE
    BY SeenIs DEF Moves!moves
  <1>x. ASSUME NEW d \in Dirs, NEW j \in Jobs,
               Moves!Archive(d, j) \/ Moves!Aside(d, j) \/ Moves!Stamp(d, j)
                 \/ Moves!Prune(d, j) \/ \E t \in 0..clock : Moves!PutBack(d, j, t)
        PROVE  Moves!MovesNext
    BY <1>x, SeenIs DEF Moves!MovesNext
  <1>1. ASSUME NEW j \in Jobs, Deliver(j) PROVE Moves!MovesNext
    <2>1. Moves!Deliver(j)
      BY <1>1, SeenIs DEF Deliver, Moves!Deliver
    <2> QED
      BY <2>1 DEF Moves!MovesNext
  <1>2. CASE Tick
    <2>1. Moves!Tick
      BY <1>2, SeenIs DEF Tick, Moves!Tick
    <2> QED
      BY <2>1 DEF Moves!MovesNext
  <1>3. CASE ClaimRename
    <2>j. PICK j \in Jobs : j = disp.job
      BY <1>w
    <2>1. /\ j \in new /\ ~Exists(cur[j]) /\ new' = new \ {j}
          /\ cur' = [cur EXCEPT ![j] = NewClaim]
          /\ UNCHANGED <<done, error, clock>>
      BY <1>3, <1>q, <2>j DEF ClaimRename
    <2>2. Seen(cur)' = [Seen(cur) EXCEPT ![j] = Moves!At(clock)]
      <3>1. PICK f : f = NewClaim
        OBVIOUS
      <3>2. cur' = [cur EXCEPT ![j] = f] /\ View(f) = Moves!At(clock)
        BY <1>v, <2>1, <3>1
      <3> QED
        BY <1>t, <3>2, SeenCur
    <2>3. Moves!Claim(j)
      BY <1>r, <2>1, <2>2, SeenIs DEF Moves!Claim
    <2> QED
      BY <2>3 DEF Moves!MovesNext
  <1>4. CASE MintRename
    <2>j. PICK j \in Jobs : j = rec.job
      BY <1>w
    <2>1. /\ ~Exists(cur[j])
          /\ cur' = [cur EXCEPT ![j] = NewClaim]
          /\ UNCHANGED <<new, done, error, clock>>
      BY <1>4, <1>q, <2>j DEF MintRename
    <2>2. Seen(cur)' = [Seen(cur) EXCEPT ![j] = Moves!At(clock)]
      <3>1. PICK f : f = NewClaim
        OBVIOUS
      <3>2. cur' = [cur EXCEPT ![j] = f] /\ View(f) = Moves!At(clock)
        BY <1>v, <2>1, <3>1
      <3> QED
        BY <1>t, <3>2, SeenCur
    <2>3. Moves!Mint(j)
      BY <1>r, <2>1, <2>2, SeenIs DEF Moves!Mint
    <2> QED
      BY <2>3 DEF Moves!MovesNext
  <1>5. CASE ClaimRevert
    <2>j. PICK j \in Jobs : j = disp.job
      BY <1>w
    <2>1. /\ cur' = [cur EXCEPT ![j] = NoFile]
          /\ UNCHANGED <<new, done, error, clock>>
          /\ disp.pc = "revert"
      BY <1>5, <2>j DEF ClaimRevert
    <2>2. Exists(cur[j]) /\ (Archived(j) \/ clock > Retention)
      BY <1>t, <2>1, <2>j DEF SpoolInv, TentativeBacked, Exists, Reverting
    <2>3. Archived(j) <=> Moves!Archived(j)
      BY SeenIs DEF Archived, Moves!Archived
    <2>4. Moves!Revert(j)
      BY <1>r, <1>t, <1>v, <2>1, <2>2, <2>3, SeenCur, SeenIs DEF Moves!Revert
    <2> QED
      BY <2>4 DEF Moves!MovesNext
  <1>6. CASE ClaimUnlinkNew
    <2>j. PICK j \in Jobs : j = disp.job
      BY <1>w
    <2>1. Moves!Withdraw(j)
      BY <1>6, <2>j, SeenIs DEF ClaimUnlinkNew, Moves!Withdraw
    <2> QED
      BY <2>1 DEF Moves!MovesNext
  <1>7. ASSUME NEW d \in Dirs, NEW j \in Jobs, Exists(cur[j]),
               SetMarker(d, j, Installed(j)), cur' = [cur EXCEPT ![j] = NoFile],
               UNCHANGED <<new, clock>>
        PROVE  Moves!MovesNext
    <2>1. Moves!SetMarker(d, j, Seen(cur)[j])
      BY <1>7, <1>t, <1>v, SeenMarker
    <2>2. Moves!Archive(d, j)
      BY <1>7, <1>r, <1>t, <1>v, <2>1, SeenCur DEF Moves!Archive
    <2> QED
      BY <1>x, <2>2
  <1>8. ASSUME NEW w \in Workers, ArchiveExcl(w) PROVE Moves!MovesNext
    BY <1>7, <1>8, <1>q, <1>w DEF ArchiveExcl
  <1>9. ASSUME NEW w \in Workers, ArchivePreserve(w) PROVE Moves!MovesNext
    <2>j. PICK j \in Jobs, d \in Dirs : j = wk[w].job /\ d = wk[w].dest
      BY <1>w
    <2>1. SetMarker(d, j, NoFile) /\ UNCHANGED <<new, cur, clock>>
      BY <1>9, <1>q, <2>j DEF ArchivePreserve
    <2>2. Exists(cur[j])
      BY <1>9, <2>j DEF ArchivePreserve, SpoolInv, OwnerBacked, GenBound, Exists, Holding
    <2>3. Moves!SetMarker(d, j, Moves!Absent)
      BY <1>t, <1>v, <2>1, SeenMarker
    <2>4. CASE Exists(Marker(d, j))
      <3>1. Moves!Aside(d, j)
        BY <1>m, <1>r, <2>1, <2>2, <2>3, <2>4, SeenIs DEF Moves!Aside
      <3> QED
        BY <1>x, <3>1
    <2>5. CASE ~Exists(Marker(d, j))
      <3>1. Marker(d, j) = NoFile
        BY <1>t, <2>5 DEF Dated, Whole, Marker
      <3>2. done' = done /\ error' = error
        BY <1>t, <2>1, <3>1 DEF SetMarker, Marker, TypeOK
      <3> QED
        BY <1>q, <2>1, <3>2
    <2> QED
      BY <2>4, <2>5
  <1>10. ASSUME NEW w \in Workers, ArchiveMove(w) PROVE Moves!MovesNext
    <2>j. PICK j \in Jobs, d \in Dirs : j = wk[w].job /\ d = wk[w].dest
      BY <1>w
    <2>1. CASE Exists(cur[j]) /\ SetMarker(d, j, Installed(j)) /\ cur' = [cur EXCEPT ![j] = NoFile]
      BY <1>7, <1>10, <2>1 DEF ArchiveMove
    <2>2. CASE Exists(bak[j]) /\ SetMarker(d, j, bak[j]) /\ UNCHANGED cur
      <3>1. bak[j] \in File /\ bak[j].mtime \in 0..clock
        <4>1. bak[j] \in File
          BY <1>t DEF TypeOK
        <4>2. bak[j].mtime <= clock /\ bak[j].mtime \in Nat
          BY <1>t, <4>1 DEF Dated, Whole, File
        <4> QED
          BY <1>w, <4>1, <4>2
      <3>2. Moves!SetMarker(d, j, Moves!At(bak[j].mtime))
        BY <1>t, <2>2, <3>1, SeenMarker, Views
      <3>3. ~Exists(Marker(d, j))
        BY <1>10, <1>t, <2>2, <2>j DEF Vacant, ArchiveMove
      <3>4. Moves!PutBack(d, j, bak[j].mtime)
        BY <1>10, <1>m, <1>w, <2>2, <3>1, <3>2, <3>3, SeenIs DEF Moves!PutBack, ArchiveMove
      <3> QED
        BY <1>x, <3>1, <3>4
    <2> QED
      BY <1>10, <1>q, <2>j, <2>1, <2>2 DEF ArchiveMove
  <1>11. ASSUME NEW w \in Workers, ArchiveStamp(w) PROVE Moves!MovesNext
    <2>j. PICK j \in Jobs, d \in Dirs : j = wk[w].job /\ d = wk[w].dest
      BY <1>w
    <2>1. /\ Exists(Marker(d, j))
          /\ SetMarker(d, j, [Marker(d, j) EXCEPT !.mtime = clock])
          /\ UNCHANGED <<new, cur, clock>>
      BY <1>11, <1>q, <2>j DEF ArchiveStamp
    <2>2. Marker(d, j) \in File
      BY <1>t, FileTypes
    <2>3. Moves!SetMarker(d, j, Moves!At(clock))
      BY <1>t, <2>1, <2>2, SeenMarker, Views
    <2>4. Moves!Stamp(d, j)
      BY <1>m, <2>1, <2>3, SeenIs DEF Moves!Stamp
    <2> QED
      BY <1>x, <2>4
  <1>12. CASE PruneUnlink
    <2>j. PICK j \in Jobs, d \in Dirs : j = prune.job /\ d = prune.dir
      BY <1>w
    <2>1. SetMarker(d, j, NoFile) /\ UNCHANGED <<new, cur, clock>>
      BY <1>12, <1>q, <2>j DEF PruneUnlink
    <2>2. Moves!SetMarker(d, j, Moves!Absent)
      BY <1>t, <1>v, <2>1, SeenMarker
    <2>3. Exists(Marker(d, j)) /\ clock > Marker(d, j).mtime + Retention
      BY <1>12, <1>t, <2>j, Overdue DEF PruneUnlink
    <2>4. Moves!Prune(d, j)
      BY <1>m, <2>1, <2>2, <2>3, SeenIs DEF Moves!Prune
    <2> QED
      BY <1>x, <2>4
  <1> QED
    BY <1>1, <1>2, <1>3, <1>4, <1>5, <1>6, <1>8, <1>9, <1>10, <1>11, <1>12, <1>q
       DEF Next, TryClaim, Finalize, Prune, ClaimBegin, MintBegin, vars, Crash,
           ClaimPreDone, ClaimPreError, ClaimPostDone, ClaimPostError, DispGoto,
           ClaimFails, GcFinalizeBegin, LockArchive, UnlockArchive,
           FinalizeBegin, PruneEnd, PruneLock, PruneRestat, PruneBegin, PruneJudge

(* Every system call of the spool - a retry's, a failure's, a crash's - is one of
   the single moves of SpoolMoves, the specification the listing reads against: what
   a reader sees absent has left nothing, a marker put back goes where it came from,
   a claim is taken back only for a marker that is there or has expired, and a marker
   goes only over its age or for a newer claim. *)
THEOREM SpoolImplementsMoves == Spec => MovesSpec
  BY MovesInit, MovesStep, ArchiveInvariant, PTL DEF Spec, MovesSpec, Moves!SpoolMovesSpec
=============================================================================
