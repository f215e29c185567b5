---------------------------- MODULE HostFilesProofs ----------------------------
(***************************************************************************)
(* Proofs about HostFiles, for any number of attempts, crashes and failing *)
(* calls, and every MaxAge, Retention and JobMax that HostFilesAssumption  *)
(* allows.                                                                 *)
(***************************************************************************)
EXTENDS HostFiles, TLAPS

\* The parts of the invariant.  An attempt has a number, no file is from the
\* future, and an attempt loses its blob at most once.
Numbered ==
    /\ pc # "idle" => gen > 0
    /\ blob.by <= gen /\ log.by <= gen
    /\ lost <= gen
    /\ pc \in {"unlink", "create", "fill", "boot", "copy"} => lost < gen

\* The attempt's own files are no older than the attempt, so they do not
\* expire under it.
OwnYoung == pc # "idle" =>
              /\ There(blob) /\ blob.by = gen => blob.age <= elapsed
              /\ There(log) /\ log.by = gen => log.age <= elapsed

\* From its creation on, a blob in place is the attempt's own.
OwnCreated == pc = "fill" /\ There(blob) => blob.by = gen

\* An attempt is about to miss its blob.
Missing == pc \in {"fill", "boot", "copy"} /\ ~There(blob)

\* A blob has been left over, or the collector is about to unlink on the
\* verdict on one.
Leftover == pruner = "blob" \/ (There(blob) /\ (pc = "idle" \/ blob.by # gen))

Count(b) == IF b THEN 1 ELSE 0

\* Every loss, past or to come, has its own crash or failed call.
Accounted == lost + Count(Missing) + Count(Leftover) <= crashes + faults

FilesInv == TypeOK /\ Numbered /\ OwnYoung /\ OwnCreated /\ OwnBlob /\ Accounted
-----------------------------------------------------------------------------
LEMMA Constants ==
    /\ JobMax \in Nat /\ MaxAge \in Nat /\ Retention \in Nat
    /\ MaxAttempts \in Nat /\ MaxCrash \in Nat /\ MaxFaults \in Nat
    /\ JobMax <= MaxAge /\ (Retention = 0 \/ JobMax <= Retention)
BY HostFilesAssumption DEF HostFilesAssumption

\* The files are records of three fields.
LEMMA FileFields ==
    ASSUME NEW limit \in Nat
    PROVE  /\ NoFile \in Files(limit) /\ ~There(NoFile)
           /\ gen \in 0..MaxAttempts => New \in Files(limit)
           /\ \A f \in Files(limit) :
                /\ Filled(f) \in Files(limit)
                /\ Older(f, limit) \in Files(limit)
<1> USE Constants DEF Files, NoFile, New, There, Older
<1>1. NoFile \in Files(limit) /\ ~There(NoFile)
  OBVIOUS
<1>2. gen \in 0..MaxAttempts => New \in Files(limit)
  OBVIOUS
<1>3. ASSUME NEW f \in Files(limit)
      PROVE  Filled(f) \in Files(limit)
  BY DEF Filled
<1>4. ASSUME NEW f \in Files(limit)
      PROVE  Older(f, limit) \in Files(limit)
  OBVIOUS
<1> QED
  BY <1>1, <1>2, <1>3, <1>4

LEMMA InitType == Init => TypeOK
<1> SUFFICES ASSUME Init PROVE TypeOK
  OBVIOUS
<1> USE Constants DEF Init
<1>1. inner \in BOOLEAN /\ anew \in BOOLEAN /\ torn \in BOOLEAN
  BY Zenon
<1>2. blob \in Files(MaxAge) /\ log \in Files(Retention)
  BY FileFields
<1> QED
  BY <1>1, <1>2 DEF TypeOK, Phases, PrunerPhases

\* The truth values of the state keep their type.
LEMMA StepBooleans ==
    ASSUME TypeOK, [Next]_vars
    PROVE  inner' \in BOOLEAN /\ anew' \in BOOLEAN /\ torn' \in BOOLEAN
<1> USE DEF TypeOK, attempt, bounds
<1>1. CASE Start
  BY Zenon, <1>1 DEF Start
<1>2. CASE AttemptStep
  <2>1. inner' \in BOOLEAN
    BY Zenon, <1>2 DEF AttemptStep, UnlinkStale, CreateBlob, FillBlob, Boot,
       CopyBlob, RunEnds, ReadConsole, WriteEvidence, DeleteVm, RemoveBlob
  <2>2. anew' \in BOOLEAN
    BY Zenon, <1>2 DEF AttemptStep, UnlinkStale, CreateBlob, FillBlob, Boot,
       CopyBlob, RunEnds, ReadConsole, WriteEvidence, DeleteVm, RemoveBlob
  <2>3. torn' \in BOOLEAN
    BY Zenon, <1>2 DEF AttemptStep, UnlinkStale, CreateBlob, FillBlob, Boot,
       CopyBlob, RunEnds, ReadConsole, WriteEvidence, DeleteVm, RemoveBlob
  <2> QED
    BY <2>1, <2>2, <2>3
<1>3. CASE GuestOom
  BY Zenon, <1>3 DEF GuestOom
<1>4. CASE PrunerStep
  <2>1. inner' \in BOOLEAN /\ torn' \in BOOLEAN
    BY Zenon, <1>4 DEF PrunerStep, PruneStatLog, PruneUnlinkLog, PruneStatBlob,
       PruneRecheck, PruneUnlinkBlob, PruneFails, Prune
  <2>2. anew' \in BOOLEAN
    BY Zenon, <1>4 DEF PrunerStep, PruneStatLog, PruneUnlinkLog, PruneStatBlob,
       PruneRecheck, PruneUnlinkBlob, PruneFails, Prune
  <2> QED
    BY <2>1, <2>2
<1>5. CASE VmReaped \/ Tick
  BY Zenon, <1>5 DEF VmReaped, Tick
<1>6. CASE Crash
  BY Zenon, <1>6 DEF Crash
<1>7. CASE UNCHANGED vars
  BY Zenon, <1>7 DEF vars
<1> QED
  BY <1>1, <1>2, <1>3, <1>4, <1>5, <1>6, <1>7 DEF Next

LEMMA StepType ==
    ASSUME TypeOK, Numbered, [Next]_vars
    PROVE  TypeOK'
<1> USE Constants DEF Phases, PrunerPhases, attempt, bounds, Fails, Succeeds
<1>1. blob' \in Files(MaxAge) /\ log' \in Files(Retention)
  <2> USE FileFields DEF TypeOK
  <2>1. CASE AttemptStep
    BY <2>1 DEF AttemptStep, UnlinkStale, CreateBlob, FillBlob, Boot,
       CopyBlob, RunEnds, ReadConsole, WriteEvidence, DeleteVm, RemoveBlob
  <2>2. CASE PrunerStep
    BY <2>2 DEF PrunerStep, PruneStatLog, PruneUnlinkLog, PruneStatBlob,
       PruneRecheck, PruneUnlinkBlob, PruneFails, Prune
  <2>3. CASE Start \/ GuestOom \/ VmReaped \/ Tick \/ Crash \/ UNCHANGED vars
    BY <2>3 DEF Start, GuestOom, VmReaped, Tick, Crash, vars
  <2> QED
    BY <2>1, <2>2, <2>3 DEF Next
<1>2. /\ pc' \in Phases /\ gen' \in 0..MaxAttempts /\ elapsed' \in 0..JobMax
      /\ vm' \in {"none", "up", "oom"} /\ pruner' \in PrunerPhases
  <2> USE DEF TypeOK
  <2>1. CASE AttemptStep
    BY <2>1 DEF AttemptStep, UnlinkStale, CreateBlob, FillBlob, Boot,
       CopyBlob, RunEnds, ReadConsole, WriteEvidence, DeleteVm, RemoveBlob
  <2>2. CASE PrunerStep
    BY <2>2 DEF PrunerStep, PruneStatLog, PruneUnlinkLog, PruneStatBlob,
       PruneRecheck, PruneUnlinkBlob, PruneFails, Prune
  <2>3. CASE Start \/ GuestOom \/ VmReaped \/ Tick \/ Crash \/ UNCHANGED vars
    BY <2>3 DEF Start, GuestOom, VmReaped, Tick, Crash, vars
  <2> QED
    BY <2>1, <2>2, <2>3 DEF Next
<1>3. /\ lost' \in 0..MaxAttempts /\ crashes' \in 0..MaxCrash
      /\ faults' \in 0..MaxFaults
  <2> USE DEF TypeOK, Numbered
  <2>1. CASE AttemptStep
    BY <2>1 DEF AttemptStep, UnlinkStale, CreateBlob, FillBlob, Boot,
       CopyBlob, RunEnds, ReadConsole, WriteEvidence, DeleteVm, RemoveBlob
  <2>2. CASE PrunerStep
    BY <2>2 DEF PrunerStep, PruneStatLog, PruneUnlinkLog, PruneStatBlob,
       PruneRecheck, PruneUnlinkBlob, PruneFails, Prune
  <2>3. CASE Start \/ GuestOom \/ VmReaped \/ Tick \/ Crash \/ UNCHANGED vars
    BY <2>3 DEF Start, GuestOom, VmReaped, Tick, Crash, vars
  <2> QED
    BY <2>1, <2>2, <2>3 DEF Next
<1> QED
  BY <1>1, <1>2, <1>3, StepBooleans DEF TypeOK

\* What a file that was just created, filled, or aged looks like.
LEMMA FileValues ==
    ASSUME TypeOK
    PROVE  /\ New.by = gen /\ New.age = 0
           /\ NoFile.by = 0 /\ NoFile.age = 0
           /\ blob.by \in Nat /\ blob.age \in Nat /\ log.by \in Nat /\ log.age \in Nat
           /\ There(blob) => Filled(blob).by = blob.by /\ Filled(blob).age = 0
           /\ There(blob) => Filled(blob).full
           /\ ~There(blob) => Filled(blob) = blob
           /\ There(log) => Filled(log).by = log.by /\ Filled(log).age = 0
           /\ There(log) => Filled(log).full
           /\ ~There(log) => Filled(log) = log
           /\ Older(blob, MaxAge).by = blob.by
           /\ Older(blob, MaxAge).full = blob.full
           /\ Older(blob, MaxAge).age <= blob.age + 1
           /\ Older(log, Retention).by = log.by
           /\ Older(log, Retention).full = log.full
           /\ Older(log, Retention).age <= log.age + 1
<1> USE Constants DEF TypeOK, Files
<1>1. /\ New.by = gen /\ New.age = 0 /\ NoFile.by = 0 /\ NoFile.age = 0
      /\ blob.by \in Nat /\ blob.age \in Nat /\ log.by \in Nat /\ log.age \in Nat
  BY DEF New, NoFile
<1>2. /\ There(blob) => Filled(blob).by = blob.by /\ Filled(blob).age = 0
      /\ ~There(blob) => Filled(blob) = blob
      /\ There(log) => Filled(log).by = log.by /\ Filled(log).age = 0
      /\ ~There(log) => Filled(log) = log
  BY DEF Filled
<1>3. /\ There(blob) => Filled(blob).full
      /\ There(log) => Filled(log).full
  BY DEF Filled
<1>4. /\ Older(blob, MaxAge).by = blob.by
      /\ Older(blob, MaxAge).age <= blob.age + 1
      /\ Older(log, Retention).by = log.by
      /\ Older(log, Retention).age <= log.age + 1
  BY DEF Older
<1>5. /\ Older(blob, MaxAge).full = blob.full
      /\ Older(log, Retention).full = log.full
  BY DEF Older
<1> QED
  BY <1>1, <1>2, <1>3, <1>4, <1>5

\* The arithmetic facts of a typed state.
LEMMA StepFacts ==
    ASSUME TypeOK
    PROVE  /\ gen \in Nat /\ lost \in Nat /\ crashes \in Nat /\ faults \in Nat
           /\ elapsed \in Nat /\ elapsed <= JobMax
BY Constants DEF TypeOK

\* The parts of the invariant, step by step.
LEMMA StepNumbered ==
    ASSUME TypeOK, Numbered, [Next]_vars
    PROVE  Numbered'
<1> USE StepFacts, FileValues DEF Numbered, There, attempt, bounds
<1>1. CASE Start
  BY <1>1 DEF Start
<1>2. CASE UnlinkStale
  BY <1>2 DEF UnlinkStale
<1>3. CASE CreateBlob
  BY <1>3 DEF CreateBlob
<1>4. CASE FillBlob
  BY <1>4 DEF FillBlob
<1>5. CASE Boot
  BY <1>5 DEF Boot
<1>6. CASE CopyBlob
  BY <1>6 DEF CopyBlob
<1>7. CASE RunEnds \/ GuestOom \/ VmReaped
  BY <1>7 DEF RunEnds, GuestOom, VmReaped
<1>8. CASE ReadConsole
  BY <1>8 DEF ReadConsole
<1>9. CASE WriteEvidence
  BY <1>9 DEF WriteEvidence
<1>10. CASE DeleteVm
  BY <1>10 DEF DeleteVm
<1>11. CASE RemoveBlob
  BY <1>11 DEF RemoveBlob
<1>12. CASE PruneStatLog \/ PruneUnlinkLog
  BY <1>12 DEF PruneStatLog, PruneUnlinkLog, Prune
<1>13. CASE PruneStatBlob \/ PruneRecheck
  BY <1>13 DEF PruneStatBlob, PruneRecheck, Prune, Expired
<1>14. CASE PruneUnlinkBlob
  BY <1>14 DEF PruneUnlinkBlob, Prune
<1>15. CASE PruneFails
  BY <1>15 DEF PruneFails
<1>16. CASE Tick
  BY <1>16 DEF Tick
<1>17. CASE Crash
  BY <1>17 DEF Crash
<1>18. CASE UNCHANGED vars
  BY <1>18 DEF vars
<1> QED
  BY <1>1, <1>2, <1>3, <1>4, <1>5, <1>6, <1>7, <1>8, <1>9,
     <1>10, <1>11, <1>12, <1>13, <1>14, <1>15, <1>16, <1>17, <1>18
     DEF Next, AttemptStep, PrunerStep

LEMMA StepYoung ==
    ASSUME TypeOK, Numbered, OwnYoung, OwnCreated, [Next]_vars
    PROVE  OwnYoung' /\ OwnCreated'
<1> USE StepFacts, FileValues DEF Numbered, OwnYoung, OwnCreated, There, attempt, bounds
<1>1. CASE Start
  BY <1>1 DEF Start
<1>2. CASE UnlinkStale
  BY <1>2 DEF UnlinkStale
<1>3. CASE CreateBlob
  BY <1>3 DEF CreateBlob
<1>4. CASE FillBlob
  BY <1>4 DEF FillBlob
<1>5. CASE Boot
  BY <1>5 DEF Boot
<1>6. CASE CopyBlob
  BY <1>6 DEF CopyBlob
<1>7. CASE RunEnds \/ GuestOom \/ VmReaped
  BY <1>7 DEF RunEnds, GuestOom, VmReaped
<1>8. CASE ReadConsole
  BY <1>8 DEF ReadConsole
<1>9. CASE WriteEvidence
  BY <1>9 DEF WriteEvidence
<1>10. CASE DeleteVm
  BY <1>10 DEF DeleteVm
<1>11. CASE RemoveBlob
  BY <1>11 DEF RemoveBlob
<1>12. CASE PruneStatLog \/ PruneUnlinkLog
  BY <1>12 DEF PruneStatLog, PruneUnlinkLog, Prune
<1>13. CASE PruneStatBlob \/ PruneRecheck
  BY <1>13 DEF PruneStatBlob, PruneRecheck, Prune, Expired
<1>14. CASE PruneUnlinkBlob
  BY <1>14 DEF PruneUnlinkBlob, Prune
<1>15. CASE PruneFails
  BY <1>15 DEF PruneFails
<1>16. CASE Tick
  <2>1. blob'.by = blob.by /\ log'.by = log.by /\ pc' = pc /\ gen' = gen
    BY <1>16 DEF Tick
  <2>2. blob'.age <= blob.age + 1 /\ log'.age <= log.age + 1
    BY <1>16 DEF Tick
  <2>3. pc # "idle" => elapsed' = elapsed + 1
    BY <1>16 DEF Tick
  <2>4. blob'.age \in Nat /\ log'.age \in Nat
    BY StepType, FileValues, Constants DEF TypeOK, Files
  <2> QED
    BY <2>1, <2>2, <2>3, <2>4
<1>17. CASE Crash
  BY <1>17 DEF Crash
<1>18. CASE UNCHANGED vars
  BY <1>18 DEF vars
<1> QED
  BY <1>1, <1>2, <1>3, <1>4, <1>5, <1>6, <1>7, <1>8, <1>9,
     <1>10, <1>11, <1>12, <1>13, <1>14, <1>15, <1>16, <1>17, <1>18
     DEF Next, AttemptStep, PrunerStep

LEMMA StepOwnBlob ==
    ASSUME TypeOK, OwnCreated, OwnBlob, [Next]_vars
    PROVE  OwnBlob'
<1> USE FileValues DEF OwnCreated, OwnBlob, There, attempt, bounds
<1>1. CASE Start
  BY <1>1 DEF Start
<1>2. CASE UnlinkStale
  BY <1>2 DEF UnlinkStale
<1>3. CASE CreateBlob
  BY <1>3 DEF CreateBlob
<1>4. CASE FillBlob
  BY <1>4 DEF FillBlob
<1>5. CASE Boot
  BY <1>5 DEF Boot
<1>6. CASE CopyBlob
  BY <1>6 DEF CopyBlob
<1>7. CASE RunEnds \/ GuestOom \/ VmReaped
  BY <1>7 DEF RunEnds, GuestOom, VmReaped
<1>8. CASE ReadConsole
  BY <1>8 DEF ReadConsole
<1>9. CASE WriteEvidence
  BY <1>9 DEF WriteEvidence
<1>10. CASE DeleteVm
  BY <1>10 DEF DeleteVm
<1>11. CASE RemoveBlob
  BY <1>11 DEF RemoveBlob
<1>12. CASE PruneStatLog \/ PruneUnlinkLog
  BY <1>12 DEF PruneStatLog, PruneUnlinkLog, Prune
<1>13. CASE PruneStatBlob \/ PruneRecheck
  BY <1>13 DEF PruneStatBlob, PruneRecheck, Prune, Expired
<1>14. CASE PruneUnlinkBlob
  BY <1>14 DEF PruneUnlinkBlob, Prune
<1>15. CASE PruneFails
  BY <1>15 DEF PruneFails
<1>16. CASE Tick
  <2>1. blob'.by = blob.by /\ pc' = pc /\ gen' = gen
    BY <1>16 DEF Tick
  <2>2. blob'.full = blob.full
    BY <1>16 DEF Tick
  <2>3. CASE pc \in {"boot", "copy"} /\ There(blob)
    <3>1. blob.by = gen /\ blob.full
      BY <2>3
    <3> QED
      BY <2>1, <2>2, <3>1
  <2>4. CASE ~(pc \in {"boot", "copy"} /\ There(blob))
    BY <2>1, <2>4
  <2> QED
    BY <2>3, <2>4
<1>17. CASE Crash
  BY <1>17 DEF Crash
<1>18. CASE UNCHANGED vars
  BY <1>18 DEF vars
<1> QED
  BY <1>1, <1>2, <1>3, <1>4, <1>5, <1>6, <1>7, <1>8, <1>9,
     <1>10, <1>11, <1>12, <1>13, <1>14, <1>15, <1>16, <1>17, <1>18
     DEF Next, AttemptStep, PrunerStep

LEMMA StepAccounted ==
    ASSUME TypeOK, Numbered, OwnYoung, Accounted, [Next]_vars
    PROVE  Accounted'
<1> USE StepFacts, FileValues, Constants DEF Numbered, OwnYoung, Accounted, Missing,
    Leftover, Count, There, Fails, Succeeds, attempt, bounds
<1>1. CASE Start
  BY <1>1 DEF Start
<1>2. CASE UnlinkStale
  BY <1>2 DEF UnlinkStale
<1>3. CASE CreateBlob
  BY <1>3 DEF CreateBlob
<1>4. CASE FillBlob
  BY <1>4 DEF FillBlob
<1>5. CASE Boot
  BY <1>5 DEF Boot
<1>6. CASE CopyBlob
  BY <1>6 DEF CopyBlob
<1>7. CASE RunEnds \/ GuestOom \/ VmReaped
  BY <1>7 DEF RunEnds, GuestOom, VmReaped
<1>8. CASE ReadConsole
  BY <1>8 DEF ReadConsole
<1>9. CASE WriteEvidence
  BY <1>9 DEF WriteEvidence
<1>10. CASE DeleteVm
  BY <1>10 DEF DeleteVm
<1>11. CASE RemoveBlob
  BY <1>11 DEF RemoveBlob
<1>12. CASE PruneStatLog \/ PruneUnlinkLog
  BY <1>12 DEF PruneStatLog, PruneUnlinkLog, Prune
<1>13. CASE PruneStatBlob \/ PruneRecheck
  BY <1>13 DEF PruneStatBlob, PruneRecheck, Prune, Expired
<1>14. CASE PruneUnlinkBlob
  BY <1>14 DEF PruneUnlinkBlob, Prune
<1>15. CASE PruneFails
  BY <1>15 DEF PruneFails
<1>16. CASE Tick
  BY <1>16 DEF Tick
<1>17. CASE Crash
  BY <1>17 DEF Crash
<1>18. CASE UNCHANGED vars
  BY <1>18 DEF vars
<1> QED
  BY <1>1, <1>2, <1>3, <1>4, <1>5, <1>6, <1>7, <1>8, <1>9,
     <1>10, <1>11, <1>12, <1>13, <1>14, <1>15, <1>16, <1>17, <1>18
     DEF Next, AttemptStep, PrunerStep

LEMMA InitInv == Init => FilesInv
<1> SUFFICES ASSUME Init PROVE FilesInv
  OBVIOUS
<1>1. TypeOK
  BY InitType
<1>2. Numbered /\ OwnYoung /\ OwnCreated /\ OwnBlob
  BY DEF Init, Numbered, OwnYoung, OwnCreated, OwnBlob, NoFile
<1>3. Accounted
  BY DEF Init, Accounted, Missing, Leftover, Count, There, NoFile
<1> QED
  BY <1>1, <1>2, <1>3 DEF FilesInv

LEMMA StepInv ==
    ASSUME FilesInv, [Next]_vars
    PROVE  FilesInv'
BY StepType, StepNumbered, StepYoung, StepOwnBlob, StepAccounted DEF FilesInv

LEMMA FilesInvariant == Spec => []FilesInv
BY InitInv, StepInv, PTL DEF Spec

(* Both files, the attempt and the collector keep their types. *)
THEOREM FilesTypeCorrect == Spec => []TypeOK
<1>1. FilesInv => TypeOK
  BY DEF FilesInv
<1> QED
  BY FilesInvariant, <1>1, PTL

(* No VM is ever given a JIT config that another attempt has left behind, or
   one that is not completely written (write_jit_blob). *)
THEOREM FilesOwnBlob == Spec => []OwnBlob
<1>1. FilesInv => OwnBlob
  BY DEF FilesInv
<1> QED
  BY FilesInvariant, <1>1, PTL

(* prune_stale_jit_blobs costs an attempt its blob at most once for every crash
   or failed call: the attempt's own blob never expires under it, and each
   left-over spends one of them. *)
THEOREM FilesLostBounded == Spec => []LostBounded
<1>1. FilesInv => LostBounded
  BY StepFacts DEF FilesInv, Accounted, Count, LostBounded
<1> QED
  BY FilesInvariant, <1>1, PTL
-----------------------------------------------------------------------------
(* The evidence of a guest OOM, on a run without faults.  An own log that the
   collector is about to unlink is known to be new, since it cannot have
   expired under its attempt. *)
Faultless == faults = 0 /\ crashes = 0

OwnLogAnew == pc # "idle" /\ There(log) /\ log.by = gen /\ pruner = "log" => anew

VmInUse ==
    Faultless /\ vm # "none" =>
        pc \notin {"idle", "unlink", "create", "fill", "boot", "remove"}

Captured ==
    Faultless /\ ~torn =>
      /\ pc = "logFill" => log.by = gen
      /\ pc = "delete" /\ vm = "oom" => log.by = gen /\ log.full

CaptureInv == OwnLogAnew /\ VmInUse /\ Captured

LEMMA StepAnew ==
    ASSUME FilesInv, OwnLogAnew, [Next]_vars
    PROVE  OwnLogAnew'
<1> USE StepFacts, FileValues, Constants DEF FilesInv, Numbered, OwnYoung, OwnLogAnew,
    There, attempt, bounds
<1>1. CASE Start
  BY <1>1 DEF Start
<1>2. CASE UnlinkStale
  BY <1>2 DEF UnlinkStale
<1>3. CASE CreateBlob
  BY <1>3 DEF CreateBlob
<1>4. CASE FillBlob
  BY <1>4 DEF FillBlob
<1>5. CASE Boot
  BY <1>5 DEF Boot
<1>6. CASE CopyBlob
  BY <1>6 DEF CopyBlob
<1>7. CASE RunEnds \/ GuestOom \/ VmReaped
  BY <1>7 DEF RunEnds, GuestOom, VmReaped
<1>8. CASE ReadConsole
  BY <1>8 DEF ReadConsole, Worth
<1>9. CASE WriteEvidence
  BY <1>9 DEF WriteEvidence
<1>10. CASE DeleteVm
  BY <1>10 DEF DeleteVm
<1>11. CASE RemoveBlob
  BY <1>11 DEF RemoveBlob
<1>12. CASE PruneStatLog
  BY <1>12 DEF PruneStatLog, Prune, Expired
<1>13. CASE PruneUnlinkLog
  BY <1>13 DEF PruneUnlinkLog
<1>14. CASE PruneStatBlob \/ PruneRecheck \/ PruneUnlinkBlob
  BY <1>14 DEF PruneStatBlob, PruneRecheck, PruneUnlinkBlob, Prune
<1>15. CASE PruneFails
  BY <1>15 DEF PruneFails
<1>16. CASE Tick
  BY <1>16 DEF Tick
<1>17. CASE Crash
  BY <1>17 DEF Crash
<1>18. CASE UNCHANGED vars
  BY <1>18 DEF vars
<1> QED
  BY <1>1, <1>2, <1>3, <1>4, <1>5, <1>6, <1>7, <1>8, <1>9,
     <1>10, <1>11, <1>12, <1>13, <1>14, <1>15, <1>16, <1>17, <1>18
     DEF Next, AttemptStep, PrunerStep

LEMMA StepVmInUse ==
    ASSUME FilesInv, VmInUse, [Next]_vars
    PROVE  VmInUse'
<1> USE StepFacts DEF FilesInv, VmInUse, Faultless, Fails, Succeeds, attempt, bounds
<1>1. CASE Start
  BY <1>1 DEF Start
<1>2. CASE UnlinkStale
  BY <1>2 DEF UnlinkStale
<1>3. CASE CreateBlob
  BY <1>3 DEF CreateBlob
<1>4. CASE FillBlob
  BY <1>4 DEF FillBlob
<1>5. CASE Boot
  BY <1>5 DEF Boot
<1>6. CASE CopyBlob
  BY <1>6 DEF CopyBlob
<1>7. CASE RunEnds \/ GuestOom \/ VmReaped
  BY <1>7 DEF RunEnds, GuestOom, VmReaped
<1>8. CASE ReadConsole
  BY <1>8 DEF ReadConsole, Worth
<1>9. CASE WriteEvidence
  BY <1>9 DEF WriteEvidence
<1>10. CASE DeleteVm
  BY <1>10 DEF DeleteVm
<1>11. CASE RemoveBlob
  BY <1>11 DEF RemoveBlob
<1>12. CASE PruneStatLog
  BY <1>12 DEF PruneStatLog, Prune, Expired
<1>13. CASE PruneUnlinkLog
  BY <1>13 DEF PruneUnlinkLog
<1>14. CASE PruneStatBlob \/ PruneRecheck \/ PruneUnlinkBlob
  BY <1>14 DEF PruneStatBlob, PruneRecheck, PruneUnlinkBlob, Prune
<1>15. CASE PruneFails
  BY <1>15 DEF PruneFails
<1>16. CASE Tick
  BY <1>16 DEF Tick
<1>17. CASE Crash
  BY <1>17 DEF Crash
<1>18. CASE UNCHANGED vars
  BY <1>18 DEF vars
<1> QED
  BY <1>1, <1>2, <1>3, <1>4, <1>5, <1>6, <1>7, <1>8, <1>9,
     <1>10, <1>11, <1>12, <1>13, <1>14, <1>15, <1>16, <1>17, <1>18
     DEF Next, AttemptStep, PrunerStep

LEMMA StepCaptured ==
    ASSUME FilesInv, OwnLogAnew, VmInUse, Captured, [Next]_vars
    PROVE  Captured'
<1> USE StepFacts, FileValues DEF FilesInv, Numbered, OwnLogAnew, VmInUse, Captured,
    Faultless, There, Fails, Succeeds, attempt, bounds
<1>1. CASE Start
  BY <1>1 DEF Start
<1>2. CASE UnlinkStale
  BY <1>2 DEF UnlinkStale
<1>3. CASE CreateBlob
  BY <1>3 DEF CreateBlob
<1>4. CASE FillBlob
  BY <1>4 DEF FillBlob
<1>5. CASE Boot
  BY <1>5 DEF Boot
<1>6. CASE CopyBlob
  BY <1>6 DEF CopyBlob
<1>7. CASE RunEnds \/ GuestOom \/ VmReaped
  BY <1>7 DEF RunEnds, GuestOom, VmReaped
<1>8. CASE ReadConsole
  BY <1>8 DEF ReadConsole, Worth
<1>9. CASE WriteEvidence
  BY <1>9 DEF WriteEvidence
<1>10. CASE DeleteVm
  BY <1>10 DEF DeleteVm
<1>11. CASE RemoveBlob
  BY <1>11 DEF RemoveBlob
<1>12. CASE PruneStatLog
  BY <1>12 DEF PruneStatLog, Prune, Expired
<1>13. CASE PruneUnlinkLog
  <2>1. ~torn' => ~torn /\ ~anew
    BY Zenon, <1>13 DEF PruneUnlinkLog
  <2>2. /\ pc' = pc /\ gen' = gen /\ vm' = vm /\ faults' = faults
        /\ crashes' = crashes /\ pruner = "log"
    BY <1>13 DEF PruneUnlinkLog
  <2>3. Faultless /\ ~torn' => pc # "logFill" /\ ~(pc = "delete" /\ vm = "oom")
    BY <2>1, <2>2
  <2> QED
    BY <2>2, <2>3
<1>14. CASE PruneStatBlob \/ PruneRecheck \/ PruneUnlinkBlob
  BY <1>14 DEF PruneStatBlob, PruneRecheck, PruneUnlinkBlob, Prune
<1>15. CASE PruneFails
  BY <1>15 DEF PruneFails
<1>16. CASE Tick
  BY <1>16 DEF Tick
<1>17. CASE Crash
  BY <1>17 DEF Crash
<1>18. CASE UNCHANGED vars
  BY <1>18 DEF vars
<1> QED
  BY <1>1, <1>2, <1>3, <1>4, <1>5, <1>6, <1>7, <1>8, <1>9,
     <1>10, <1>11, <1>12, <1>13, <1>14, <1>15, <1>16, <1>17, <1>18
     DEF Next, AttemptStep, PrunerStep

LEMMA CaptureInit == Init => CaptureInv
BY DEF Init, CaptureInv, OwnLogAnew, VmInUse, Captured, Faultless

LEMMA CaptureInvariant == Spec => [](FilesInv /\ CaptureInv)
<1>1. ASSUME FilesInv, CaptureInv, [Next]_vars
      PROVE  CaptureInv'
  BY <1>1, StepAnew, StepVmInUse, StepCaptured DEF CaptureInv
<1> QED
  BY InitInv, StepInv, CaptureInit, <1>1, PTL DEF Spec

(* Without faults, the VM of a guest that ran out of memory is deleted only
   after its console is on disk, whatever the collector does meanwhile short of
   unlinking the new log on the verdict on an old one (capture_oom_evidence,
   teardown). *)
THEOREM FilesCaptureBeforeDelete == Spec => CaptureBeforeDelete
<1>1. ASSUME FilesInv, CaptureInv
      PROVE  [pc = "delete" /\ vm = "oom" /\ vm' = "none"
                /\ faults = 0 /\ crashes = 0 /\ ~torn
                => log.by = gen /\ log.full]_vars
  BY <1>1 DEF CaptureInv, Captured, Faultless
<1> QED
  BY CaptureInvariant, <1>1, PTL DEF Spec, CaptureBeforeDelete
=============================================================================
