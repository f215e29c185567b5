---------------------------- MODULE IntakeProofs ----------------------------
(***************************************************************************)
(* Theorems about what the operator controls and is shown.  Intake, for    *)
(* every max_concurrency and every backlog: no permit is lost, a clean     *)
(* exit abandons nothing, a drained daemon stays drained until it is       *)
(* resumed, and a pause lets at most one claim of each writer through.     *)
(* Listing: what GET /jobs shows of the spool while its files move.        *)
(***************************************************************************)
EXTENDS Intake, Listing, FiniteSetTheorems, SequenceTheorems, TLAPS

(* The line agrees with its waiters, and permits are free only if nobody waits.
   From its first step the drain leaves nothing free. *)
QueueInv ==
    /\ queue["disp"] # 0 <=> disp = "queued"
    /\ queue["drain"] # 0 => drain = "waiting"
    /\ \A w \in Waiters : queue[w] # 0 => free = 0
    /\ queue["disp"] = 2 => queue["drain"] = 1
    /\ queue["drain"] = 2 => queue["disp"] = 1
    /\ ~(queue["disp"] = 1 /\ queue["drain"] = 1)
    /\ drain = "waiting" => free = 0 /\ (queue["drain"] # 0 \/ got = MaxConcurrency)
    /\ drain # "waiting" => got = 0

(* What a pause has let through was decided on before it. *)
PauseInv ==
    /\ seen => paused /\ tasks = 0 /\ disp \notin {"prepare", "file"} /\ rec # "write"
    /\ late["disp"] \in 0..1 /\ late["rec"] \in 0..1
    /\ late["disp"] = 1 => paused /\ disp # "prepare"
    /\ late["rec"] = 1 => paused /\ rec # "write"

ExitInv == exit = "drained" => got = MaxConcurrency

IInv == TypeOK /\ PermitsConserved /\ QueueInv /\ PauseInv /\ ExitInv

(* Nobody has acted at the start. *)
LEMMA InitInv == Init => IInv
  <1> SUFFICES ASSUME Init PROVE IInv
    OBVIOUS
  <1> USE IntakeAssumption DEF Init, Claimants, Waiters
  <1>1. TypeOK
    <2>1. queue \in [Waiters -> 0..2] /\ late \in [Claimants -> Nat]
      OBVIOUS
    <2>2. /\ free \in 0..MaxConcurrency /\ got \in 0..MaxConcurrency
          /\ pending \in 0..MaxPending /\ tasks \in 0..MaxConcurrency
      OBVIOUS
    <2>3. /\ disp \in DispPC /\ rec \in RecPC
          /\ signals \in {"none", "term", "force"}
          /\ drain \in {"off", "paused", "waiting"}
          /\ exit \in {"no", "drained", "forced", "failed"}
      BY DEF DispPC, RecPC
    <2>4. paused \in BOOLEAN /\ seen \in BOOLEAN /\ dead \subseteq Supervised
      OBVIOUS
    <2> QED BY <2>1, <2>2, <2>3, <2>4 DEF TypeOK
  <1>2. PermitsConserved
    BY DEF PermitsConserved, Held, DispHolds, RecHolds
  <1>3. QueueInv
    BY DEF QueueInv
  <1>4. PauseInv /\ ExitInv
    BY DEF PauseInv, ExitInv
  <1> QED BY <1>1, <1>2, <1>3, <1>4 DEF IInv

(* The operator, the watcher and the signals move no permit. *)
LEMMA OutsideInv ==
  ASSUME IInv, Watch \/ Pause \/ Resume \/ Status \/ Signal
  PROVE  IInv'
  <1> USE IntakeAssumption
      DEF IInv, TypeOK, PermitsConserved, Held, DispHolds, RecHolds, QueueInv,
          PauseInv, ExitInv, DispPC, RecPC, Claimants, Waiters, Supervised,
          semaphore, Running, InFlight
  <1>1. CASE Watch BY <1>1 DEF Watch
  <1>2. CASE Pause BY <1>2 DEF Pause
  <1>3. CASE Resume
    <2> USE <1>3 DEF Resume
    <2>1. TypeOK' OBVIOUS
    <2>2. PermitsConserved' OBVIOUS
    <2>3. QueueInv' OBVIOUS
    <2>4. PauseInv' OBVIOUS
    <2>5. ExitInv' OBVIOUS
    <2> QED BY <2>1, <2>2, <2>3, <2>4, <2>5
  <1>4. CASE Status
    <2> USE <1>4 DEF Status
    <2>1. TypeOK' OBVIOUS
    <2>2. PermitsConserved' OBVIOUS
    <2>3. QueueInv' OBVIOUS
    <2>4. PauseInv' OBVIOUS
    <2>5. ExitInv' OBVIOUS
    <2> QED BY <2>1, <2>2, <2>3, <2>4, <2>5
  <1>5. CASE Signal BY <1>5 DEF Signal
  <1> QED BY <1>1, <1>2, <1>3, <1>4, <1>5

(* Where a released permit goes. *)
LEMMA ReleaseFacts ==
  ASSUME TypeOK, QueueInv, Release, free + got < MaxConcurrency
  PROVE  /\ queue' \in [Waiters -> 0..2]
         /\ free' \in 0..MaxConcurrency /\ got' \in 0..MaxConcurrency
         /\ queue["disp"] # 1 => free' + got' = free + got + 1 /\ queue' = queue
         /\ queue["disp"] = 1 => /\ free' = free /\ got' = got /\ queue'["disp"] = 0
                                 /\ queue["drain"] = 0 => queue'["drain"] = 0
                                 /\ queue["drain"] = 2 => queue'["drain"] = 1
         /\ drain = "waiting" => free' = 0
         /\ drain # "waiting" => got' = 0
         /\ queue["drain"] # 0 => queue'["drain"] # 0
         /\ \A w \in Waiters : queue'[w] # 0 => free' = 0
  <1> USE IntakeAssumption DEF TypeOK, QueueInv, Waiters
  <1>1. CASE /\ \A w \in Waiters : queue[w] = 0
             /\ free' = free + 1 /\ UNCHANGED <<queue, got>>
    BY <1>1
  <1>2. CASE queue["drain"] = 1 /\ got' = got + 1 /\ UNCHANGED <<free, queue>>
    BY <1>2
  <1>3. CASE /\ queue["disp"] = 1
             /\ queue' = [w \in Waiters |-> IF queue[w] = 0 THEN 0 ELSE queue[w] - 1]
             /\ UNCHANGED <<free, got>>
    <2>1. queue["drain"] \in {0, 2}
      BY <1>3
    <2>2. queue'["disp"] = 0 /\ queue'["drain"] = IF queue["drain"] = 0 THEN 0 ELSE 1
      BY <1>3, <2>1
    <2> QED BY <1>3, <2>1, <2>2
  <1> QED BY <1>1, <1>2, <1>3 DEF Release

(* The dispatch loop gives back what it took, or hands it to a task. *)
LEMMA DispatchInv ==
  ASSUME IInv, Dispatch
  PROVE  IInv'
  <1> USE IntakeAssumption
      DEF IInv, TypeOK, PermitsConserved, Held, DispHolds, RecHolds, QueueInv,
          PauseInv, ExitInv, DispPC, RecPC, Claimants, Waiters, Supervised,
          semaphore, Running, DispGoto
  <1>1. CASE DispRecv BY <1>1 DEF DispRecv
  <1>2. CASE DispGate BY <1>2 DEF DispGate
  <1>3. CASE DispAcquire
    <2> USE <1>3 DEF DispAcquire, Enqueue
    <2>1. TypeOK'
      <3>1. queue' \in [Waiters -> 0..2] /\ free' \in 0..MaxConcurrency
        OBVIOUS
      <3>2. disp' \in DispPC
        OBVIOUS
      <3> QED BY <3>1, <3>2
    <2>2. PermitsConserved' OBVIOUS
    <2>3. QueueInv' OBVIOUS
    <2>4. PauseInv' OBVIOUS
    <2>5. ExitInv' OBVIOUS
    <2> QED BY <2>1, <2>2, <2>3, <2>4, <2>5
  <1>4. CASE DispRecheck
    <2> USE <1>4 DEF DispRecheck
    <2>1. Release => free + got < MaxConcurrency
      OBVIOUS
    <2>2. TypeOK' BY <2>1, ReleaseFacts
    <2>3. PermitsConserved' BY <2>1, ReleaseFacts
    <2>4. QueueInv' BY <2>1, ReleaseFacts
    <2>5. PauseInv' OBVIOUS
    <2>6. ExitInv' OBVIOUS
    <2> QED BY <2>2, <2>3, <2>4, <2>5, <2>6
  <1>5. CASE DispPrepare
    <2> USE <1>5 DEF DispPrepare, CountLate
    <2>1. Release => free + got < MaxConcurrency
      OBVIOUS
    <2>2. TypeOK' BY <2>1, ReleaseFacts
    <2>3. PermitsConserved' BY <2>1, ReleaseFacts
    <2>4. QueueInv' BY <2>1, ReleaseFacts
    <2>5. PauseInv' OBVIOUS
    <2>6. ExitInv' OBVIOUS
    <2> QED BY <2>2, <2>3, <2>4, <2>5, <2>6
  <1>6. CASE DispFile
    <2> USE <1>6 DEF DispFile
    <2>1. Release => free + got < MaxConcurrency
      OBVIOUS
    <2>2. TypeOK' BY <2>1, ReleaseFacts
    <2>3. PermitsConserved' BY <2>1, ReleaseFacts
    <2>4. QueueInv' BY <2>1, ReleaseFacts
    <2>5. PauseInv' OBVIOUS
    <2>6. ExitInv' OBVIOUS
    <2> QED BY <2>2, <2>3, <2>4, <2>5, <2>6
  <1> QED BY <1>1, <1>2, <1>3, <1>4, <1>5, <1>6 DEF Dispatch

(* So does the reconciler. *)
LEMMA ReconcileInv ==
  ASSUME IInv, Reconcile
  PROVE  IInv'
  <1> USE IntakeAssumption
      DEF IInv, TypeOK, PermitsConserved, Held, DispHolds, RecHolds, QueueInv,
          PauseInv, ExitInv, DispPC, RecPC, Claimants, Waiters, Supervised,
          semaphore, Running, RecGoto
  <1>1. CASE RecTick BY <1>1 DEF RecTick
  <1>2. CASE RecRepo
    <2> USE <1>2 DEF RecRepo
    <2>1. TypeOK' OBVIOUS
    <2>2. PermitsConserved' OBVIOUS
    <2>3. QueueInv' OBVIOUS
    <2>4. PauseInv' OBVIOUS
    <2>5. ExitInv' OBVIOUS
    <2> QED BY <2>1, <2>2, <2>3, <2>4, <2>5
  <1>3. CASE RecJob
    <2> USE <1>3 DEF RecJob
    <2>1. TypeOK' OBVIOUS
    <2>2. PermitsConserved' OBVIOUS
    <2>3. QueueInv' OBVIOUS
    <2>4. PauseInv' OBVIOUS
    <2>5. ExitInv' OBVIOUS
    <2> QED BY <2>1, <2>2, <2>3, <2>4, <2>5
  <1>4. CASE RecPermit
    <2> USE <1>4 DEF RecPermit
    <2>1. TypeOK'
      <3>1. free' \in 0..MaxConcurrency /\ rec' \in RecPC
        OBVIOUS
      <3> QED BY <3>1
    <2>2. PermitsConserved' OBVIOUS
    <2>3. QueueInv' OBVIOUS
    <2>4. PauseInv' OBVIOUS
    <2>5. ExitInv' OBVIOUS
    <2> QED BY <2>1, <2>2, <2>3, <2>4, <2>5
  <1>5. CASE RecRecheck
    <2> USE <1>5 DEF RecRecheck, DispAfterRelease
    <2>1. Release => free + got < MaxConcurrency
      OBVIOUS
    <2>2. TypeOK' BY <2>1, ReleaseFacts
    <2>3. PermitsConserved' BY <2>1, ReleaseFacts
    <2>4. QueueInv' BY <2>1, ReleaseFacts
    <2>5. PauseInv' OBVIOUS
    <2>6. ExitInv' OBVIOUS
    <2> QED BY <2>2, <2>3, <2>4, <2>5, <2>6
  <1>6. CASE RecWrite
    <2> USE <1>6 DEF RecWrite, CountLate, DispAfterRelease
    <2>1. Release => free + got < MaxConcurrency
      OBVIOUS
    <2>2. TypeOK' BY <2>1, ReleaseFacts
    <2>3. PermitsConserved' BY <2>1, ReleaseFacts
    <2>4. QueueInv' BY <2>1, ReleaseFacts
    <2>5. PauseInv' OBVIOUS
    <2>6. ExitInv' OBVIOUS
    <2> QED BY <2>2, <2>3, <2>4, <2>5, <2>6
  <1> QED BY <1>1, <1>2, <1>3, <1>4, <1>5, <1>6 DEF Reconcile

(* Tasks, deaths and the drain only pass permits on. *)
LEMMA EndingInv ==
  ASSUME IInv,
         TaskEnds \/ ShutdownPause \/ ShutdownAcquire \/ ShutdownEnds
         \/ (\E t \in Supervised : Dies(t)) \/ SuperviseFails
  PROVE  IInv'
  <1> USE IntakeAssumption
      DEF IInv, TypeOK, PermitsConserved, Held, DispHolds, RecHolds, QueueInv,
          PauseInv, ExitInv, DispPC, RecPC, Claimants, Waiters, Supervised,
          semaphore, Running
  <1>1. CASE TaskEnds
    <2> USE <1>1 DEF TaskEnds, DispAfterRelease
    <2>1. Release => free + got < MaxConcurrency
      OBVIOUS
    <2>2. TypeOK' BY <2>1, ReleaseFacts
    <2>3. PermitsConserved' BY <2>1, ReleaseFacts
    <2>4. QueueInv' BY <2>1, ReleaseFacts
    <2>5. PauseInv' OBVIOUS
    <2>6. ExitInv' OBVIOUS
    <2> QED BY <2>2, <2>3, <2>4, <2>5, <2>6
  <1>2. CASE ShutdownPause BY <1>2 DEF ShutdownPause
  <1>3. CASE ShutdownAcquire
    <2> USE <1>3 DEF ShutdownAcquire, Enqueue
    <2>1. TypeOK' OBVIOUS
    <2>2. PermitsConserved' OBVIOUS
    <2>3. QueueInv' OBVIOUS
    <2>4. PauseInv' OBVIOUS
    <2>5. ExitInv' OBVIOUS
    <2> QED BY <2>1, <2>2, <2>3, <2>4, <2>5
  <1>4. CASE ShutdownEnds BY <1>4 DEF ShutdownEnds, Acquired
  <1>5. CASE \E t \in Supervised : Dies(t)
    <2> PICK t \in Supervised : Dies(t)
      BY <1>5
    <2> USE DEF Dies, DispAfterRelease
    <2>1. CASE t = "reconciler" /\ RecHolds
      <3>1. free + got < MaxConcurrency /\ Release
        BY <2>1
      <3>2. TypeOK' BY <2>1, <3>1, ReleaseFacts
      <3>3. PermitsConserved' BY <2>1, <3>1, ReleaseFacts
      <3>4. QueueInv' BY <2>1, <3>1, ReleaseFacts
      <3>5. PauseInv' BY <2>1
      <3>6. ExitInv' BY <2>1
      <3> QED BY <3>2, <3>3, <3>4, <3>5, <3>6
    <2>2. CASE ~(t = "reconciler" /\ RecHolds)
      BY <2>2
    <2> QED BY <2>1, <2>2
  <1>6. CASE SuperviseFails BY <1>6 DEF SuperviseFails
  <1> QED BY <1>1, <1>2, <1>3, <1>4, <1>5, <1>6

(* A step that changes nothing. *)
LEMMA StutterInv ==
  ASSUME IInv, UNCHANGED vars
  PROVE  IInv'
  BY DEF vars, IInv, TypeOK, PermitsConserved, Held, DispHolds, RecHolds, QueueInv,
         PauseInv, ExitInv

(* The invariant holds throughout. *)
THEOREM IntakeInvariant == Spec => []IInv
  <1>1. Init => IInv
    BY InitInv
  <1>2. IInv /\ [Next]_vars => IInv'
    BY OutsideInv, DispatchInv, ReconcileInv, EndingInv, StutterInv DEF Next
  <1> QED BY <1>1, <1>2, PTL DEF Spec

(* Type correctness of the intake's state. *)
THEOREM IntakeTypeCorrect == Spec => []TypeOK
  <1>1. IInv => TypeOK
    BY DEF IInv
  <1> QED BY <1>1, IntakeInvariant, PTL

(* The semaphore's permits are conserved by dispatch, reconciler, tasks, deaths
   and drain. *)
THEOREM IntakePermitsConserved == Spec => []PermitsConserved
  <1>1. IInv => PermitsConserved
    BY DEF IInv
  <1> QED BY <1>1, IntakeInvariant, PTL

(* A drained exit abandons no job and no claim, even after a resume. *)
THEOREM IntakeDrainedMeansIdle == Spec => []DrainedMeansIdle
  <1>1. IInv => DrainedMeansIdle
    BY IntakeAssumption
    DEF IInv, TypeOK, PermitsConserved, Held, DispHolds, RecHolds, ExitInv,
        DrainedMeansIdle
  <1> QED BY <1>1, IntakeInvariant, PTL

(* Pause, then in_flight = 0: the daemon may be stopped. *)
THEOREM IntakeSafeToStop == Spec => []SafeToStop
  <1>1. IInv => SafeToStop
    BY DEF IInv, PauseInv, SafeToStop
  <1> QED BY <1>1, IntakeInvariant, PTL

(* At most one claim of each writer follows a pause. *)
THEOREM IntakePauseBounded == Spec => []PauseBounded
  <1>1. IInv => PauseBounded
    BY DEF IInv, PauseInv, PauseBounded, Claimants
  <1> QED BY <1>1, IntakeInvariant, PTL

-----------------------------------------------------------------------------
(* Listing: what GET /jobs shows of the directories while their files move on.
   A job is followed by the place in the walk where it would still be met. *)

MovesType ==
    /\ new \subseteq Jobs /\ clock \in Nat
    /\ {cur, done, error} \subseteq [Jobs -> File]

\* A request has not begun, or is about files of its past; only a queued entry
\* is looked at in steps.
Shaped ==
    /\ Begun => req.now <= clock
    /\ ~Begun => req.queued = {} /\ req.stat = "none"
    /\ req.stat # "none" => req.pass = "new" /\ req.pc = "walk"
    /\ req.pc \in {"rows", "answer"} => req.pass = "error"
    /\ IsFiniteSet(req.found)

ReaderType == MovesType /\ ListingTypeOK /\ Shaped

(* JobSeen. *)
Fresh(f) == InWindow(f)
Marked(j) == \E d \in Dirs : Fresh(Marker(d, j))

\* A claim that was written since the request began.
Recent(j) == cur[j].there => cur[j].mtime >= req.now

\* Where the rest of the walk meets a job that has no row yet.
Ahead(j) ==
    CASE req.pass = "new" ->
            req.pc = "walk" /\ Idle(j) =>
                j \in req.left \/ (req.stat # "none" /\ req.job = j)
      [] req.pass = "cur" ->
            /\ ~Idle(j)
            /\ req.pc = "walk" /\ cur[j].there /\ j \notin req.left =>
                 Marked(j) /\ Recent(j)
      [] req.pass = "done" ->
            /\ Recent(j)
            /\ IF req.pc = "walk"
               THEN Fresh(error[j]) \/ (j \in req.left /\ Fresh(done[j]))
               ELSE Marked(j)
      [] req.pass = "error" ->
            /\ Recent(j) /\ Fresh(error[j])
            /\ req.pc \in {"open", "walk"}
            /\ req.pc = "walk" => j \in req.left

Rowed(j) == j \in req.queued \cup req.inFlight \cup CompletedJobs

SeenInv ==
    Begun =>
        \A j \in held :
            /\ Showable(j)
            /\ ~req.cut /\ j \notin excused /\ ~Rowed(j) => Ahead(j)

(* QueuedWaits: a marker that was there at an earlier stat is there for a later
   one, or has gone since. *)
WaitInv ==
    Begun /\ req.pass = "new" =>
        /\ \A j \in Jobs : Idle(j) => j \in idle
        /\ req.queued \subseteq idle \cup excused
        /\ req.stat = "done" => req.job \in idle \cup excused \/ Archived(req.job)
        /\ req.stat = "error" =>
             req.job \in idle \cup excused \/ error[req.job].there

(* OrphanUnclaimed: a VM of the snapshot has its claim all the time, so the walk
   through cur/ meets it. *)
VmInv ==
    \A j \in req.snap \ loose :
        /\ cur[j].there
        /\ req.pass = "cur" /\ req.pc = "walk" /\ ~req.cut =>
             j \in req.left \cup req.inFlight \cup excused
        /\ Begun /\ req.pass \in Dirs /\ ~req.cut => j \in req.inFlight \cup excused

\* What a move does to the files of a job.
LEMMA Motion ==
    ASSUME MovesType, MovesNext, NEW j \in Jobs
    PROVE  /\ cur'[j] = cur[j] \/ ~cur'[j].there
                \/ (~cur[j].there /\ cur'[j] = At(clock))
           /\ \A d \in Dirs :
                LET m == Marker(d, j)
                IN  \/ m' = m \/ ~m'.there \/ ~m.there \/ m' = At(clock)
                    \/ cur[j].there /\ m' = cur[j]
  <1> USE DEF MovesType
  <1>0. Absent.there = FALSE /\ Absent \in File
    BY DEF Absent, File
  <1>1. CASE Tick \/ \E k \in Jobs : Deliver(k) \/ Withdraw(k)
    BY <1>1 DEF Tick, Deliver, Withdraw, Marker
  <1>2. CASE \E k \in Jobs : Claim(k) \/ Mint(k)
    BY <1>2 DEF Claim, Mint, Marker
  <1>3. CASE \E k \in Jobs : Revert(k)
    BY <1>0, <1>3 DEF Revert, Marker
  <1>4. ASSUME NEW k \in Jobs, NEW d \in Dirs, Archive(d, k)
        PROVE  /\ cur'[j] = cur[j] \/ ~cur'[j].there
               /\ \A e \in Dirs :
                    LET m == Marker(e, j)
                    IN m' = m \/ (cur[j].there /\ m' = cur[j])
    BY <1>0, <1>4 DEF Archive, Marker, SetMarker, Dirs
  <1>5. ASSUME NEW k \in Jobs, NEW d \in Dirs,
               Aside(d, k) \/ Stamp(d, k) \/ Prune(d, k)
                 \/ \E t \in 0..clock : PutBack(d, k, t)
        PROVE  /\ cur' = cur
               /\ \A e \in Dirs :
                    LET m == Marker(e, j)
                    IN m' = m \/ ~m'.there \/ ~m.there \/ m' = At(clock)
    <2>1. cur' = cur
      BY <1>5 DEF Aside, Stamp, Prune, PutBack
    <2>2. CASE Aside(d, k) \/ Prune(d, k)
      BY <1>0, <2>1, <2>2 DEF Aside, Prune, Marker, SetMarker, Dirs
    <2>3. CASE Stamp(d, k)
      BY <2>1, <2>3 DEF Stamp, Marker, SetMarker, Dirs
    <2>4. CASE \E t \in 0..clock : PutBack(d, k, t)
      BY <2>1, <2>4 DEF PutBack, Marker, SetMarker, Dirs
    <2> QED
      BY <1>5, <2>1, <2>2, <2>3, <2>4
  <1> QED
    BY <1>1, <1>2, <1>3, <1>4, <1>5 DEF MovesNext

LEMMA MovesStep ==
    ASSUME MovesType, MovesNext
    PROVE  MovesType' /\ clock <= clock'
  <1> USE DEF MovesType
  <1>0. /\ Absent \in File
        /\ \A t \in Nat : At(t) \in File
    BY DEF Absent, File, At
  <1>1. CASE Tick \/ \E k \in Jobs : Deliver(k) \/ Withdraw(k)
    BY <1>1 DEF Tick, Deliver, Withdraw
  <1>2. CASE \E k \in Jobs : Claim(k) \/ Mint(k) \/ Revert(k)
    BY <1>0, <1>2 DEF Claim, Mint, Revert
  <1>3. ASSUME NEW k \in Jobs, NEW d \in Dirs,
               \/ Archive(d, k) \/ Aside(d, k) \/ Stamp(d, k)
               \/ Prune(d, k) \/ \E t \in 0..clock : PutBack(d, k, t)
        PROVE  MovesType' /\ clock' = clock
    <2>1. new' = new /\ clock' = clock
      BY <1>3 DEF Archive, Aside, Stamp, Prune, PutBack
    <2>2. cur' \in [Jobs -> File]
      BY <1>0, <1>3 DEF Archive, Aside, Stamp, Prune, PutBack
    <2>3. \E f \in File : SetMarker(d, k, f)
      BY <1>0, <1>3 DEF Archive, Aside, Stamp, Prune, PutBack
    <2>4. done' \in [Jobs -> File] /\ error' \in [Jobs -> File]
      BY <2>3 DEF SetMarker
    <2> QED
      BY <2>1, <2>2, <2>4
  <1> QED
    BY <1>1, <1>2, <1>3 DEF MovesNext

LEMMA ReaderInit == ListingInit => ReaderType
  <1> SUFFICES ASSUME ListingInit PROVE ReaderType
    OBVIOUS
  <1>1. PICK j \in Jobs : req = NoRequest(j)
    BY DEF ListingInit
  <1>2. MovesType
    BY DEF ListingInit, MovesInit, MovesType, Absent, File
  <1>3. req \in Request
    BY <1>1, ListingAssumption
       DEF ListingAssumption, Request, NoRequest, PassOf, Stats, Rows
  <1>4. Shaped
    BY <1>1, FS_EmptySet DEF Shaped, Begun, NoRequest
  <1> QED
    BY <1>2, <1>3, <1>4 DEF ReaderType, ListingTypeOK, ListingInit

\* The spool's steps leave the request alone.
LEMMA SpoolReader ==
    ASSUME ReaderType, SpoolStep
    PROVE  ReaderType' /\ clock <= clock' /\ req' = req
  <1>1. req' = req /\ MovesNext
    BY DEF SpoolStep
  <1>2. MovesType' /\ clock <= clock' /\ clock \in Nat /\ clock' \in Nat
    BY <1>1, MovesStep DEF ReaderType, MovesType
  <1>3. req.now \in Nat
    BY DEF ReaderType, ListingTypeOK, Request
  <1>4. Shaped'
    BY <1>1, <1>2, <1>3 DEF ReaderType, Shaped, Begun
  <1>5. {held, idle, excused, loose}' \subseteq SUBSET Jobs
    BY DEF SpoolStep, Watched, ReaderType, ListingTypeOK, Request
  <1> QED
    BY <1>1, <1>2, <1>4, <1>5 DEF ReaderType, ListingTypeOK

\* The fields of a request, one by one.
LEMMA Fields ==
    ASSUME ListingTypeOK
    PROVE  /\ req = [pc |-> req.pc, pass |-> req.pass, now |-> req.now, snap |-> req.snap,
                     left |-> req.left, others |-> req.others, examined |-> req.examined,
                     job |-> req.job, stat |-> req.stat, queued |-> req.queued,
                     inFlight |-> req.inFlight, found |-> req.found, cut |-> req.cut]
           /\ req.pc \in {"idle", "polled", "open", "walk", "rows", "answer"}
           /\ req.pass \in PassOf /\ req.now \in Nat /\ req.snap \subseteq Jobs
           /\ req.left \subseteq Jobs /\ req.others \in 0..MaxOthers
           /\ req.examined \in 0..ActiveCap + ScanCap /\ req.job \in Jobs
           /\ req.stat \in Stats /\ req.queued \subseteq Jobs
           /\ req.inFlight \subseteq Jobs /\ req.found \subseteq Rows
           /\ req.cut \in BOOLEAN
  BY DEF ListingTypeOK, Request

\* A new request that has its type and shape is all that a step of the reader
\* has to show: the files stay, and so do the ghosts within Jobs.
LEMMA ReaderTyped ==
    ASSUME ReaderType, UNCHANGED moves, req' \in Request, Shaped',
           {held, idle, excused, loose}' \subseteq SUBSET Jobs
    PROVE  ReaderType'
  BY DEF ReaderType, MovesType, ListingTypeOK, moves

LEMMA GoesTyped ==
    ASSUME ReaderType, NEW r \in Request, NEW J, J \subseteq Jobs,
           Goes(r) \/ Fails(J, r),
           Begun,
           r.pc \notin {"idle", "polled"}, r.now = req.now,
           r.stat # "none" => r.pass = "new" /\ r.pc = "walk",
           r.pc \in {"rows", "answer"} => r.pass = "error",
           IsFiniteSet(r.found)
    PROVE  ReaderType'
  <1>1. req' = r /\ UNCHANGED moves
    BY DEF Goes, Fails
  <1>2. {held, idle, excused, loose}' \subseteq SUBSET Jobs
    BY DEF Goes, Fails, ghosts, ReaderType, ListingTypeOK
  <1>3. Shaped'
    BY <1>1 DEF ReaderType, Shaped, Begun, moves
  <1> QED
    BY <1>1, <1>2, <1>3, ReaderTyped

LEMMA ListReader ==
    ASSUME ReaderType, ListStep
    PROVE  ReaderType' /\ UNCHANGED moves
  <1>0. /\ ListingTypeOK /\ IsFiniteSet(req.found)
        /\ (Begun => req.now <= clock) /\ clock \in Nat
        /\ (~Begun => req.queued = {} /\ req.stat = "none")
        /\ (req.stat # "none" => req.pass = "new" /\ req.pc = "walk")
        /\ (req.pc = "rows" => req.pass = "error")
    BY DEF ReaderType, Shaped, MovesType
  <1>f. /\ req.pc \in {"idle", "polled", "open", "walk", "rows", "answer"}
        /\ req.pass \in PassOf /\ req.now \in Nat /\ req.snap \subseteq Jobs
        /\ req.left \subseteq Jobs /\ req.others \in 0..MaxOthers
        /\ req.examined \in 0..ActiveCap + ScanCap /\ req.job \in Jobs
        /\ req.stat \in Stats /\ req.queued \subseteq Jobs
        /\ req.inFlight \subseteq Jobs /\ req.found \subseteq Rows
        /\ req.cut \in BOOLEAN /\ req \in Request
    BY <1>0, Fields DEF ListingTypeOK
  <1>c. /\ ActiveCap \in Nat /\ ScanCap \in Nat /\ RowCap \in Nat /\ MaxOthers \in Nat
        /\ 0 \in 0..MaxOthers /\ 0 \in 0..ActiveCap + ScanCap
        /\ \A p \in PassOf : Cap(p) \in Nat /\ Cap(p) <= ActiveCap + ScanCap
    BY ListingAssumption DEF ListingAssumption, Cap
  <1>m. UNCHANGED moves
    BY DEF ListStep, Poll, JobsBegin, OpenDir, Skip, ClaimedStat,
       WalkEnds, Truncate, JobsEnd, QueuedRead, InFlightRead,
       WindowEntry, Goes, Fails
  <1>1. CASE Poll
    <2>1. PICK S \in SUBSET Jobs :
            /\ req' = [req EXCEPT !.pc = "polled", !.snap = S]
            /\ loose' = {j \in S : ~cur[j].there}
      BY <1>1 DEF Poll
    <2>2. req' \in Request
      BY <1>f, <2>1 DEF Request
    <2>3. ~Begun /\ UNCHANGED <<held, idle, excused>>
      BY <1>1 DEF Poll, Begun
    <2>4. /\ req'.pc = "polled" /\ req'.stat = req.stat /\ req'.queued = req.queued
          /\ req'.found = req.found
      BY <1>f, <2>1 DEF Request
    <2>5. Shaped'
      BY <1>0, <2>3, <2>4 DEF Shaped, Begun
    <2> QED
      BY <1>m, <2>1, <2>2, <2>3, <2>5, ReaderTyped DEF ReaderType, ListingTypeOK
  <1>2. CASE JobsBegin
    <2>1. req' = [req EXCEPT !.pc = "open", !.pass = "new", !.now = clock] /\ ~Begun
      BY <1>2 DEF JobsBegin
    <2>2. req' \in Request
      BY <1>0, <1>f, <2>1 DEF Request, PassOf
    <2>3. {held, idle, excused, loose}' \subseteq SUBSET Jobs
      BY <1>2 DEF JobsBegin, ReaderType, ListingTypeOK
    <2>4. /\ req'.pc = "open" /\ req'.stat = "none" /\ req'.now = clock
          /\ req'.found = req.found
      BY <1>0, <1>f, <2>1 DEF Request
    <2>5. Shaped'
      BY <1>0, <1>m, <2>4 DEF Shaped, Begun, moves
    <2> QED
      BY <1>m, <2>2, <2>3, <2>5, ReaderTyped
  <1>3. CASE JobsEnd
    <2>1. /\ req' = NoRequest(req.job) /\ UNCHANGED moves
          /\ {held, idle, excused, loose}' = {{}}
      BY <1>3 DEF JobsEnd
    <2>2. req' \in Request
      BY <1>c, <1>f, <2>1 DEF NoRequest, Request, PassOf, Stats
    <2>3. Shaped'
      BY <2>1, FS_EmptySet DEF Shaped, Begun, NoRequest
    <2> QED
      BY <1>m, <2>1, <2>2, <2>3, ReaderTyped
  <1>4. CASE OpenDir
    <2>1. PICK n \in 0..MaxOthers :
            LET r == [req EXCEPT !.pc = "walk",
                              !.examined = IF req.pass = "error" THEN @ ELSE 0]
            IN \/ Goes([r EXCEPT !.left = Names(req.pass), !.others = n])
               \/ Fails(Jobs, r)
      BY <1>4 DEF OpenDir
    <2>2. Names(req.pass) \subseteq Jobs
      BY <1>f DEF Names, ReaderType, MovesType
    <2>3. PICK e \in 0..ActiveCap + ScanCap : e = IF req.pass = "error" THEN req.examined ELSE 0
      BY <1>c, <1>f
    <2>4. PICK r : r = [req EXCEPT !.pc = "walk", !.examined = e]
      OBVIOUS
    <2>5. PICK q : q = [r EXCEPT !.left = Names(req.pass), !.others = n]
      OBVIOUS
    <2>6. Goes(q) \/ Fails(Jobs, r)
      BY <2>1, <2>3, <2>4, <2>5
    <2>7. /\ r \in Request /\ r.pc = "walk" /\ r.now = req.now /\ r.stat = req.stat
          /\ r.found = req.found /\ r.pass = req.pass
      BY <1>f, <2>4 DEF Request
    <2>8. /\ q \in Request /\ q.pc = "walk" /\ q.now = req.now /\ q.stat = req.stat
          /\ q.found = req.found /\ q.pass = req.pass
      BY <1>f, <2>2, <2>5, <2>7 DEF Request
    <2>9. Begun
      BY <1>4 DEF OpenDir, Begun
    <2> QED
      BY <1>0, <1>m, <2>6, <2>7, <2>8, <2>9, GoesTyped
  <1>e. ASSUME MayExamine, NEW j \in Jobs
        PROVE  /\ Examine(j) \in Request /\ Examine(j).pc = "walk"
               /\ Examine(j).now = req.now /\ Examine(j).stat = "none"
               /\ Examine(j).found = req.found /\ Examine(j).pass = req.pass
               /\ Begun
    <2>1. /\ req.pc = "walk" /\ req.stat = "none" /\ req.examined < Cap(req.pass)
          /\ Begun
      BY <1>e DEF MayExamine, Begun
    <2>2. req.examined + 1 \in 0..ActiveCap + ScanCap
      BY <1>c, <1>f, <2>1
    <2> QED
      BY <1>f, <2>1, <2>2 DEF Examine, Request
  <1>5. CASE Skip
    <2>1. /\ req.pc = "walk" /\ req.stat = "none" /\ req.examined < Cap(req.pass)
          /\ Begun /\ MayExamine
      BY <1>5 DEF Skip, MayExamine, Begun
    <2>2. CASE req.others > 0 /\ Goes([req EXCEPT !.others = @ - 1, !.examined = @ + 1])
      <3>1. req.others - 1 \in 0..MaxOthers /\ req.examined + 1 \in 0..ActiveCap + ScanCap
        BY <1>c, <1>f, <2>1, <2>2
      <3>2. PICK r : r = [req EXCEPT !.others = @ - 1, !.examined = @ + 1]
        OBVIOUS
      <3>3. /\ r \in Request /\ r.pc = "walk" /\ r.now = req.now /\ r.stat = "none"
            /\ r.found = req.found
        BY <1>f, <2>1, <3>1, <3>2 DEF Request
      <3> QED
        BY <1>0, <1>m, <2>1, <2>2, <3>2, <3>3, GoesTyped
    <2>3. CASE \E j \in req.left : Fails({j}, Examine(j))
      BY <1>0, <1>e, <1>f, <1>m, <2>1, <2>3, GoesTyped
    <2>4. CASE Fails(Jobs, [req EXCEPT !.left = {}, !.others = 0])
      <3>2. PICK r : r = [req EXCEPT !.left = {}, !.others = 0]
        OBVIOUS
      <3>3. /\ r \in Request /\ r.pc = "walk" /\ r.now = req.now /\ r.stat = "none"
            /\ r.found = req.found
        BY <1>c, <1>f, <2>1, <3>2 DEF Request
      <3> QED
        BY <1>0, <1>m, <2>1, <2>4, <3>2, <3>3, GoesTyped
    <2> QED
      BY <1>5, <2>2, <2>3, <2>4 DEF Skip
  <1>6. CASE \E j \in Jobs : QueuedRead(j)
    <2>1. PICK j \in Jobs : QueuedRead(j)
      BY <1>6
    <2>2. MayExamine /\ req.pass = "new"
      BY <2>1 DEF QueuedRead
    <2>3. PICK x : x = Examine(j)
      OBVIOUS
    <2>4. PICK r : r = [x EXCEPT !.job = j, !.stat = "cur"]
      OBVIOUS
    <2>5. /\ x \in Request /\ x.pc = "walk" /\ x.now = req.now /\ x.stat = "none"
          /\ x.found = req.found /\ x.pass = "new" /\ Begun
      BY <1>e, <2>2, <2>3
    <2>6. /\ r \in Request /\ r.pc = "walk" /\ r.now = req.now /\ r.stat = "cur"
          /\ r.found = req.found /\ r.pass = "new"
      BY <2>4, <2>5 DEF Request, Stats
    <2>7. Goes(r) \/ Goes(x)
      BY <2>1, <2>3, <2>4 DEF QueuedRead
    <2> QED
      BY <1>0, <1>m, <2>5, <2>6, <2>7, GoesTyped
  <1>7. CASE ClaimedStat
    <2>1. req.stat # "none" /\ req.pc = "walk" /\ req.pass = "new" /\ Begun
      BY <1>0, <1>7 DEF ClaimedStat, Begun
    <2>2. PICK r1 : r1 = [req EXCEPT !.stat = "none"]
      OBVIOUS
    <2>3. PICK r2 : r2 = [req EXCEPT !.stat = "done"]
      OBVIOUS
    <2>4. PICK r3 : r3 = [req EXCEPT !.stat = "error"]
      OBVIOUS
    <2>5. PICK r4 : r4 = [req EXCEPT !.stat = "none", !.queued = @ \cup {req.job}]
      OBVIOUS
    <2>6. ASSUME NEW r \in {r1, r2, r3, r4}
          PROVE  /\ r \in Request /\ r.pc = "walk" /\ r.now = req.now
                 /\ r.found = req.found /\ r.pass = "new"
      <3>1. CASE r = r1
        BY <1>f, <2>1, <2>2, <3>1 DEF Request, Stats
      <3>2. CASE r = r2
        BY <1>f, <2>1, <2>3, <3>2 DEF Request, Stats
      <3>3. CASE r = r3
        BY <1>f, <2>1, <2>4, <3>3 DEF Request, Stats
      <3>4. CASE r = r4
        BY <1>f, <2>1, <2>5, <3>4 DEF Request, Stats
      <3> QED
        BY <2>6, <3>1, <3>2, <3>3, <3>4
    <2>7. PICK next \in {r2, r3, r4} :
            next = CASE req.stat = "cur" -> r2 [] req.stat = "done" -> r3 [] OTHER -> r4
      OBVIOUS
    <2>8. Goes(r1) \/ Goes(next) \/ Fails({req.job}, next)
      BY <1>7, <2>2, <2>3, <2>4, <2>5, <2>7 DEF ClaimedStat
    <2>9. ASSUME NEW r \in {r1, r2, r3, r4}, Goes(r) \/ Fails({req.job}, r)
          PROVE  ReaderType'
      BY <1>0, <1>f, <2>1, <2>6, <2>9, GoesTyped
    <2> QED
      BY <1>m, <2>7, <2>8, <2>9
  <1>8. CASE \E j \in Jobs : InFlightRead(j)
    <2>1. PICK j \in Jobs : InFlightRead(j)
      BY <1>8
    <2>2. MayExamine
      BY <2>1 DEF InFlightRead
    <2>3. PICK x : x = Examine(j)
      OBVIOUS
    <2>4. PICK r : r = [x EXCEPT !.inFlight = @ \cup {j}]
      OBVIOUS
    <2>5. /\ x \in Request /\ x.pc = "walk" /\ x.now = req.now /\ x.stat = "none"
          /\ x.found = req.found /\ Begun
      BY <1>e, <2>2, <2>3
    <2>6. /\ r \in Request /\ r.pc = "walk" /\ r.now = req.now /\ r.stat = "none"
          /\ r.found = req.found
      BY <2>4, <2>5 DEF Request
    <2>7. Goes(r) \/ Goes(x)
      BY <2>1, <2>3, <2>4 DEF InFlightRead
    <2> QED
      BY <1>0, <1>m, <2>5, <2>6, <2>7, GoesTyped
  <1>9. CASE \E j \in Jobs : WindowEntry(j)
    <2>1. PICK j \in Jobs : WindowEntry(j)
      BY <1>9
    <2>2. MayExamine /\ req.pass \in Dirs
      BY <2>1 DEF WindowEntry
    <2>3. PICK x : x = Examine(j)
      OBVIOUS
    <2>4. PICK row : row = [job |-> j, dir |-> req.pass, mtime |-> Marker(req.pass, j).mtime]
      OBVIOUS
    <2>5. PICK r : r = [x EXCEPT !.found = @ \cup {row}]
      OBVIOUS
    <2>6. row \in Rows
      <3>1. Marker(req.pass, j) \in File
        BY DEF Marker, ReaderType, MovesType
      <3> QED
        BY <2>2, <2>4, <3>1 DEF File, Rows
    <2>7. /\ x \in Request /\ x.pc = "walk" /\ x.now = req.now /\ x.stat = "none"
          /\ x.found = req.found /\ Begun
      BY <1>e, <2>2, <2>3
    <2>8. /\ r \in Request /\ r.pc = "walk" /\ r.now = req.now /\ r.stat = "none"
          /\ r.found = req.found \cup {row}
      BY <2>5, <2>6, <2>7 DEF Request
    <2>9. Goes(r) \/ Goes(x)
      BY <2>1, <2>3, <2>4, <2>5 DEF WindowEntry
    <2>10. IsFiniteSet(req.found \cup {row})
      BY <1>0, FS_AddElement
    <2> QED
      BY <1>0, <1>m, <2>7, <2>8, <2>9, <2>10, GoesTyped
  <1>10. CASE WalkEnds
    <2>1. req.pc = "walk" /\ req.stat = "none" /\ Begun
      BY <1>10 DEF WalkEnds, Begun
    <2>2. PICK c \in BOOLEAN : c = (req.cut \/ req.examined >= Cap(req.pass))
      OBVIOUS
    <2>3. PICK r : r = [req EXCEPT !.left = {}, !.others = 0, !.cut = c]
      OBVIOUS
    <2>4. PICK p : p = NextPass(req.pass)
      OBVIOUS
    <2>5. (p = "end" /\ req.pass = "error") \/ p \in PassOf
      BY <1>f, <2>4 DEF NextPass, PassOf
    <2>p. "end" \notin PassOf
      BY DEF PassOf
    <2>6. Goes(IF p = "end" THEN [r EXCEPT !.pc = "rows", !.examined = 0]
                   ELSE [r EXCEPT !.pc = "open", !.pass = p])
      BY <1>10, <2>2, <2>3, <2>4 DEF WalkEnds
    <2>7. /\ r \in Request /\ r.now = req.now /\ r.stat = "none" /\ r.found = req.found
          /\ r.pass = req.pass
      BY <1>c, <1>f, <2>1, <2>3 DEF Request
    <2>8. PICK q : q = IF p = "end" THEN [r EXCEPT !.pc = "rows", !.examined = 0]
                   ELSE [r EXCEPT !.pc = "open", !.pass = p]
      OBVIOUS
    <2>9. /\ q \in Request /\ q.now = req.now /\ q.stat = "none" /\ q.found = req.found
          /\ q.pc \in {"rows", "open"} /\ (q.pc = "rows" => q.pass = "error")
      <3>1. CASE p = "end"
        BY <1>c, <2>5, <2>7, <2>8, <2>p, <3>1 DEF Request
      <3>2. CASE p # "end"
        BY <2>5, <2>7, <2>8, <3>2 DEF Request
      <3> QED
        BY <3>1, <3>2
    <2>10. Goes(q)
      BY <2>6, <2>8
    <2> QED
      BY <1>0, <1>m, <2>1, <2>9, <2>10, GoesTyped
  <1>11. CASE Truncate
    <2>1. PICK S \in SUBSET req.found :
            Goes([req EXCEPT !.pc = "answer", !.found = S,
                                 !.cut = @ \/ Cardinality(req.found) > RowCap])
      BY <1>11 DEF Truncate
    <2>2. PICK c \in BOOLEAN : c = (req.cut \/ Cardinality(req.found) > RowCap)
      OBVIOUS
    <2>3. PICK r : r = [req EXCEPT !.pc = "answer", !.found = S, !.cut = c]
      OBVIOUS
    <2>4. Goes(r)
      BY <2>1, <2>2, <2>3
    <2>5. /\ r \in Request /\ r.pc = "answer" /\ r.now = req.now /\ r.stat = req.stat
          /\ r.found = S /\ r.pass = req.pass
      BY <1>f, <2>3 DEF Request
    <2>6. req.pc = "rows" /\ req.stat = "none" /\ Begun
      BY <1>0, <1>11 DEF Truncate, Begun
    <2>7. IsFiniteSet(S)
      BY <1>0, FS_Subset
    <2> QED
      BY <1>0, <1>m, <2>4, <2>5, <2>6, <2>7, GoesTyped
  <1> QED
    BY <1>m, <1>1, <1>2, <1>3, <1>4, <1>5, <1>6, <1>7, <1>8, <1>9, <1>10, <1>11
       DEF ListStep

\* What the ghosts say of a job while a request is under way.
LEMMA Ghosts ==
    ASSUME ReaderType, SpoolStep, Begun, NEW j \in Jobs
    PROVE  /\ j \in excused => j \in excused'
           /\ j \notin excused' =>
                /\ done[j].there => done'[j].there
                /\ error[j].there => error'[j].there
                /\ cur[j].there => ~Idle(j)'
           /\ j \in held' => j \in held /\ Showable(j)'
           /\ req.pass = "new" => /\ j \in idle => j \in idle'
                                  /\ Idle(j)' => j \in idle'
  <1>1. Watched
    BY DEF SpoolStep
  <1>2. excused' = excused \cup {k \in Jobs :
                      \/ cur[k].there /\ Idle(k)'
                      \/ \E d \in Dirs : Marker(d, k).there /\ ~Marker(d, k).there'}
    BY <1>1 DEF Watched
  <1>3. /\ Marker("done", j) = done[j] /\ Marker("done", j)' = done'[j]
        /\ Marker("error", j) = error[j] /\ Marker("error", j)' = error'[j]
        /\ {"done", "error"} = Dirs
    BY DEF Marker, Dirs
  <1>4. j \notin excused' =>
          /\ done[j].there => done'[j].there
          /\ error[j].there => error'[j].there
          /\ cur[j].there => ~Idle(j)'
    BY <1>2, <1>3
  <1>5. j \in held' => j \in held /\ Showable(j)'
    BY <1>1 DEF Watched
  <1>6. req.pass = "new" => idle' = idle \cup {k \in Jobs : Idle(k)'}
    BY <1>1 DEF Watched
  <1> QED
    BY <1>2, <1>4, <1>5, <1>6

\* Where a job's files are, after a move that leaves it unexcused.
LEMMA Follow ==
    ASSUME ReaderType, SpoolStep, Begun,
           NEW j \in Jobs, j \notin excused'
    PROVE  /\ Idle(j)' => Idle(j)
           /\ Recent(j) => Recent(j)'
           /\ Recent(j) /\ Fresh(done[j]) => Fresh(done[j])'
           /\ Recent(j) /\ Fresh(error[j]) => Fresh(error[j])'
           /\ cur'[j].there => cur[j] = cur'[j] \/ ~cur[j].there
  <1>0. /\ req' = req /\ req.now \in Nat /\ clock \in Nat /\ req.now <= clock /\ Window \in Nat
        /\ cur[j] \in File /\ done[j] \in File /\ error[j] \in File
        /\ cur'[j] \in File /\ done'[j] \in File /\ error'[j] \in File
    BY SpoolReader, ListingAssumption
       DEF ReaderType, Shaped, MovesType, ListingTypeOK, Request, ListingAssumption
  <1>1. At(clock).there /\ At(clock).mtime = clock
    BY DEF At
  <1>2. /\ done[j].there => done'[j].there
        /\ error[j].there => error'[j].there
        /\ cur[j].there => ~Idle(j)'
    BY Ghosts
  <1>3. cur'[j] = cur[j] \/ ~cur'[j].there
            \/ (~cur[j].there /\ cur'[j] = At(clock))
    BY Motion DEF SpoolStep, ReaderType
  <1>4. \A d \in Dirs :
          LET m == Marker(d, j)
          IN  \/ m' = m \/ ~m'.there \/ ~m.there \/ m' = At(clock)
              \/ cur[j].there /\ m' = cur[j]
    BY Motion DEF SpoolStep, ReaderType
  <1>5. /\ \/ done'[j] = done[j] \/ ~done'[j].there \/ ~done[j].there
           \/ done'[j] = At(clock) \/ (cur[j].there /\ done'[j] = cur[j])
        /\ \/ error'[j] = error[j] \/ ~error'[j].there \/ ~error[j].there
           \/ error'[j] = At(clock) \/ (cur[j].there /\ error'[j] = cur[j])
    <2>1. /\ Marker("done", j) = done[j] /\ Marker("done", j)' = done'[j]
          /\ Marker("error", j) = error[j] /\ Marker("error", j)' = error'[j]
          /\ "done" \in Dirs /\ "error" \in Dirs
      BY DEF Marker, Dirs
    <2> QED
      BY <1>4, <2>1
  <1>6. Idle(j)' => Idle(j)
    BY <1>2 DEF Idle, Archived
  <1>7. Recent(j) => Recent(j)'
    BY <1>0, <1>1, <1>3 DEF Recent
  <1>m. /\ cur[j].mtime \in Nat /\ done[j].mtime \in Nat /\ error[j].mtime \in Nat
    BY <1>0 DEF File
  <1>8. Recent(j) /\ Fresh(done[j]) => Fresh(done[j])'
    BY <1>0, <1>1, <1>2, <1>5, <1>m DEF Recent, Fresh, InWindow
  <1>9. Recent(j) /\ Fresh(error[j]) => Fresh(error[j])'
    BY <1>0, <1>1, <1>2, <1>5, <1>m DEF Recent, Fresh, InWindow
  <1> QED
    BY <1>3, <1>6, <1>7, <1>8, <1>9

LEMMA MarkedIs ==
    ASSUME NEW j
    PROVE  /\ Marked(j) <=> Fresh(done[j]) \/ Fresh(error[j])
           /\ Marked(j)' <=> Fresh(done[j])' \/ Fresh(error[j])'
           /\ Showable(j) <=>
                (j \in new /\ Idle(j)) \/ cur[j].there \/ Marked(j)
  BY DEF Marked, Fresh, Marker, Dirs, Showable

\* A job stays ahead of the walk, or has moved on to where the walk goes next.
LEMMA SpoolSeen ==
    ASSUME ReaderType, SeenInv, SpoolStep
    PROVE  SeenInv'
  <1>1. req' = req
    BY SpoolReader
  <1> SUFFICES ASSUME Begun, NEW j \in held'
               PROVE  /\ Showable(j)'
                      /\ (~req.cut /\ j \notin excused /\ ~Rowed(j) => Ahead(j))'
    BY <1>1 DEF SeenInv, Begun
  <1>2. j \in Jobs
    BY SpoolReader DEF ReaderType, ListingTypeOK
  <1>3. j \in held /\ Showable(j)' /\ (j \in excused => j \in excused')
    BY <1>2, Ghosts
  <1> SUFFICES ASSUME ~req.cut, j \notin excused', ~Rowed(j) PROVE Ahead(j)'
    BY <1>1, <1>3 DEF Rowed, CompletedJobs
  <1>4. Showable(j) /\ Ahead(j) /\ req.pass \in PassOf
    BY <1>3, Fields DEF SeenInv, ReaderType
  <1>5. /\ Idle(j)' => Idle(j)
        /\ Recent(j) => Recent(j)'
        /\ Recent(j) /\ Fresh(done[j]) => Fresh(done[j])'
        /\ Recent(j) /\ Fresh(error[j]) => Fresh(error[j])'
        /\ cur'[j].there => cur[j] = cur'[j] \/ ~cur[j].there
    BY <1>2, Follow
  <1>6. CASE req.pass = "new"
    BY <1>1, <1>4, <1>5, <1>6 DEF Ahead
  <1>7. CASE req.pass = "cur"
    <2>1. ~Idle(j)'
      BY <1>4, <1>5, <1>7 DEF Ahead
    <2>2. ASSUME req.pc = "walk", cur'[j].there, j \notin req.left
          PROVE  Marked(j)' /\ Recent(j)'
      <3>1. CASE cur[j].there
        BY <1>4, <1>5, <1>7, <2>2, <3>1, MarkedIs DEF Ahead
      <3>2. CASE ~cur[j].there
        <4>1. Marked(j) /\ Recent(j)
          BY <1>4, <1>7, <3>2, MarkedIs DEF Ahead, Recent
        <4> QED
          BY <1>5, <4>1, MarkedIs
      <3> QED
        BY <3>1, <3>2
    <2> QED
      BY <1>1, <1>7, <2>1, <2>2 DEF Ahead
  <1>8. CASE req.pass = "done"
    BY <1>1, <1>4, <1>5, <1>8, MarkedIs DEF Ahead
  <1>9. CASE req.pass = "error"
    BY <1>1, <1>4, <1>5, <1>9 DEF Ahead
  <1> QED
    BY <1>4, <1>6, <1>7, <1>8, <1>9 DEF PassOf

LEMMA SpoolWaits ==
    ASSUME ReaderType, WaitInv, SpoolStep
    PROVE  WaitInv'
  <1>1. req' = req
    BY SpoolReader
  <1> SUFFICES ASSUME Begun, req.pass = "new"
               PROVE  WaitInv'
    BY <1>1 DEF WaitInv, Begun
  <1>2. req.job \in Jobs /\ req.queued \subseteq Jobs
    BY Fields DEF ReaderType
  <1>3. PICK k \in Jobs : k = req.job
    BY <1>2
  <1>4. /\ \A j \in Jobs : j \in idle \cup excused => j \in idle' \cup excused'
        /\ \A j \in Jobs : Idle(j)' => j \in idle'
    BY Ghosts
  <1>5. req.stat = "done" => k \in idle' \cup excused' \/ Archived(k)'
    BY <1>3, <1>4, Ghosts DEF WaitInv, Archived
  <1>6. req.stat = "error" => k \in idle' \cup excused' \/ error'[k].there
    BY <1>3, <1>4, Ghosts DEF WaitInv
  <1>7. req.queued \subseteq idle' \cup excused'
    BY <1>2, <1>4 DEF WaitInv
  <1> QED
    BY <1>1, <1>3, <1>4, <1>5, <1>6, <1>7 DEF WaitInv, Archived

LEMMA SpoolVms ==
    ASSUME ReaderType, VmInv, SpoolStep
    PROVE  VmInv'
  <1>1. req' = req /\ loose' = loose \cup {j \in req.snap : ~cur'[j].there}
    BY SpoolReader DEF SpoolStep, Watched
  <1>2. Begun => excused \subseteq excused'
    BY DEF SpoolStep, Watched
  <1>3. req.pc = "walk" => Begun
    BY DEF Begun
  <1> QED
    BY <1>1, <1>2, <1>3 DEF VmInv, Begun

\* A step of a request that is under way leaves the files and the ghosts, but for
\* what it excuses: what was known of a job's files still is.
LEMMA Still ==
    ASSUME ReaderType, UNCHANGED moves, req'.now = req.now, NEW j
    PROVE  /\ Idle(j)' <=> Idle(j)
           /\ Showable(j)' <=> Showable(j)
           /\ Fresh(done[j])' <=> Fresh(done[j])
           /\ Fresh(error[j])' <=> Fresh(error[j])
           /\ Marked(j)' <=> Marked(j)
           /\ Recent(j)' <=> Recent(j)
  BY DEF moves, Idle, Archived, Showable, InWindow, Marker,
     Fresh, Marked, Recent

\* It is enough to follow the jobs that have no row and no excuse.
LEMMA ListSeen ==
    ASSUME ReaderType, SeenInv, Begun, UNCHANGED <<moves, held>>,
           req'.now = req.now, excused \subseteq excused',
           req.cut => req'.cut,
           \A j \in held \ excused' :
               ~req'.cut /\ ~Rowed(j)' => ~Rowed(j) /\ (Ahead(j) => Ahead(j)')
    PROVE  SeenInv'
  <1> SUFFICES ASSUME NEW j \in held'
               PROVE  /\ Showable(j)'
                      /\ (~req.cut /\ j \notin excused /\ ~Rowed(j) => Ahead(j))'
    BY DEF SeenInv
  <1>1. /\ j \in held /\ Showable(j)
        /\ ~req.cut /\ j \notin excused /\ ~Rowed(j) => Ahead(j)
    BY DEF SeenInv
  <1>2. Showable(j)'
    BY <1>1, Still
  <1> QED
    BY <1>1, <1>2

\* The fields of the next request, as far as rows and place go.
LEMMA ListFields ==
    ASSUME ReaderType, Begun, ListStep, Begun'
    PROVE  /\ req'.now = req.now /\ req'.snap = req.snap
           /\ UNCHANGED <<held, idle, loose>> /\ excused \subseteq excused'
           /\ ~Poll /\ ~JobsBegin /\ ~JobsEnd
  <1>1. req \in Request
    BY DEF ReaderType, ListingTypeOK
  <1>2. ~Poll /\ ~JobsBegin /\ ~JobsEnd
    <2>1. ~Poll /\ ~JobsBegin
      BY DEF Poll, JobsBegin, Begun
    <2>2. ASSUME JobsEnd PROVE FALSE
      <3>1. req' = NoRequest(req.job)
        BY <2>2 DEF JobsEnd
      <3>2. req'.pc = "idle"
        BY <3>1 DEF NoRequest
      <3> QED
        BY <3>2 DEF Begun
    <2> QED
      BY <2>1, <2>2
  <1>3. UNCHANGED <<held, idle, loose>> /\ excused \subseteq excused'
    BY <1>2 DEF ListStep, OpenDir, Skip, ClaimedStat,
       WalkEnds, Truncate, QueuedRead, InFlightRead,
       WindowEntry, Goes, Fails, ghosts
  <1>4. CASE OpenDir
    BY <1>1, <1>2, <1>3, <1>4 DEF OpenDir, Goes, Fails, Request
  <1>5. CASE Skip
    BY <1>1, <1>2, <1>3, <1>5 DEF Skip, Goes, Fails, Examine, Request
  <1>6. CASE ClaimedStat
    BY <1>1, <1>2, <1>3, <1>6 DEF ClaimedStat, Goes, Fails, Request
  <1>7. CASE WalkEnds
    BY <1>1, <1>2, <1>3, <1>7 DEF WalkEnds, Goes, Request
  <1>8. CASE Truncate
    BY <1>1, <1>2, <1>3, <1>8 DEF Truncate, Goes, Request
  <1>9. CASE \E j \in Jobs : QueuedRead(j) \/ InFlightRead(j) \/ WindowEntry(j)
    BY <1>1, <1>2, <1>3, <1>9 DEF QueuedRead, InFlightRead, WindowEntry, Goes,
       Examine, Request
  <1> QED
    BY <1>2, <1>4, <1>5, <1>6, <1>7, <1>8, <1>9 DEF ListStep

\* Entries that are examined without effect: each is excused or cannot be met.
LEMMA SeenUnderWay ==
    ASSUME ReaderType, SeenInv, Begun, ListStep, Begun'
    PROVE  SeenInv'
  <1>r. /\ req \in Request /\ req.pass \in PassOf /\ req.left \subseteq Jobs
        /\ req.job \in Jobs /\ req.stat \in Stats
        /\ req.stat # "none" => req.pass = "new" /\ req.pc = "walk"
        /\ IsFiniteSet(req.found) /\ RowCap \in Nat
    BY Fields, ListingAssumption
       DEF ReaderType, ListingTypeOK, Shaped, ListingAssumption
  <1>l. /\ req'.now = req.now /\ UNCHANGED <<moves, held>> /\ excused \subseteq excused'
    BY ListFields, ListReader
  <1>h. \A j \in held : j \in Jobs /\ Showable(j)
    BY DEF SeenInv, ReaderType, ListingTypeOK
  <1>s. \A j : /\ Idle(j)' <=> Idle(j)
               /\ Fresh(done[j])' <=> Fresh(done[j])
               /\ Fresh(error[j])' <=> Fresh(error[j])
               /\ Marked(j)' <=> Marked(j)
               /\ Recent(j)' <=> Recent(j)
               /\ cur'[j] = cur[j]
    BY <1>l, Still DEF moves
  \* The rows of before are there, and the list is cut if it was.
  <1> DEFINE Grows == /\ req.queued \subseteq req'.queued /\ req.inFlight \subseteq req'.inFlight
                      /\ req.found \subseteq req'.found /\ (req.cut => req'.cut)
  <1>g. ASSUME Grows PROVE \A j : ~Rowed(j)' => ~Rowed(j)
    BY <1>g DEF Rowed, CompletedJobs
  <1>q. ASSUME Grows,
               \A j \in held \ excused' : ~req'.cut /\ ~Rowed(j)' /\ Ahead(j) => Ahead(j)'
        PROVE  SeenInv'
    BY <1>l, <1>g, <1>q, ListSeen
  <1>1. CASE OpenDir
    <2>0. req.pc = "open" /\ req.stat = "none"
      BY <1>1, <1>r DEF OpenDir
    <2>1. /\ req'.pc = "walk" /\ UNCHANGED <<req.pass, req.stat, req.queued, req.inFlight,
                                             req.found, req.cut>>
          /\ req'.left = Names(req.pass) \/ excused' = excused \cup Jobs
      BY <1>1, <1>r DEF OpenDir, Goes, Fails, Request
    <2>2. Grows
      BY <2>1
    <2>3. ASSUME NEW j \in held \ excused', Ahead(j) PROVE Ahead(j)'
      <3>1. req'.left = Names(req.pass) /\ j \in Jobs /\ Showable(j)
        BY <1>h, <2>1, <2>3
      <3>2. /\ req.pass = "new" /\ Idle(j) => j \in req'.left
            /\ req.pass = "cur" /\ cur[j].there => j \in req'.left
            /\ req.pass = "done" /\ Fresh(done[j]) => j \in req'.left
            /\ req.pass = "error" /\ Fresh(error[j]) => j \in req'.left
        BY <3>1 DEF Names, Showable, Idle, Archived, Marker, Dirs,
           Fresh, InWindow
      <3>3. CASE req.pass = "new"
        BY <1>s, <2>1, <3>2, <3>3 DEF Ahead
      <3>4. CASE req.pass = "cur"
        BY <1>s, <2>1, <2>3, <3>2, <3>4 DEF Ahead
      <3>5. CASE req.pass = "done"
        BY <1>s, <2>0, <2>1, <2>3, <3>2, <3>5, MarkedIs DEF Ahead
      <3>6. CASE req.pass = "error"
        BY <1>s, <2>1, <2>3, <3>2, <3>6 DEF Ahead
      <3> QED
        BY <1>r, <3>3, <3>4, <3>5, <3>6 DEF PassOf
    <2> QED
      BY <1>q, <2>2, <2>3
  <1>2. CASE Skip
    <2>1. /\ UNCHANGED <<req.pc, req.pass, req.stat, req.job, req.queued, req.inFlight,
                         req.found, req.cut>>
          /\ req'.left = req.left \/ excused' = excused \cup Jobs
               \/ \E j \in req.left : req'.left = req.left \ {j} /\ j \in excused'
      BY <1>2, <1>r DEF Skip, Goes, Fails, Examine, Request
    <2>2. Grows
      BY <2>1
    <2>3. ASSUME NEW j \in held \ excused', Ahead(j) PROVE Ahead(j)'
      <3>1. j \in req.left <=> j \in req'.left
        BY <1>h, <2>1, <2>3
      <3> QED
        BY <1>s, <2>1, <2>3, <3>1 DEF Ahead
    <2> QED
      BY <1>q, <2>2, <2>3
  <1>3. CASE \E k \in Jobs : QueuedRead(k)
    <2>1. PICK k \in Jobs : QueuedRead(k)
      BY <1>3
    <2>2. /\ req.pc = "walk" /\ req.pass = "new" /\ req.stat = "none"
          /\ UNCHANGED <<req.pc, req.pass, req.queued, req.inFlight, req.found, req.cut>>
          /\ req'.left = req.left \ {k}
          /\ k \in new => req'.stat = "cur" /\ req'.job = k
      BY <1>r, <2>1 DEF QueuedRead, MayExamine, Goes, Examine, Request
    <2>3. Grows
      BY <2>2
    <2>4. ASSUME NEW j \in held \ excused', Ahead(j) PROVE Ahead(j)'
      <3>1. Idle(j) => j \in new
        BY <1>h, <2>4 DEF Showable, Idle, Archived, InWindow, Marker, Dirs
      <3> QED
        BY <1>s, <2>2, <2>4, <3>1 DEF Ahead
    <2> QED
      BY <1>q, <2>3, <2>4
  <1>4. CASE ClaimedStat
    <2>0. req.pc = "walk" /\ req.pass = "new" /\ req.stat \in {"cur", "done", "error"}
      BY <1>4, <1>r DEF ClaimedStat, Stats
    <2>n. \/ req' = [req EXCEPT !.stat = "none"] /\ req.job \in Names(req.stat)
          \/ req' = [req EXCEPT !.stat = "done"]
          \/ req' = [req EXCEPT !.stat = "error"]
          \/ req' = [req EXCEPT !.stat = "none", !.queued = @ \cup {req.job}]
      BY <1>4, <2>0 DEF ClaimedStat, Goes, Fails
    <2>1. /\ UNCHANGED <<req.pc, req.pass, req.left, req.job, req.inFlight, req.found, req.cut>>
          /\ req.queued \subseteq req'.queued
      BY <1>r, <2>n DEF Request
    <2>2. \/ req.job \in Names(req.stat)
          \/ req'.stat # "none"
          \/ req.job \in req'.queued
      BY <1>r, <2>n DEF Request
    <2>3. Grows
      BY <2>1
    <2>4. ASSUME NEW j \in held \ excused', ~Rowed(j)', Ahead(j) PROVE Ahead(j)'
      <3>1. ASSUME Idle(j), j = req.job PROVE req'.stat # "none"
        <4>1. j \notin Names(req.stat)
          BY <2>0, <3>1 DEF Names, Idle, Archived, Marker
        <4>2. j \notin req'.queued
          BY <2>4 DEF Rowed
        <4> QED
          BY <2>2, <3>1, <4>1, <4>2
      <3> QED
        BY <1>s, <2>0, <2>1, <2>4, <3>1 DEF Ahead
    <2> QED
      BY <1>q, <2>3, <2>4
  <1>5. CASE \E k \in Jobs : InFlightRead(k)
    <2>1. PICK k \in Jobs : InFlightRead(k)
      BY <1>5
    <2>2. /\ req.pc = "walk" /\ req.pass = "cur" /\ req.stat = "none"
          /\ UNCHANGED <<req.pc, req.pass, req.queued, req.found, req.cut>>
          /\ req'.left = req.left \ {k} /\ req.inFlight \subseteq req'.inFlight
          /\ cur[k].there => k \in req'.inFlight
      BY <1>r, <2>1 DEF InFlightRead, MayExamine, Goes, Examine, Request
    <2>3. Grows
      BY <2>2
    <2>4. ASSUME NEW j \in held \ excused', ~Rowed(j)', Ahead(j) PROVE Ahead(j)'
      <3>1. cur[j].there => j # k
        BY <2>2, <2>4 DEF Rowed
      <3> QED
        BY <1>s, <2>2, <2>4, <3>1 DEF Ahead
    <2> QED
      BY <1>q, <2>3, <2>4
  <1>6. CASE \E k \in Jobs : WindowEntry(k)
    <2>1. PICK k \in Jobs : WindowEntry(k)
      BY <1>6
    <2>2. /\ req.pc = "walk" /\ req.pass \in Dirs
          /\ UNCHANGED <<req.pc, req.pass, req.queued, req.inFlight, req.cut>>
          /\ req'.left = req.left \ {k} /\ req.found \subseteq req'.found
          /\ InWindow(Marker(req.pass, k)) =>
               [job |-> k, dir |-> req.pass, mtime |-> Marker(req.pass, k).mtime] \in req'.found
      BY <1>r, <2>1 DEF WindowEntry, MayExamine, Goes, Examine, Request
    <2>3. Grows
      BY <2>2
    <2>4. ASSUME NEW j \in held \ excused', ~Rowed(j)', Ahead(j) PROVE Ahead(j)'
      <3>1. InWindow(Marker(req.pass, k)) => j # k
        BY <2>2, <2>4 DEF Rowed, CompletedJobs
      <3>2. CASE req.pass = "done"
        <4>1. Fresh(done[k]) => j # k
          BY <3>1, <3>2 DEF Fresh, Marker
        <4> QED
          BY <1>s, <2>2, <2>4, <3>2, <4>1 DEF Ahead
      <3>3. CASE req.pass = "error"
        <4>1. Fresh(error[k]) => j # k
          BY <3>1, <3>3 DEF Fresh, Marker
        <4> QED
          BY <1>s, <2>2, <2>4, <3>3, <4>1 DEF Ahead
      <3> QED
        BY <2>2, <3>2, <3>3 DEF Dirs
    <2> QED
      BY <1>q, <2>3, <2>4
  <1>7. CASE WalkEnds
    <2>1. /\ req.pc = "walk" /\ req.stat = "none"
          /\ UNCHANGED <<req.queued, req.inFlight, req.found>> /\ (req.cut => req'.cut)
          /\ req'.cut \/ req.left = {}
      BY <1>7, <1>r DEF WalkEnds, Goes, Request
    <2>2. IF req.pass = "error" THEN req'.pc = "rows" /\ req'.pass = "error"
          ELSE req'.pc = "open" /\ req'.pass = NextPass(req.pass)
      BY <1>7, <1>r DEF WalkEnds, Goes, Request, NextPass, PassOf
    <2>3. Grows
      BY <2>1
    <2>4. ASSUME NEW j \in held \ excused', ~req'.cut, Ahead(j) PROVE Ahead(j)'
      <3>0. req.left = {} /\ Showable(j)
        BY <1>h, <2>1, <2>4
      <3>1. CASE req.pass = "new"
        <4>1. req'.pass = "cur" /\ req'.pc = "open"
          BY <2>2, <3>1 DEF NextPass
        <4>2. ~Idle(j)
          BY <2>1, <2>4, <3>0, <3>1 DEF Ahead
        <4> QED
          BY <1>s, <4>1, <4>2 DEF Ahead
      <3>2. CASE req.pass = "cur"
        <4>1. req'.pass = "done" /\ req'.pc = "open"
          BY <2>2, <3>2 DEF NextPass
        <4>2. Marked(j) /\ Recent(j)
          BY <2>1, <2>4, <3>0, <3>2, MarkedIs DEF Ahead, Recent
        <4> QED
          BY <1>s, <4>1, <4>2 DEF Ahead
      <3>3. CASE req.pass = "done"
        <4>1. req'.pass = "error" /\ req'.pc = "open"
          BY <2>2, <3>3 DEF NextPass
        <4>2. Fresh(error[j]) /\ Recent(j)
          BY <2>1, <2>4, <3>0, <3>3 DEF Ahead
        <4> QED
          BY <1>s, <4>1, <4>2 DEF Ahead
      <3>4. CASE req.pass = "error"
        BY <2>1, <2>4, <3>0, <3>4 DEF Ahead
      <3> QED
        BY <1>r, <3>1, <3>2, <3>3, <3>4 DEF PassOf
    <2> QED
      BY <1>q, <2>3, <2>4
  <1>8. CASE Truncate
    <2>1. PICK S \in SUBSET req.found :
            /\ Cardinality(S) = IF Cardinality(req.found) > RowCap THEN RowCap
                                ELSE Cardinality(req.found)
            /\ Goes([req EXCEPT !.pc = "answer", !.found = S,
                                    !.cut = @ \/ Cardinality(req.found) > RowCap])
      BY <1>8 DEF Truncate
    <2>2. /\ UNCHANGED <<req.pass, req.queued, req.inFlight>> /\ req'.pc = "answer"
          /\ req'.found = S /\ req'.cut = (req.cut \/ Cardinality(req.found) > RowCap)
      BY <1>r, <2>1 DEF Goes, Request
    <2>3. req.pc = "rows"
      BY <1>8 DEF Truncate
    <2>4. ASSUME ~req'.cut PROVE req'.found = req.found
      BY <1>r, <2>1, <2>2, <2>4, FS_Subset
    <2>5. ASSUME NEW j \in held \ excused', ~req'.cut, ~Rowed(j)' PROVE ~Rowed(j)
      BY <2>2, <2>4, <2>5 DEF Rowed, CompletedJobs
    <2>6. ASSUME NEW j, Ahead(j) PROVE Ahead(j)'
      BY <1>r, <1>s, <2>2, <2>3, <2>6 DEF Ahead, PassOf
    <2> QED
      BY <1>l, <2>2, <2>5, <2>6, ListSeen
  <1> QED
    BY <1>1, <1>2, <1>3, <1>4, <1>5, <1>6, <1>7, <1>8, ListFields DEF ListStep

\* A stat that finds nothing hands on what the earlier ones have not found.
LEMMA WaitsUnderWay ==
    ASSUME ReaderType, WaitInv, Begun, ListStep, Begun'
    PROVE  WaitInv'
  <1>r. /\ req \in Request /\ req.job \in Jobs /\ req.stat \in Stats
        /\ req.pass \in PassOf /\ req.queued \subseteq Jobs /\ req.left \subseteq Jobs
        /\ req.stat # "none" => req.pass = "new" /\ req.pc = "walk"
    BY Fields DEF ReaderType, ListingTypeOK, Shaped
  <1>l. /\ UNCHANGED <<moves, idle>> /\ excused \subseteq excused'
        /\ ~Poll /\ ~JobsBegin /\ ~JobsEnd
    BY ListFields, ListReader
  <1>i. \A j : Idle(j)' <=> Idle(j)
    BY <1>l DEF moves, Idle, Archived
  <1>q. ASSUME req'.pass = "new" =>
                 /\ req.pass = "new" /\ req'.queued \subseteq idle \cup excused'
                 /\ req'.stat = "done" =>
                      req'.job \in idle \cup excused' \/ Archived(req'.job)
                 /\ req'.stat = "error" =>
                      req'.job \in idle \cup excused' \/ error[req'.job].there
        PROVE  WaitInv'
    BY <1>i, <1>l, <1>q DEF WaitInv, moves, Archived
  <1>k. ASSUME UNCHANGED <<req.pass, req.queued>>,
               req'.stat = req.stat \/ req'.stat \in {"none", "cur"},
               req'.job = req.job \/ req'.stat \in {"none", "cur"}
        PROVE  WaitInv'
    BY <1>k, <1>l, <1>q DEF WaitInv
  <1>1. CASE OpenDir \/ Skip \/ Truncate
    <2>1. UNCHANGED <<req.pass, req.queued, req.stat, req.job>>
      BY <1>1, <1>r DEF OpenDir, Skip, Truncate, Goes, Fails,
         Examine, Request
    <2> QED
      BY <1>k, <2>1
  <1>2. CASE \E k \in Jobs : InFlightRead(k) \/ WindowEntry(k)
    <2>1. UNCHANGED <<req.pass, req.queued, req.stat, req.job>>
      BY <1>2, <1>r DEF InFlightRead, WindowEntry, Goes, Examine, Request
    <2> QED
      BY <1>k, <2>1
  <1>3. CASE \E k \in Jobs : QueuedRead(k)
    <2>1. UNCHANGED <<req.pass, req.queued>> /\ req'.stat \in {"none", "cur"}
      BY <1>3, <1>r DEF QueuedRead, MayExamine, Goes, Examine, Request
    <2> QED
      BY <1>k, <2>1
  <1>4. CASE WalkEnds
    <2>1. req.pass = "error" \/ req'.pass = NextPass(req.pass)
      BY <1>4, <1>r DEF WalkEnds, Goes, Request, NextPass, PassOf
    <2>2. req.pass = "error" => req'.pass = "error"
      BY <1>4, <1>r DEF WalkEnds, Goes, Request, NextPass, PassOf
    <2>3. req'.pass # "new"
      BY <1>r, <2>1, <2>2 DEF NextPass, PassOf
    <2> QED
      BY <1>q, <2>3
  <1>5. CASE ClaimedStat
    <2>0. req.pc = "walk" /\ req.pass = "new" /\ req.stat \in {"cur", "done", "error"}
      BY <1>5, <1>r DEF ClaimedStat, Stats
    <2>1. PICK k \in Jobs : k = req.job
      BY <1>r
    <2>2. /\ k \in Jobs /\ (Idle(k) => k \in idle) /\ req.queued \subseteq idle \cup excused
          /\ req.stat = "done" => k \in idle \cup excused \/ Archived(k)
          /\ req.stat = "error" => k \in idle \cup excused \/ error[k].there
      BY <2>0, <2>1 DEF WaitInv
    \* found: nothing is handed on
    <2>3. CASE req' = [req EXCEPT !.stat = "none"]
      <3>1. req'.stat = "none" /\ UNCHANGED <<req.pass, req.queued>>
        BY <1>r, <2>3 DEF Request
      <3> QED
        BY <1>k, <3>1
    <2>4. ASSUME k \notin Names(req.stat) \/ k \in excused'
          PROVE  /\ req.stat = "cur" => k \in idle \cup excused' \/ Archived(k)
                 /\ req.stat = "done" => k \in idle \cup excused' \/ error[k].there
                 /\ req.stat = "error" => k \in idle \cup excused'
      BY <1>l, <2>0, <2>2, <2>4 DEF Names, Marker, Idle, Archived
    <2>5. CASE /\ k \notin Names(req.stat) \/ k \in excused'
               /\ req.stat = "cur" /\ req' = [req EXCEPT !.stat = "done"]
      <3>1. req'.stat = "done" /\ req'.job = k /\ UNCHANGED <<req.pass, req.queued>>
        BY <1>r, <2>1, <2>5 DEF Request
      <3>2. k \in idle \cup excused' \/ Archived(k)
        BY <2>4, <2>5
      <3> QED
        BY <1>l, <1>q, <2>0, <2>2, <3>1, <3>2
    <2>6. CASE /\ k \notin Names(req.stat) \/ k \in excused'
               /\ req.stat = "done" /\ req' = [req EXCEPT !.stat = "error"]
      <3>1. req'.stat = "error" /\ req'.job = k /\ UNCHANGED <<req.pass, req.queued>>
        BY <1>r, <2>1, <2>6 DEF Request
      <3>2. k \in idle \cup excused' \/ error[k].there
        BY <2>4, <2>6
      <3> QED
        BY <1>l, <1>q, <2>0, <2>2, <3>1, <3>2
    <2>7. CASE /\ k \notin Names(req.stat) \/ k \in excused'
               /\ req.stat = "error"
               /\ req' = [req EXCEPT !.stat = "none", !.queued = @ \cup {req.job}]
      <3>1. req'.stat = "none" /\ req'.queued = req.queued \cup {k} /\ UNCHANGED req.pass
        BY <1>r, <2>1, <2>7 DEF Request
      <3>2. k \in idle \cup excused'
        BY <2>4, <2>7
      <3> QED
        BY <1>l, <1>q, <2>0, <2>2, <3>1, <3>2
    <2> QED
      BY <1>5, <2>0, <2>1, <2>3, <2>5, <2>6, <2>7 DEF ClaimedStat, Goes, Fails
  <1> QED
    BY <1>1, <1>2, <1>3, <1>4, <1>5, <1>l DEF ListStep

\* The walk through cur/ meets every claim that was there when it was opened.
LEMMA VmsUnderWay ==
    ASSUME ReaderType, VmInv, Begun, ListStep, Begun'
    PROVE  VmInv'
  <1>r. /\ req \in Request /\ req.pass \in PassOf /\ req.snap \subseteq Jobs
        /\ req.stat # "none" => req.pass = "new" /\ req.pc = "walk"
    BY Fields DEF ReaderType, ListingTypeOK, Shaped
  <1>l. /\ req'.snap = req.snap /\ UNCHANGED <<cur, loose>> /\ excused \subseteq excused'
        /\ ~Poll /\ ~JobsBegin /\ ~JobsEnd
    BY ListFields, ListReader DEF moves
  <1>q. ASSUME \A j \in req.snap \ loose :
                 /\ req'.pass = "cur" /\ req'.pc = "walk" /\ ~req'.cut =>
                      j \in req'.left \cup req'.inFlight \cup excused'
                 /\ req'.pass \in Dirs /\ ~req'.cut => j \in req'.inFlight \cup excused'
        PROVE  VmInv'
    BY <1>l, <1>q DEF VmInv
  <1>v. \A j \in req.snap \ loose :
          /\ j \in Jobs /\ cur[j].there
          /\ req.pass = "cur" /\ req.pc = "walk" /\ ~req.cut =>
               j \in req.left \cup req.inFlight \cup excused
          /\ req.pass \in Dirs /\ ~req.cut => j \in req.inFlight \cup excused
    BY <1>r DEF VmInv
  <1>1. CASE OpenDir
    <2>1. /\ req'.pc = "walk" /\ UNCHANGED <<req.pass, req.inFlight, req.cut>>
          /\ req'.left = Names(req.pass) \/ excused' = excused \cup Jobs
      BY <1>1, <1>r DEF OpenDir, Goes, Fails, Request
    <2> QED
      BY <1>l, <1>q, <1>v, <2>1 DEF Names
  <1>2. CASE Skip
    <2>1. /\ UNCHANGED <<req.pc, req.pass, req.inFlight, req.cut>>
          /\ req'.left = req.left \/ excused' = excused \cup Jobs
               \/ \E j \in req.left : req'.left = req.left \ {j} /\ j \in excused'
      BY <1>2, <1>r DEF Skip, Goes, Fails, Examine, Request
    <2> QED
      BY <1>l, <1>q, <1>v, <2>1
  <1>3. CASE Truncate \/ \E k \in Jobs : WindowEntry(k)
    <2>1. /\ UNCHANGED <<req.pass, req.inFlight>> /\ (req.cut => req'.cut)
          /\ req.pass # "cur" \/ req'.pc # "walk"
      BY <1>3, <1>r DEF Truncate, WindowEntry, MayExamine, Goes, Examine,
         Request, Dirs
    <2> QED
      BY <1>l, <1>q, <1>v, <2>1
  <1>4. CASE ClaimedStat \/ \E k \in Jobs : QueuedRead(k)
    <2>1. req.pass = "new"
      BY <1>4, <1>r DEF ClaimedStat, QueuedRead
    <2>2. UNCHANGED req.pass
      BY <1>4, <1>r DEF ClaimedStat, QueuedRead, Goes, Fails, Examine,
         Request
    <2> QED
      BY <1>q, <2>1, <2>2 DEF Dirs
  <1>5. CASE \E k \in Jobs : InFlightRead(k)
    <2>1. PICK k \in Jobs : InFlightRead(k)
      BY <1>5
    <2>2. /\ UNCHANGED <<req.pc, req.pass, req.cut>> /\ req.pass = "cur"
          /\ req.pc = "walk" /\ req'.left = req.left \ {k}
          /\ req.inFlight \subseteq req'.inFlight /\ (cur[k].there => k \in req'.inFlight)
      BY <1>r, <2>1 DEF InFlightRead, MayExamine, Goes, Examine, Request
    <2> QED
      BY <1>l, <1>q, <1>v, <2>2 DEF Dirs
  <1>6. CASE WalkEnds
    <2>1. /\ req.pc = "walk" /\ UNCHANGED req.inFlight /\ (req.cut => req'.cut)
          /\ req'.cut \/ req.left = {}
      BY <1>6, <1>r DEF WalkEnds, Goes, Request
    <2>2. IF req.pass = "error" THEN req'.pc = "rows" /\ req'.pass = "error"
          ELSE req'.pc = "open" /\ req'.pass = NextPass(req.pass)
      BY <1>6, <1>r DEF WalkEnds, Goes, Request, NextPass, PassOf
    <2>3. req'.pass \in Dirs => req.pass \in {"cur", "done", "error"}
      BY <1>r, <2>2 DEF NextPass, PassOf, Dirs
    <2>4. req'.pc # "walk"
      BY <2>2
    <2> QED
      BY <1>l, <1>q, <1>v, <2>1, <2>3, <2>4 DEF Dirs
  <1> QED
    BY <1>1, <1>2, <1>3, <1>4, <1>5, <1>6, <1>l DEF ListStep

ReaderInv == ReaderType /\ SeenInv /\ WaitInv /\ VmInv

LEMMA ReaderInvInit == ListingInit => ReaderInv
  <1> SUFFICES ASSUME ListingInit PROVE ReaderInv
    OBVIOUS
  <1>1. PICK j \in Jobs : req = NoRequest(j)
    BY DEF ListingInit
  <1>2. req.pc = "idle" /\ req.snap = {}
    BY <1>1 DEF NoRequest
  <1> QED
    BY <1>2, ReaderInit DEF ReaderInv, SeenInv, WaitInv, VmInv, Begun

\* The steps between two requests.
LEMMA ReaderTurns ==
    ASSUME ReaderInv, Poll \/ JobsBegin \/ JobsEnd
    PROVE  ReaderInv'
  <1>r. /\ req \in Request /\ (~Begun => req.queued = {} /\ req.stat = "none")
    BY DEF ReaderInv, ReaderType, ListingTypeOK, Shaped
  <1>t. ReaderType' /\ UNCHANGED moves
    BY ListReader DEF ReaderInv, ListStep
  <1>1. CASE Poll
    <2>1. PICK S \in SUBSET Jobs :
            /\ req' = [req EXCEPT !.pc = "polled", !.snap = S]
            /\ loose' = {j \in S : ~cur[j].there}
      BY <1>1 DEF Poll
    <2>2. req'.pc = "polled" /\ req'.snap = S
      BY <1>r, <2>1 DEF Request
    <2>3. ~Begun'
      BY <2>2 DEF Begun
    <2>4. VmInv'
      BY <1>t, <2>1, <2>2, <2>3 DEF VmInv, moves
    <2> QED
      BY <1>t, <2>3, <2>4 DEF ReaderInv, SeenInv, WaitInv
  <1>2. CASE JobsBegin
    <2>1. /\ req' = [req EXCEPT !.pc = "open", !.pass = "new", !.now = clock] /\ ~Begun
          /\ held' = {j \in Jobs : Showable(j)'} /\ idle' = {j \in Jobs : Idle(j)}
          /\ loose' = loose
      BY <1>2 DEF JobsBegin
    <2>2. /\ req'.pc = "open" /\ req'.pass = "new" /\ req'.stat = "none" /\ req'.queued = {}
          /\ req'.snap = req.snap
      BY <1>r, <2>1 DEF Request
    <2>3. SeenInv'
      BY <2>1, <2>2 DEF SeenInv, Ahead
    <2>4. WaitInv'
      BY <1>t, <2>1, <2>2 DEF WaitInv, moves, Idle, Archived
    <2>5. VmInv'
      BY <1>t, <2>1, <2>2 DEF ReaderInv, VmInv, moves, Dirs
    <2> QED
      BY <1>t, <2>3, <2>4, <2>5 DEF ReaderInv
  <1>3. CASE JobsEnd
    <2>1. req' = NoRequest(req.job)
      BY <1>3 DEF JobsEnd
    <2>2. req'.pc = "idle" /\ req'.snap = {}
      BY <2>1 DEF NoRequest
    <2> QED
      BY <1>t, <2>2 DEF ReaderInv, SeenInv, WaitInv, VmInv, Begun
  <1> QED
    BY <1>1, <1>2, <1>3

LEMMA ReaderStep ==
    ASSUME ReaderInv, [ListingNext]_listing
    PROVE  ReaderInv'
  <1>1. CASE SpoolStep
    BY <1>1, SpoolReader, SpoolSeen, SpoolWaits, SpoolVms DEF ReaderInv
  <1>2. CASE Poll \/ JobsBegin \/ JobsEnd
    BY <1>2, ReaderTurns
  <1>3. CASE ListStep /\ ~(Poll \/ JobsBegin \/ JobsEnd)
    <2>1. Begun /\ req \in Request
      BY <1>3 DEF ListStep, OpenDir, Skip, ClaimedStat, WalkEnds,
         Truncate, QueuedRead, InFlightRead, WindowEntry, MayExamine,
         Begun, ReaderInv, ReaderType, Shaped, ListingTypeOK
    <2>2. ReaderType'
      BY <1>3, ListReader DEF ReaderInv
    <2>3. ASSUME ~Begun' PROVE FALSE
      <3>1. req'.pc \in {req.pc, "walk", "open", "rows", "answer"}
        <4>1. CASE OpenDir \/ Skip \/ Truncate
          BY <2>1, <4>1 DEF OpenDir, Skip, Truncate, Goes, Fails,
             Examine, Request
        <4>2. CASE ClaimedStat \/ WalkEnds
          BY <2>1, <4>2 DEF ClaimedStat, WalkEnds, Goes, Fails, Request
        <4>3. CASE \E k \in Jobs : QueuedRead(k) \/ InFlightRead(k) \/ WindowEntry(k)
          BY <2>1, <4>3 DEF QueuedRead, InFlightRead, WindowEntry, Goes,
             Examine, Request
        <4> QED
          BY <1>3, <4>1, <4>2, <4>3 DEF ListStep
      <3> QED
        BY <2>1, <2>3, <3>1 DEF Begun
    <2> QED
      BY <1>3, <2>1, <2>2, <2>3, SeenUnderWay, WaitsUnderWay, VmsUnderWay DEF ReaderInv
  <1>4. CASE UNCHANGED listing
    <2>1. UNCHANGED <<new, cur, done, error, clock, req, held, idle, excused, loose>>
      BY <1>4 DEF listing, moves, ghosts
    <2>2. ReaderType'
      BY <2>1 DEF ReaderInv, ReaderType, MovesType, Shaped, ListingTypeOK, Begun
    <2>3. SeenInv'
      <3>1. \A j : /\ Showable(j)' <=> Showable(j)
                   /\ Idle(j)' <=> Idle(j)
                   /\ Fresh(done[j])' <=> Fresh(done[j])
                   /\ Fresh(error[j])' <=> Fresh(error[j])
                   /\ Marked(j)' <=> Marked(j)
                   /\ Recent(j)' <=> Recent(j)
        BY <2>1, Still DEF ReaderInv, moves
      <3>2. \A j : (Ahead(j)' <=> Ahead(j)) /\ (Rowed(j)' <=> Rowed(j))
        BY <2>1, <3>1 DEF Ahead, Rowed, CompletedJobs
      <3> QED
        BY <2>1, <3>1, <3>2 DEF ReaderInv, SeenInv, Begun
    <2>4. WaitInv' /\ VmInv'
      BY <2>1 DEF ReaderInv, WaitInv, VmInv, Begun, Idle, Archived
    <2> QED
      BY <2>2, <2>3, <2>4 DEF ReaderInv
  <1> QED
    BY <1>1, <1>2, <1>3, <1>4 DEF ListingNext

\* ListingSpec => []ListingTypeOK: a request keeps its type, and its count of examined
\* entries stays within the caps (control.rs, list_active and list_completed).
THEOREM ListingTypeCorrect ==
    ListingSpec => []ListingTypeOK
  <1>1. ListingInit => ReaderInv
    BY ReaderInvInit
  <1>2. ReaderInv /\ [ListingNext]_listing => ReaderInv'
    BY ReaderStep
  <1>3. ReaderInv => ListingTypeOK
    BY DEF ReaderInv, ReaderType
  <1> QED
    BY <1>1, <1>2, <1>3, PTL DEF ListingSpec

\* ListingSpec => []JobSeen, for every number of jobs, every window, retention and
\* cap: a job that is in the spool from the first look of GET /jobs to its last has
\* a row, however its file moves between the looks (control.rs, ControlState::jobs).
THEOREM ListingJobSeen ==
    ListingSpec => []JobSeen
  <1>1. ListingInit => ReaderInv
    BY ReaderInvInit
  <1>2. ReaderInv /\ [ListingNext]_listing => ReaderInv'
    BY ReaderStep
  <1>3. ReaderInv => JobSeen
    <2> SUFFICES ASSUME ReaderInv, req.pc = "answer", ~req.cut, NEW j \in held,
                        j \notin excused
                 PROVE  Rowed(j)
      BY DEF JobSeen, Rowed
    <2>1. Begun
      BY DEF Begun
    <2>2. ~Rowed(j) => Ahead(j)
      BY <2>1 DEF ReaderInv, SeenInv
    <2>3. req.pass = "error"
      BY DEF ReaderInv, ReaderType, Shaped
    <2> QED
      BY <2>2, <2>3 DEF Ahead
  <1> QED
    BY <1>1, <1>2, <1>3, PTL DEF ListingSpec

\* ListingSpec => []QueuedWaits: what the queued list shows was neither claimed nor
\* archived at some moment of the request, so that the replay of a running job is not
\* shown while the job is being archived (control.rs, already_claimed_or_archived).
THEOREM ListingQueuedWaits ==
    ListingSpec => []QueuedWaits
  <1>1. ListingInit => ReaderInv
    BY ReaderInvInit
  <1>2. ReaderInv /\ [ListingNext]_listing => ReaderInv'
    BY ReaderStep
  <1>3. ReaderInv => QueuedWaits
    BY DEF ReaderInv, ReaderType, Shaped, WaitInv, QueuedWaits
  <1> QED
    BY <1>1, <1>2, <1>3, PTL DEF ListingSpec

\* ListingSpec => []OrphanUnclaimed: a VM that is shown as an orphan was without a
\* claim at some time since the snapshot (control.rs, jobs and poll_vm_snapshots).
THEOREM ListingOrphanUnclaimed ==
    ListingSpec => []OrphanUnclaimed
  <1>1. ListingInit => ReaderInv
    BY ReaderInvInit
  <1>2. ReaderInv /\ [ListingNext]_listing => ReaderInv'
    BY ReaderStep
  <1>3. ReaderInv => OrphanUnclaimed
    <2> SUFFICES ASSUME ReaderInv, req.pc = "answer", ~req.cut, NEW j \in req.snap \ loose
                 PROVE  j \in req.inFlight \cup excused
      BY DEF OrphanUnclaimed, orphan_vm_names
    <2>1. Begun /\ req.pass \in Dirs
      BY DEF Begun, ReaderInv, ReaderType, Shaped, Dirs
    <2> QED
      BY <2>1 DEF ReaderInv, VmInv
  <1> QED
    BY <1>1, <1>2, <1>3, PTL DEF ListingSpec

=============================================================================
