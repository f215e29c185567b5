----------------------------- MODULE WarmerProofs -----------------------------
(***************************************************************************)
(* Proofs about Warmer, for any number of tasks, tips, targets, attempts   *)
(* and restarts, and every TTL.  Only WarmerSingleFlight bounds the number *)
(* of permits.                                                             *)
(***************************************************************************)
EXTENDS Warmer, FiniteSetTheorems, TLAPS

\* The parts of the type: a task has a tip from its trigger on, a mark that is
\* not from the future from its reading of the clock on, and a directory of its
\* own number while it runs its children.
Located ==
    \A t \in Tasks :
        /\ w[t].pc # "idle" => w[t].tip \in Tips
        /\ w[t].pc \in {"lock"} \cup Pre \cup Steps => w[t].mark \in 0..now
        /\ Running(t) => w[t].slug \in Slugs /\ w[t].slug[2] < attempt

\* The tasks that may still take a number.
Waiting == {t \in Tasks : w[t].pc \in {"branch", "tip", "clock", "lock", "mint", "setup"}}
Room == attempt + Cardinality(Waiting) <= MaxAttempts

TypeInv == TypeOK /\ Located /\ Room
-----------------------------------------------------------------------------
LEMMA Constants ==
    /\ IsFiniteSet(Tasks)
    /\ Permits \in Nat /\ Targets \in Nat /\ Targets > 0
    /\ TTL \in Nat /\ MaxTime \in Nat /\ MaxAttempts \in Nat /\ MaxRestarts \in Nat
BY WarmerAssumption DEF WarmerAssumption

LEMMA IdleTyped == Idle \in Locals /\ Idle.pc = "idle"
BY Constants DEF Idle, Locals, NoSlug, NoGroups, NoGroup, Children, Groups, Leaders, Phases

\* What a task's locals may become.
LEMMA LocalsTyped ==
    ASSUME NEW l \in Locals
    PROVE  /\ l.pc \in Phases /\ l.tip \in Tips \cup {None}
           /\ l.mark \in 0..MaxTime \cup {None}
           /\ l.slug \in Slugs \cup {NoSlug} /\ l.target \in 0..Targets
           /\ l.grp \in [Children -> Groups] /\ l.armed \in SUBSET Children
           /\ l.jq \in {"none", "ok", "fail"}
           /\ \A p \in Phases : [l EXCEPT !.pc = p] \in Locals
           /\ \A g \in [Children -> Groups], a \in SUBSET Children :
                [l EXCEPT !.grp = g, !.armed = a] \in Locals
<1>1. /\ l.pc \in Phases /\ l.tip \in Tips \cup {None}
      /\ l.mark \in 0..MaxTime \cup {None}
      /\ l.slug \in Slugs \cup {NoSlug} /\ l.target \in 0..Targets
      /\ l.grp \in [Children -> Groups] /\ l.armed \in SUBSET Children
      /\ l.jq \in {"none", "ok", "fail"}
  BY DEF Locals
<1>2. ASSUME NEW p \in Phases PROVE [l EXCEPT !.pc = p] \in Locals
  BY DEF Locals
<1>3. ASSUME NEW g \in [Children -> Groups], NEW a \in SUBSET Children
      PROVE  [l EXCEPT !.grp = g, !.armed = a] \in Locals
  BY DEF Locals
<1> QED
  BY <1>1, <1>2, <1>3

LEMMA InitType == Init => TypeInv
<1> SUFFICES ASSUME Init PROVE TypeInv
  OBVIOUS
<1> USE Constants DEF Init
<1>1. now \in 0..MaxTime /\ attempt \in 0..MaxAttempts /\ restarts \in 0..MaxRestarts
  OBVIOUS
<1>2. w \in [Tasks -> Locals]
  BY IdleTyped
<1>3. /\ seen \in [Tips -> 0..MaxTime \cup {None}]
      /\ reached \in [Tips -> 0..MaxTime \cup {None}]
  BY DEF NoMarks
<1>4. dirs \in [Slugs -> Tasks \cup {"old", "none"}]
  OBVIOUS
<1>5. escaped \subseteq Leaders /\ misfire \in BOOLEAN
  OBVIOUS
<1>6. Located
  BY IdleTyped DEF Located, Running, Pre, Steps
<1>7. Room
  <2>1. Waiting = {}
    BY IdleTyped DEF Waiting
  <2> QED
    BY <2>1, <1>1, FS_EmptySet DEF Room
<1> QED
  BY <1>1, <1>2, <1>3, <1>4, <1>5, <1>6, <1>7 DEF TypeInv, TypeOK

\* Only t's locals change, and they fit.
Moves(t) ==
    /\ w' = [w EXCEPT ![t] = w'[t]]
    /\ w'[t] \in Locals
    /\ w'[t].pc # "idle" => w'[t].tip \in Tips
    /\ w'[t].pc \in {"lock"} \cup Pre \cup Steps => w'[t].mark \in 0..now
    /\ w'[t].pc \in Steps => w'[t].slug \in Slugs /\ w'[t].slug[2] < attempt'

\* A task that does not take a number stays among those that may, or leaves.
LEMMA RoomKept ==
    ASSUME TypeInv, attempt' = attempt, Waiting' \subseteq Waiting
    PROVE  Room'
<1>1. IsFiniteSet(Waiting)
  BY Constants, FS_Subset DEF Waiting
<1>2. /\ Cardinality(Waiting) \in Nat /\ Cardinality(Waiting') \in Nat
      /\ Cardinality(Waiting') <= Cardinality(Waiting)
  BY <1>1, FS_Subset, FS_CardinalityType
<1> QED
  BY <1>2, Constants DEF Room, TypeInv, TypeOK


LEMMA SetMoves ==
    ASSUME TypeInv, NEW t \in Tasks, NEW l \in Locals, w' = [w EXCEPT ![t] = l],
           l.pc # "idle" => l.tip \in Tips,
           l.pc \in {"lock"} \cup Pre \cup Steps => l.mark \in 0..now,
           l.pc \in Steps => l.slug \in Slugs /\ l.slug[2] < attempt'
    PROVE  Moves(t)
<1>1. w'[t] = l
  BY DEF TypeInv, TypeOK
<1> QED
  BY <1>1 DEF Moves

LEMMA ReturnMoves ==
    ASSUME TypeInv, NEW t \in Tasks, Return(t)
    PROVE  Moves(t)
BY SetMoves, IdleTyped DEF Return, Pre, Steps

LEMMA GotoMoves ==
    ASSUME TypeInv, NEW t \in Tasks, NEW p \in Phases \ Steps, Goto(t, p),
           w[t].pc # "idle", p \in {"lock"} \cup Pre => w[t].pc \in {"lock"} \cup Pre
    PROVE  Moves(t)
<1>0. w[t] \in Locals /\ w \in [Tasks -> Locals]
  BY DEF TypeInv, TypeOK
<1> DEFINE l == [w[t] EXCEPT !.pc = p]
<1>1. l \in Locals /\ w' = [w EXCEPT ![t] = l]
  BY <1>0, LocalsTyped DEF Goto
<1>2. l.pc = p /\ l.tip = w[t].tip /\ l.mark = w[t].mark
  BY <1>0 DEF Locals
<1> HIDE DEF l
<1>3. l.tip \in Tips /\ (p \in {"lock"} \cup Pre => l.mark \in 0..now)
  BY <1>2 DEF TypeInv, Located
<1> QED
  BY <1>1, <1>2, <1>3, SetMoves

\* The decision and the way to the children.
LEMMA EarlyMoves ==
    ASSUME TypeInv, NEW t \in Tasks,
           \/ \E k \in Tips : Trigger(t, k)
           \/ Lookup(t) \/ ReadClock(t) \/ CheckAndMark(t) \/ Clear(t)
           \/ MintToken(t)
    PROVE  Moves(t)
<1> USE DEF At, Phases, Pre, Steps
<1>0. w \in [Tasks -> Locals] /\ w[t] \in Locals /\ now \in 0..MaxTime
  BY DEF TypeInv, TypeOK
<1>1. ASSUME NEW k \in Tips, Trigger(t, k) PROVE Moves(t)
  <2> DEFINE l == [w[t] EXCEPT !.pc = "branch", !.tip = k]
  <2>1. w' = [w EXCEPT ![t] = l]
    BY <1>0, <1>1 DEF Trigger
  <2>2. l \in Locals /\ l.pc = "branch" /\ l.tip = k
    BY <1>0 DEF Locals
  <2> HIDE DEF l
  <2> QED
    BY <2>1, <2>2, SetMoves
<1>2. CASE Lookup(t)
  BY <1>2, GotoMoves, ReturnMoves DEF Lookup
<1>3. CASE ReadClock(t)
  <2> DEFINE l == [w[t] EXCEPT !.pc = "lock", !.mark = now]
  <2>1. w' = [w EXCEPT ![t] = l]
    BY <1>0, <1>3 DEF ReadClock
  <2>2. l \in Locals /\ l.pc = "lock" /\ l.tip = w[t].tip /\ l.mark = now
    BY <1>0 DEF Locals
  <2>3. w[t].tip \in Tips
    BY <1>3 DEF ReadClock, TypeInv, Located
  <2>4. now \in 0..now
    BY <1>0, Constants
  <2> HIDE DEF l
  <2> QED
    BY <2>1, <2>2, <2>3, <2>4, SetMoves
<1>4. CASE CheckAndMark(t)
  BY <1>4, GotoMoves, ReturnMoves DEF CheckAndMark
<1>5. CASE Clear(t)
  BY <1>5, ReturnMoves DEF Clear
<1>6. CASE MintToken(t)
  BY <1>6, GotoMoves DEF MintToken
<1> QED
  BY <1>1, <1>2, <1>3, <1>4, <1>5, <1>6

\* Setup takes the next number, which there is room for.
LEMMA SetupMoves ==
    ASSUME TypeInv, NEW t \in Tasks, Setup(t)
    PROVE  /\ Moves(t)
           /\ attempt < MaxAttempts /\ Slug(w[t].tip, attempt) \in Slugs
           /\ w[t].tip \in Tips /\ w[t].mark \in 0..now
<1>0. w \in [Tasks -> Locals] /\ w[t] \in Locals /\ w[t].pc = "setup"
  BY DEF TypeInv, TypeOK, Setup
<1>1. w[t].tip \in Tips /\ w[t].mark \in 0..now
  BY <1>0 DEF TypeInv, Located, Pre
<1>2. attempt < MaxAttempts
  <2>1. t \in Waiting /\ IsFiniteSet(Waiting)
    BY <1>0, Constants, FS_Subset DEF Waiting
  <2>2. Cardinality(Waiting) # 0 /\ Cardinality(Waiting) \in Nat
    BY <2>1, FS_EmptySet, FS_CardinalityType
  <2> QED
    BY <2>2, Constants DEF TypeInv, TypeOK, Room
<1> DEFINE s == Slug(w[t].tip, attempt)
<1>3. s \in Slugs /\ s[2] = attempt
  BY <1>1, <1>2, Constants DEF Slug, Slugs, TypeInv, TypeOK
<1>4. Moves(t)
  <2>1. CASE Goto(t, "clear")
    BY <1>0, <2>1, GotoMoves DEF Phases, Pre, Steps
  <2>2. CASE w' = [w EXCEPT ![t].pc = "seed", ![t].slug = s]
    <3> DEFINE l == [w[t] EXCEPT !.pc = "seed", !.slug = s]
    <3>1. w' = [w EXCEPT ![t] = l]
      BY <1>0, <2>2
    <3>2. /\ l \in Locals /\ l.pc = "seed" /\ l.slug = s
          /\ l.tip = w[t].tip /\ l.mark = w[t].mark
      BY <1>0, <1>3 DEF Locals, Phases, Steps
    <3>3. s[2] < attempt'
      BY <1>3, Constants DEF Setup, TypeInv, TypeOK
    <3> HIDE DEF l, s
    <3> QED
      BY <1>1, <1>3, <3>1, <3>2, <3>3, SetMoves
  <2> QED
    BY <2>1, <2>2 DEF Setup
<1> QED
  BY <1>1, <1>2, <1>3, <1>4

\* A step that returns: the task goes on to the next one, or ends.  l differs
\* from the task's locals in its children only.
LEMMA FinishMoves ==
    ASSUME TypeInv, NEW t \in Tasks, NEW l \in Locals, NEW good,
           Running(t), Finish(t, l, good),
           l.pc = w[t].pc, l.tip = w[t].tip, l.mark = w[t].mark,
           l.slug = w[t].slug
    PROVE  /\ Moves(t)
           /\ w'[t].pc \notin Steps => RemoveDir(w[t].slug)
           /\ w'[t].pc \notin Steps => w'[t] = Idle
           /\ w'[t].pc \in Steps => dirs' = dirs /\ w'[t].slug = w[t].slug
           /\ w'[t].grp = NoGroups /\ w'[t].armed = {} /\ w'[t].jq = "none"
           /\ w'[t].pc \in Steps \cup {"idle"}
<1> DEFINE next == After(l, good)
<1>0. w \in [Tasks -> Locals] /\ l.target \in 0..Targets /\ attempt' = attempt
  BY DEF TypeInv, TypeOK, Locals, Finish, process
<1>1. /\ next[1] \in {"idle", "show", "build", "copy"}
      /\ next[2] \in 0..Targets
  BY <1>0, Constants DEF After
<1>2. CASE next[1] = "idle"
  <2>1. Return(t) /\ RemoveDir(w[t].slug)
    BY <1>2 DEF Finish
  <2>2. w'[t] = Idle
    BY <1>0, <2>1 DEF Return
  <2> QED
    BY <2>1, <2>2, ReturnMoves, IdleTyped DEF Idle, Steps
<1>3. CASE next[1] # "idle"
  <2> DEFINE m == [Idle EXCEPT !.pc = next[1], !.target = next[2],
                     !.tip = l.tip, !.mark = l.mark, !.slug = l.slug]
  <2>1. w' = [w EXCEPT ![t] = m] /\ dirs' = dirs
    BY <1>3 DEF Finish
  <2>2. /\ m.pc = next[1] /\ m.tip = l.tip /\ m.mark = l.mark /\ m.slug = l.slug
        /\ m.grp = NoGroups /\ m.armed = {} /\ m.jq = "none"
    BY DEF Idle
  <2>3. m \in Locals
    <3>1. /\ l.tip \in Tips \cup {None} /\ l.mark \in 0..MaxTime \cup {None}
          /\ l.slug \in Slugs \cup {NoSlug} /\ next[1] \in Phases
      BY <1>1, LocalsTyped DEF Phases, Steps
    <3> QED
      BY <1>1, <3>1, IdleTyped DEF Locals
  <2>4. next[1] \in Steps
    BY <1>1, <1>3 DEF Steps
  <2>5. l.tip \in Tips /\ l.mark \in 0..now /\ l.slug \in Slugs /\ l.slug[2] < attempt'
    BY <1>0 DEF TypeInv, Located, Running, Steps
  <2>6. w'[t] = m
    BY <1>0, <2>1
  <2> HIDE DEF m
  <2>7. Moves(t)
    BY <2>1, <2>2, <2>3, <2>5, SetMoves
  <2> QED
    BY <2>1, <2>2, <2>4, <2>6, <2>7
<1> QED
  BY <1>2, <1>3
-----------------------------------------------------------------------------
\* A guard is armed from the spawn until the wait returns.  A group that was killed
\* as a whole has no process left, reaped or not.
Held == {"live", "ok", "fail", "killed"}
Guarded(l) ==
    \A p \in Children :
        /\ p \in l.armed <=> l.grp[p].leader \in Held
        /\ l.grp[p].leader \in {"none", "killed"} => ~l.grp[p].kin

GroupInv ==
    \A t \in Tasks : Guarded(w[t]) /\ (~Running(t) => w[t].grp = NoGroups)

SameWarm(l, m) == l.pc = m.pc /\ l.tip = m.tip /\ l.mark = m.mark /\ l.slug = m.slug

\* The step goes on, with other children.
Stays(t) ==
    \E l \in Locals :
        /\ w' = [w EXCEPT ![t] = l]
        /\ SameWarm(l, w[t]) /\ Guarded(l)
        /\ UNCHANGED <<process, dirs, ghosts>>

\* The step returns, every guard of it matching its child.
Returns(t) ==
    \E l \in Locals, good \in BOOLEAN :
        Finish(t, l, good) /\ SameWarm(l, w[t]) /\ Guarded(l)

LEMMA StartMoves ==
    ASSUME TypeInv, NEW t \in Tasks, NEW ps \in SUBSET Children, Started(t, ps),
           UNCHANGED <<process, dirs, ghosts>>
    PROVE  Stays(t)
<1> DEFINE g == [p \in Children |-> IF p \in ps THEN LiveGroup ELSE NoGroup]
           l == [w[t] EXCEPT !.grp = g, !.armed = ps]
<1>0. w \in [Tasks -> Locals] /\ w[t] \in Locals
  BY DEF TypeInv, TypeOK
<1>1. w' = [w EXCEPT ![t] = l]
  BY <1>0 DEF Started
<1>2. /\ g \in [Children -> Groups]
      /\ \A p \in Children : g[p] = IF p \in ps THEN LiveGroup ELSE NoGroup
  BY DEF Groups, LiveGroup, NoGroup, Leaders
<1> HIDE DEF g
<1>3. l \in Locals /\ SameWarm(l, w[t]) /\ l.grp = g /\ l.armed = ps
  BY <1>0, <1>2 DEF Locals, SameWarm
<1> HIDE DEF l
<1>4. Guarded(l)
  BY <1>2, <1>3 DEF Guarded, Held, LiveGroup, NoGroup
<1> QED
  BY <1>1, <1>3, <1>4 DEF Stays

\* A child p of t exits or is killed.
LEMMA GroupMoves ==
    ASSUME TypeInv, NEW t \in Tasks, Guarded(w[t]), NEW p \in Children,
           NEW g \in Groups, g.leader \in Held, g.leader = "killed" => ~g.kin,
           w[t].grp[p].leader \in Held
    PROVE  LET l == [w[t] EXCEPT !.grp = [w[t].grp EXCEPT ![p] = g]]
           IN  l \in Locals /\ SameWarm(l, w[t]) /\ Guarded(l)
<1> DEFINE f == [w[t].grp EXCEPT ![p] = g]
           l == [w[t] EXCEPT !.grp = f]
<1>0. w[t] \in Locals /\ w[t].grp \in [Children -> Groups]
  BY LocalsTyped DEF TypeInv, TypeOK
<1>1. /\ f \in [Children -> Groups] /\ f[p] = g
      /\ \A q \in Children \ {p} : f[q] = w[t].grp[q]
  BY <1>0
<1> HIDE DEF f
<1>2. l \in Locals /\ SameWarm(l, w[t]) /\ l.grp = f /\ l.armed = w[t].armed
  BY <1>0, <1>1 DEF Locals, SameWarm
<1> HIDE DEF l
<1>3. Guarded(l)
  BY <1>1, <1>2 DEF Guarded, Held
<1> QED
  BY <1>2, <1>3 DEF l, f

\* The wait for a child p of t returns.
LEMMA WaitedMoves ==
    ASSUME TypeInv, NEW t \in Tasks, Guarded(w[t]), NEW p \in Children,
           w[t].grp[p].leader \in Held
    PROVE  LET l == Waited(w[t], p)
           IN  l \in Locals /\ SameWarm(l, w[t]) /\ Guarded(l)
<1> DEFINE leader == IF w[t].grp[p].leader = "killed" THEN "none" ELSE "waited"
           f == [w[t].grp EXCEPT ![p].leader = leader]
           l == [w[t] EXCEPT !.grp = f, !.armed = Disarmed(w[t], p)]
<1>0. /\ w[t] \in Locals /\ w[t].grp \in [Children -> Groups]
      /\ w[t].armed \in SUBSET Children /\ Disarmed(w[t], p) \in SUBSET Children
  BY LocalsTyped DEF TypeInv, TypeOK, Disarmed
<1>1. /\ leader \in Leaders \ Held
      /\ leader = "none" => w[t].grp[p].leader = "killed"
  BY DEF Leaders, Held
<1> HIDE DEF leader
<1>2. /\ f \in [Children -> Groups]
      /\ f[p].leader = leader /\ f[p].kin = w[t].grp[p].kin
      /\ \A q \in Children \ {p} : f[q] = w[t].grp[q]
  BY <1>0, <1>1 DEF Groups
<1>3. Waited(w[t], p) = l
  BY DEF Waited, leader
<1> HIDE DEF f
<1>4. /\ l \in Locals /\ SameWarm(l, w[t]) /\ l.grp = f
      /\ l.armed = w[t].armed \ {p}
  BY <1>0, <1>2 DEF Locals, SameWarm, Disarmed
<1> HIDE DEF l
<1>5. Guarded(l)
  <2>1. ASSUME NEW q \in Children
        PROVE  /\ q \in l.armed <=> l.grp[q].leader \in Held
               /\ l.grp[q].leader \in {"none", "killed"} => ~l.grp[q].kin
    <3>1. CASE q = p
      BY <1>1, <1>2, <1>4, <3>1 DEF Guarded, Held
    <3>2. CASE q # p
      BY <1>2, <1>4, <3>2 DEF Guarded
    <3> QED
      BY <3>1, <3>2
  <2> QED
    BY <2>1 DEF Guarded
<1> QED
  BY <1>3, <1>4, <1>5

\* jq's wait returns, with its exit or with an error, and the check goes on.
LEMMA JqMoves ==
    ASSUME TypeInv, GroupInv, NEW t \in Tasks, NEW verdict \in {"ok", "fail"},
           w[t].grp["jq"].leader \in Held,
           w' = [w EXCEPT ![t] = [Waited(w[t], "jq") EXCEPT !.jq = verdict]],
           UNCHANGED <<process, dirs, ghosts>>
    PROVE  Stays(t)
<1> DEFINE m == Waited(w[t], "jq")
           n == [m EXCEPT !.jq = verdict]
<1>1. m \in Locals /\ SameWarm(m, w[t]) /\ Guarded(m)
  BY WaitedMoves DEF GroupInv, Children
<1> HIDE DEF m
<1>2. n \in Locals /\ SameWarm(n, m) /\ n.grp = m.grp /\ n.armed = m.armed
  BY <1>1 DEF Locals, SameWarm
<1>3. w' = [w EXCEPT ![t] = n]
  BY DEF m
<1> HIDE DEF n
<1>4. SameWarm(n, w[t]) /\ Guarded(n)
  BY <1>1, <1>2 DEF SameWarm, Guarded
<1> QED
  BY <1>2, <1>3, <1>4 DEF Stays

LEMMA ChildMoves ==
    ASSUME TypeInv, GroupInv, NEW t \in Tasks,
           \/ SpawnStep(t) \/ StepWait(t) \/ StepTimeout(t)
           \/ SpawnShow(t) \/ ShowWaitJq(t) \/ ShowWaitNix(t) \/ ShowTimeout(t)
           \/ WaitFails(t)
           \/ \E p \in Children : ChildEnds(t, p)
    PROVE  Running(t) /\ (Stays(t) \/ Returns(t))
<1> DEFINE l == w[t]
<1>0. /\ w \in [Tasks -> Locals] /\ l \in Locals /\ Guarded(l)
      /\ SameWarm(l, l)
      /\ l.grp \in [Children -> Groups] /\ l.armed \subseteq Children
      /\ l.jq \in {"none", "ok", "fail"}
  BY LocalsTyped DEF TypeInv, TypeOK, GroupInv, SameWarm
<1> USE DEF Children
<1>1. ASSUME NEW good \in BOOLEAN, l.grp["main"].leader \in Held,
             Finish(t, Waited(l, "main"), good)
      PROVE  Returns(t)
  BY <1>0, <1>1, WaitedMoves DEF Returns
<1>2. \A p \in Children : Exited(l, p) \/ InWait(l, p) => l.grp[p].leader \in Held
  BY DEF Exited, InWait, Held
<1>3. CASE SpawnStep(t)
  <2>1. CASE Finish(t, l, FALSE)
    BY <1>0, <1>3, <2>1 DEF SpawnStep, NotSpawned, Returns
  <2>2. CASE Started(t, {"main"}) /\ UNCHANGED <<process, dirs, ghosts>>
    BY <1>3, <2>2, StartMoves DEF SpawnStep, NotSpawned
  <2> QED
    BY <1>3, <2>1, <2>2 DEF SpawnStep, ghosts
<1>4. CASE SpawnShow(t)
  <2>0. Running(t) /\ l.grp = NoGroups
    BY <1>4 DEF SpawnShow, NotSpawned
  <2>1. CASE Finish(t, l, FALSE)
    BY <1>0, <2>0, <2>1 DEF Returns
  <2>2. CASE Started(t, Children) /\ UNCHANGED <<process, dirs, ghosts>>
    BY <2>0, <2>2, StartMoves
  <2>3. CASE Finish(t, [l EXCEPT !.grp["main"] = LiveGroup, !.armed = {"main"}], FALSE)
    <3> DEFINE m == [l EXCEPT !.grp["main"] = LiveGroup, !.armed = {"main"}]
               g == [NoGroups EXCEPT !["main"] = LiveGroup]
    <3>1. m = [l EXCEPT !.grp = g, !.armed = {"main"}]
      BY <1>0, <2>0
    <3>2. /\ g \in [Children -> Groups] /\ g["main"] = LiveGroup
          /\ g["jq"] = NoGroup
      BY DEF NoGroups, NoGroup, LiveGroup, Groups, Leaders
    <3> HIDE DEF g
    <3>3. m \in Locals /\ SameWarm(m, l) /\ m.grp = g /\ m.armed = {"main"}
      BY <1>0, <3>1, <3>2 DEF Locals, SameWarm
    <3> HIDE DEF m
    <3>4. Guarded(m)
      BY <3>2, <3>3 DEF Guarded, Held, LiveGroup, NoGroup
    <3>5. Finish(t, m, FALSE)
      BY <2>3 DEF m
    <3> QED
      BY <2>0, <3>3, <3>4, <3>5 DEF Returns
  <2> QED
    BY <1>4, <2>1, <2>2, <2>3 DEF SpawnShow, ghosts
<1>5. CASE StepWait(t)
  <2>1. /\ Running(t) /\ l.grp["main"].leader \in Held
        /\ Finish(t, Waited(l, "main"), l.grp["main"].leader = "ok")
    BY <1>2, <1>5 DEF StepWait, Held
  <2> QED
    BY <1>1, <2>1
<1>6. CASE ShowWaitNix(t)
  <2>1. /\ Running(t) /\ l.grp["main"].leader \in Held
        /\ Finish(t, Waited(l, "main"), Verdict(l))
    BY <1>2, <1>6 DEF ShowWaitNix, At, Running, Steps
  <2> QED
    BY <1>1, <2>1 DEF Verdict
<1>7. CASE StepTimeout(t)
  <2> DEFINE m == [l EXCEPT !.grp = [l.grp EXCEPT !["main"] = KilledGroup]]
  <2>1. w' = [w EXCEPT ![t] = m]
    BY <1>0, <1>7 DEF StepTimeout
  <2>2. /\ KilledGroup \in Groups /\ KilledGroup.leader = "killed" /\ ~KilledGroup.kin
        /\ l.grp["main"].leader \in Held
    BY <1>2, <1>7 DEF KilledGroup, Groups, Leaders, StepTimeout
  <2>3. m \in Locals /\ SameWarm(m, l) /\ Guarded(m)
    BY <1>0, <2>2, GroupMoves DEF Held
  <2> HIDE DEF m
  <2> QED
    BY <1>7, <2>1, <2>3 DEF Stays, StepTimeout
<1>8. CASE ShowWaitJq(t)
  <2>1. /\ Running(t) /\ l.grp["jq"].leader \in Held
        /\ l.grp["jq"].leader \in {"ok", "fail"}
        /\ w' = [w EXCEPT ![t] = [Waited(l, "jq") EXCEPT !.jq = l.grp["jq"].leader]]
        /\ UNCHANGED <<process, dirs, ghosts>>
    BY <1>2, <1>8 DEF ShowWaitJq, Exited, At, Running, Steps
  <2> QED
    BY <2>1, JqMoves
<1>9. CASE ShowTimeout(t)
  BY <1>0, <1>9 DEF ShowTimeout, At, Running, Steps, Returns
<1>10. CASE WaitFails(t)
  <2>1. CASE /\ Running(t) /\ InWait(l, "main")
             /\ Finish(t, Waited(l, "main"), FALSE)
    BY <1>1, <1>2, <2>1
  <2>2. CASE /\ At(t, "show") /\ InWait(l, "jq")
             /\ w' = [w EXCEPT ![t] = [Waited(l, "jq") EXCEPT !.jq = "fail"]]
             /\ UNCHANGED <<process, dirs, ghosts>>
    BY <1>2, <2>2, JqMoves DEF At, Running, Steps
  <2> QED
    BY <1>10, <2>1, <2>2 DEF WaitFails
<1>11. ASSUME NEW p \in Children, ChildEnds(t, p)
      PROVE  Running(t) /\ Stays(t)
  <2>1. PICK st \in {"ok", "fail"} : w' = [w EXCEPT ![t].grp[p].leader = st]
    BY <1>11 DEF ChildEnds
  <2> DEFINE g == [l.grp[p] EXCEPT !.leader = st]
             m == [l EXCEPT !.grp = [l.grp EXCEPT ![p] = g]]
  <2>2. w' = [w EXCEPT ![t] = m]
    BY <1>0, <2>1
  <2>3. l.grp[p].leader = "live"
    BY <1>11 DEF ChildEnds
  <2>4. g \in Groups /\ g.leader = st
    BY <1>0 DEF Groups, Leaders
  <2> HIDE DEF g
  <2>5. m \in Locals /\ SameWarm(m, l) /\ Guarded(m)
    BY <1>0, <2>3, <2>4, GroupMoves DEF Held
  <2> HIDE DEF m
  <2>6. Running(t)
    BY <2>3 DEF GroupInv, NoGroups, NoGroup
  <2> QED
    BY <1>11, <2>2, <2>5, <2>6 DEF Stays, ChildEnds
<1> QED
  BY <1>3, <1>4, <1>5, <1>6, <1>7, <1>8, <1>9, <1>10, <1>11

LEMMA StayMoves ==
    ASSUME TypeInv, NEW t \in Tasks, Running(t), Stays(t)
    PROVE  /\ Moves(t) /\ attempt' = attempt
           /\ w'[t].pc = w[t].pc /\ w'[t].slug = w[t].slug /\ Guarded(w'[t])
           /\ UNCHANGED <<process, dirs, ghosts>>
<1>1. PICK l \in Locals : /\ w' = [w EXCEPT ![t] = l]
                          /\ SameWarm(l, w[t]) /\ Guarded(l)
                          /\ UNCHANGED <<process, dirs, ghosts>>
  BY DEF Stays
<1>2. w'[t] = l
  BY <1>1 DEF TypeInv, TypeOK
<1>3. attempt' = attempt
  BY <1>1 DEF process
<1>4. Moves(t)
  BY <1>1, <1>3, SetMoves DEF TypeInv, Located, Running, SameWarm, Pre, Steps
<1> QED
  BY <1>1, <1>2, <1>3, <1>4 DEF SameWarm

LEMMA MovesLocated ==
    ASSUME TypeInv, NEW t \in Tasks, Moves(t), now' = now, attempt' \in Nat,
           attempt' >= attempt
    PROVE  w' \in [Tasks -> Locals] /\ Located'
<1>0. w \in [Tasks -> Locals] /\ attempt \in Nat
  BY Constants DEF TypeInv, TypeOK
<1>1. w' \in [Tasks -> Locals] /\ \A u \in Tasks \ {t} : w'[u] = w[u]
  BY <1>0 DEF Moves
<1>2. ASSUME NEW u \in Tasks
      PROVE  /\ w'[u].pc # "idle" => w'[u].tip \in Tips
             /\ w'[u].pc \in {"lock"} \cup Pre \cup Steps => w'[u].mark \in 0..now'
             /\ w'[u].pc \in Steps => w'[u].slug \in Slugs /\ w'[u].slug[2] < attempt'
  <2>1. CASE u = t
    BY <2>1 DEF Moves
  <2>2. CASE u # t
    <3>1. w'[u] = w[u]
      BY <1>1, <2>2
    <3>2. w[u].slug \in Slugs => w[u].slug[2] \in Nat
      BY Constants DEF Slugs
    <3> QED
      BY <1>0, <3>1, <3>2 DEF TypeInv, Located, Running
  <2> QED
    BY <2>1, <2>2
<1> QED
  BY <1>1, <1>2 DEF Located, Running

\* The number of tasks that may still take a number.
LEMMA TriggerRoom ==
    ASSUME TypeInv, NEW t \in Tasks, NEW k \in Tips, Trigger(t, k), Moves(t)
    PROVE  Room'
<1>0. /\ w \in [Tasks -> Locals] /\ attempt \in Nat /\ attempt' = attempt
      /\ attempt + Cardinality(Holding) < MaxAttempts
  BY Constants DEF TypeInv, TypeOK, Trigger, process
<1>1. IsFiniteSet(Waiting) /\ IsFiniteSet(Holding) /\ Waiting \subseteq Holding
  BY Constants, FS_Subset DEF Waiting, Holding
<1>2. Waiting' \subseteq Waiting \cup {t}
  BY <1>0 DEF Moves, Waiting
<1>3. /\ IsFiniteSet(Waiting \cup {t})
      /\ Cardinality(Waiting \cup {t}) <= Cardinality(Waiting) + 1
  <2>1. Cardinality(Waiting) \in Nat
    BY <1>1, FS_CardinalityType
  <2>2. /\ IsFiniteSet(Waiting \cup {t})
        /\ Cardinality(Waiting \cup {t}) =
             IF t \in Waiting THEN Cardinality(Waiting) ELSE Cardinality(Waiting) + 1
    BY <1>1, FS_AddElement
  <2> QED
    BY <2>1, <2>2
<1>4. /\ Cardinality(Waiting) \in Nat /\ Cardinality(Holding) \in Nat
      /\ Cardinality(Waiting') \in Nat /\ Cardinality(Waiting \cup {t}) \in Nat
      /\ Cardinality(Waiting') <= Cardinality(Waiting \cup {t})
      /\ Cardinality(Waiting) <= Cardinality(Holding)
  BY <1>1, <1>2, <1>3, FS_Subset, FS_CardinalityType
<1> QED
  BY <1>0, <1>3, <1>4, Constants DEF Room

LEMMA SetupRoom ==
    ASSUME TypeInv, NEW t \in Tasks, Setup(t), Moves(t)
    PROVE  Room'
<1>0. /\ w \in [Tasks -> Locals] /\ attempt \in Nat /\ attempt' = attempt + 1
      /\ w[t].pc = "setup" /\ w'[t].pc \in {"seed", "clear"}
  BY Constants DEF TypeInv, TypeOK, Setup, Goto, Locals
<1>1. IsFiniteSet(Waiting) /\ t \in Waiting
  BY <1>0, Constants, FS_Subset DEF Waiting
<1>2. Waiting' \subseteq Waiting \ {t}
  BY <1>0 DEF Moves, Waiting
<1>3. /\ IsFiniteSet(Waiting \ {t})
      /\ Cardinality(Waiting \ {t}) = Cardinality(Waiting) - 1
  BY <1>1, FS_RemoveElement
<1>4. /\ Cardinality(Waiting) \in Nat /\ Cardinality(Waiting') \in Nat
      /\ Cardinality(Waiting') <= Cardinality(Waiting \ {t})
  BY <1>1, <1>2, <1>3, FS_Subset, FS_CardinalityType
<1> QED
  BY <1>0, <1>3, <1>4, Constants DEF Room, TypeInv

LEMMA OtherRoom ==
    ASSUME TypeInv, NEW t \in Tasks, Moves(t), attempt' = attempt,
           t \in Waiting \/ w'[t].pc \notin {"branch", "tip", "clock", "lock", "mint", "setup"}
    PROVE  Room'
<1>1. Waiting' \subseteq Waiting
  BY DEF TypeInv, TypeOK, Moves, Waiting
<1> QED
  BY <1>1, RoomKept

\* One step of one task: where it goes, and that the state keeps its type.
LEMMA TaskType ==
    ASSUME TypeInv, GroupInv, NEW t \in Tasks,
           \/ \E k \in Tips : Trigger(t, k)
           \/ TaskStep(t) \/ WaitFails(t)
           \/ \E p \in Children : ChildEnds(t, p)
    PROVE  Moves(t) /\ TypeInv'
<1> USE Constants
<1>0. /\ w \in [Tasks -> Locals] /\ now \in 0..MaxTime /\ attempt \in 0..MaxAttempts
      /\ seen \in [Tips -> 0..MaxTime \cup {None}] /\ restarts \in 0..MaxRestarts
      /\ reached \in [Tips -> 0..MaxTime \cup {None}]
      /\ dirs \in [Slugs -> Tasks \cup {"old", "none"}]
      /\ escaped \subseteq Leaders /\ misfire \in BOOLEAN
  BY DEF TypeInv, TypeOK
<1>1. CASE \/ \E k \in Tips : Trigger(t, k)
           \/ Lookup(t) \/ ReadClock(t) \/ MintToken(t)
  <2>1. Moves(t)
    BY <1>1, EarlyMoves
  <2>2. /\ UNCHANGED <<now, attempt, restarts, seen, dirs, reached>>
        /\ UNCHANGED <<escaped, misfire>>
    BY <1>1 DEF Trigger, Lookup, ReadClock, MintToken, process, ghosts
  <2>3. w' \in [Tasks -> Locals] /\ Located'
    BY <1>0, <2>1, <2>2, MovesLocated
  <2>4. Room'
    <3>1. CASE \E k \in Tips : Trigger(t, k)
      BY <2>1, <3>1, TriggerRoom
    <3>2. CASE Lookup(t) \/ ReadClock(t) \/ MintToken(t)
      <4>1. t \in Waiting
        BY <3>2 DEF Lookup, ReadClock, MintToken, At, Waiting
      <4> QED
        BY <2>1, <2>2, <4>1, OtherRoom
    <3> QED
      BY <1>1, <3>1, <3>2
  <2>5. escaped' \subseteq Leaders /\ misfire' \in BOOLEAN
    BY <1>0, <2>2
  <2> QED
    BY <1>0, <2>1, <2>2, <2>3, <2>4, <2>5 DEF TypeInv, TypeOK
<1>2. CASE CheckAndMark(t) \/ Clear(t)
  <2>1. Moves(t)
    BY <1>2, EarlyMoves
  <2>2. /\ UNCHANGED <<now, attempt, restarts, dirs, reached>>
        /\ UNCHANGED <<escaped, misfire>>
    BY <1>2 DEF CheckAndMark, Clear, ghosts
  <2>3. w' \in [Tasks -> Locals] /\ Located'
    BY <1>0, <2>1, <2>2, MovesLocated
  <2>4. t \in Waiting \/ w'[t].pc \notin {"branch", "tip", "clock", "lock", "mint", "setup"}
    BY <1>0, <1>2, IdleTyped DEF CheckAndMark, Clear, Return, Waiting
  <2>5. Room'
    BY <2>1, <2>2, <2>4, OtherRoom
  <2>6. seen' \in [Tips -> 0..MaxTime \cup {None}]
    <3>1. CASE CheckAndMark(t)
      <4>1. w[t].mark \in 0..MaxTime
        BY <1>0, <3>1 DEF CheckAndMark, TypeInv, Located
      <4>2. Retained(w[t].mark) \in [Tips -> 0..MaxTime \cup {None}]
        BY <1>0 DEF Retained
      <4> QED
        BY <3>1, <4>1, <4>2 DEF CheckAndMark
    <3>2. CASE Clear(t)
      BY <1>0, <3>2 DEF Clear
    <3> QED
      BY <1>2, <3>1, <3>2
  <2>7. escaped' \subseteq Leaders /\ misfire' \in BOOLEAN
    BY <1>0, <2>2
  <2> QED
    BY <1>0, <2>1, <2>2, <2>3, <2>5, <2>6, <2>7 DEF TypeInv, TypeOK
<1>3. CASE Setup(t)
  <2> DEFINE s == Slug(w[t].tip, attempt)
  <2>1. /\ Moves(t) /\ attempt < MaxAttempts /\ s \in Slugs
        /\ w[t].mark \in 0..now
    BY <1>3, SetupMoves
  <2>2. /\ UNCHANGED <<now, restarts, seen>> /\ attempt' = attempt + 1
        /\ UNCHANGED <<escaped, misfire>>
    BY <1>3 DEF Setup
  <2>3. w' \in [Tasks -> Locals] /\ Located'
    BY <1>0, <2>1, <2>2, MovesLocated
  <2>4. Room'
    BY <1>3, <2>1, SetupRoom
  <2>5. dirs' \in [Slugs -> Tasks \cup {"old", "none"}]
    BY <1>0, <1>3, <2>1 DEF Setup
  <2>6. reached' \in [Tips -> 0..MaxTime \cup {None}]
    BY <1>0, <1>3, <2>1 DEF Setup
  <2>7. escaped' \subseteq Leaders /\ misfire' \in BOOLEAN
    BY <1>0, <2>2
  <2> QED
    BY <1>0, <2>1, <2>2, <2>3, <2>4, <2>5, <2>6, <2>7 DEF TypeInv, TypeOK
<1>4. CASE \/ SpawnStep(t) \/ StepWait(t) \/ StepTimeout(t)
           \/ SpawnShow(t) \/ ShowWaitJq(t) \/ ShowWaitNix(t) \/ ShowTimeout(t)
           \/ WaitFails(t)
           \/ \E p \in Children : ChildEnds(t, p)
  <2>1. Running(t) /\ (Stays(t) \/ Returns(t))
    BY <1>4, ChildMoves
  <2>2. CASE Stays(t)
    <3>1. /\ Moves(t) /\ UNCHANGED <<now, attempt, restarts, seen, dirs, reached>>
          /\ UNCHANGED <<escaped, misfire>> /\ w'[t].pc \in Steps
      BY <2>1, <2>2, StayMoves DEF process, ghosts, Running
    <3>2. w' \in [Tasks -> Locals] /\ Located'
      BY <1>0, <3>1, MovesLocated
    <3>3. Room'
      BY <3>1, OtherRoom DEF Steps
    <3>4. escaped' \subseteq Leaders /\ misfire' \in BOOLEAN
      BY <1>0, <3>1
    <3> QED
      BY <1>0, <3>1, <3>2, <3>3, <3>4 DEF TypeInv, TypeOK
  <2>3. CASE Returns(t)
    <3>0. PICK l \in Locals, good \in BOOLEAN :
             Finish(t, l, good) /\ SameWarm(l, w[t]) /\ Guarded(l)
      BY <2>3 DEF Returns
    <3>1. /\ Moves(t)
          /\ w'[t].pc \notin Steps => RemoveDir(w[t].slug)
          /\ w'[t].pc \in Steps => dirs' = dirs
          /\ w'[t].pc \in Steps \cup {"idle"}
      BY <2>1, <3>0, FinishMoves DEF SameWarm
    <3>2. UNCHANGED <<now, attempt, restarts, seen, reached>>
      BY <3>0 DEF Finish, process
    <3>3. w' \in [Tasks -> Locals] /\ Located'
      BY <1>0, <3>1, <3>2, MovesLocated
    <3>4. Room'
      BY <3>1, <3>2, OtherRoom DEF Steps
    <3>5. dirs' \in [Slugs -> Tasks \cup {"old", "none"}]
      BY <1>0, <3>1 DEF RemoveDir
    <3>6. escaped' \subseteq Leaders /\ misfire' \in BOOLEAN
      <4>1. Escapes(l) \subseteq Leaders
        BY LocalsTyped DEF Escapes, LeftAlive, Groups
      <4>2. escaped' \subseteq Leaders
        BY <1>0, <3>0, <4>1 DEF Finish
      <4>3. misfire' \in BOOLEAN
        BY Zenon, <1>0, <3>0 DEF Finish
      <4> QED
        BY <4>2, <4>3
    <3> QED
      BY <1>0, <3>1, <3>2, <3>3, <3>4, <3>5, <3>6 DEF TypeInv, TypeOK
  <2> QED
    BY <2>1, <2>2, <2>3
<1> QED
  BY <1>1, <1>2, <1>3, <1>4 DEF TaskStep

\* A restart and a tick.
LEMMA ProcessType ==
    ASSUME TypeInv, Tick \/ Shutdown \/ Crash
    PROVE  TypeInv'
<1> USE Constants
<1>0. /\ w \in [Tasks -> Locals] /\ now \in 0..MaxTime /\ attempt \in 0..MaxAttempts
      /\ restarts \in 0..MaxRestarts
      /\ dirs \in [Slugs -> Tasks \cup {"old", "none"}]
      /\ escaped \subseteq Leaders /\ misfire \in BOOLEAN
  BY DEF TypeInv, TypeOK
<1>1. CASE Tick
  <2>1. /\ now' \in 0..MaxTime /\ now' = now + 1
        /\ UNCHANGED <<w, seen, attempt, restarts, dirs, reached>>
        /\ UNCHANGED <<escaped, misfire>>
    BY <1>0, <1>1 DEF Tick, ghosts
  <2>2. Located'
    BY <1>0, <2>1 DEF TypeInv, Located, Running
  <2>3. Room'
    BY <2>1 DEF TypeInv, Room, Waiting
  <2>4. escaped' \subseteq Leaders /\ misfire' \in BOOLEAN
    BY <1>0, <2>1
  <2> QED
    BY <1>0, <2>1, <2>2, <2>3, <2>4 DEF TypeInv, TypeOK
<1>2. CASE Shutdown \/ Crash
  <2>1. NewProcess
    BY <1>2 DEF Shutdown, Crash
  <2>2. /\ w' \in [Tasks -> Locals] /\ \A t \in Tasks : w'[t] = Idle
        /\ now' \in 0..MaxTime /\ attempt' = 0 /\ restarts' \in 0..MaxRestarts
    BY <1>0, <2>1, IdleTyped DEF NewProcess
  <2>3. /\ seen' \in [Tips -> 0..MaxTime \cup {None}]
        /\ reached' \in [Tips -> 0..MaxTime \cup {None}]
    BY <2>1 DEF NewProcess, NoMarks
  <2>4. dirs' \in [Slugs -> Tasks \cup {"old", "none"}]
    BY <1>0, <1>2 DEF Shutdown, Crash
  <2>5. escaped' \subseteq Leaders /\ misfire' \in BOOLEAN
    <3>1. \A t \in Tasks : Escapes(w[t]) \subseteq Leaders
      BY <1>0, LocalsTyped DEF Escapes, LeftAlive, Groups
    <3>2. escaped' \subseteq Leaders
      BY <1>0, <1>2, <3>1 DEF Shutdown, Crash
    <3>3. misfire' \in BOOLEAN
      BY Zenon, <1>0, <1>2 DEF Shutdown, Crash
    <3> QED
      BY <3>2, <3>3
  <2>6. Located'
    BY <2>2, IdleTyped DEF Located, Running, Pre, Steps
  <2>7. Room'
    <3>1. Waiting' = {}
      BY <2>2, IdleTyped DEF Waiting
    <3> QED
      BY <2>2, <3>1, FS_EmptySet DEF Room
  <2> QED
    BY <2>2, <2>3, <2>4, <2>5, <2>6, <2>7 DEF TypeInv, TypeOK
<1> QED
  BY <1>1, <1>2
-----------------------------------------------------------------------------
(* Process groups and directories. *)

WarmInv == TypeInv /\ GroupInv /\ GroupsContained /\ WorkdirsOwned

\* A step that returns, or a future that is dropped, lets go of no group whose wait
\* has not returned, of none that was killed, and kills no reaped one.
LEMMA ReturnContained ==
    ASSUME NEW l \in Locals, Guarded(l)
    PROVE  Escapes(l) \subseteq {"waited"} /\ ~Misfires(l)
<1>1. /\ l.armed \subseteq Children
      /\ \A p \in Children : l.grp[p].leader \in Leaders
  BY LocalsTyped DEF Groups
<1>2. \A p \in LeftAlive(l) : l.grp[p].leader = "waited"
  BY <1>1 DEF Guarded, LeftAlive, Leaders, Held
<1>3. ~Misfires(l)
  BY <1>1 DEF Guarded, Misfires, Held
<1> QED
  BY <1>2, <1>3 DEF Escapes

LEMMA TaskGroups ==
    ASSUME TypeInv, GroupInv, GroupsContained, NEW t \in Tasks,
           \/ \E k \in Tips : Trigger(t, k)
           \/ TaskStep(t) \/ WaitFails(t)
           \/ \E p \in Children : ChildEnds(t, p)
    PROVE  GroupInv' /\ GroupsContained'
<1>0. w \in [Tasks -> Locals] /\ Moves(t)
  BY TaskType DEF TypeInv, TypeOK
<1>1. \A u \in Tasks \ {t} : w'[u] = w[u]
  BY <1>0 DEF Moves
<1>2. CASE ~Running(t)
  <2>1. \/ \E k \in Tips : Trigger(t, k)
        \/ Lookup(t) \/ ReadClock(t) \/ CheckAndMark(t) \/ Clear(t)
        \/ MintToken(t) \/ Setup(t)
    BY <1>2, ChildMoves DEF TaskStep
  <2>2. UNCHANGED <<escaped, misfire>>
    BY <2>1 DEF Trigger, Lookup, ReadClock, CheckAndMark, Clear, MintToken, Setup, ghosts
  <2>3. /\ w'[t].grp = NoGroups
        /\ w'[t].armed = {} \/ w'[t].armed = w[t].armed
    BY <1>0, <1>2, <2>1 DEF Trigger, Lookup, ReadClock, CheckAndMark, Clear, MintToken,
       Setup, Goto, Return, Idle, Locals, GroupInv
  <2>4. Guarded(w'[t])
    BY <1>2, <2>3 DEF Guarded, GroupInv, NoGroups, NoGroup, Held
  <2> QED
    BY <1>1, <2>2, <2>3, <2>4 DEF GroupInv, GroupsContained, Running
<1>3. CASE Running(t)
  <2>1. Stays(t) \/ Returns(t)
    BY <1>3, ChildMoves DEF TaskStep, Trigger, Lookup, ReadClock, CheckAndMark, Clear,
       MintToken, Setup, At, Running, Steps
  <2>2. CASE Stays(t)
    <3>1. /\ w'[t].pc = w[t].pc /\ Guarded(w'[t]) /\ UNCHANGED <<escaped, misfire>>
      BY <1>3, <2>2, StayMoves DEF ghosts
    <3> QED
      BY <1>1, <1>3, <3>1 DEF GroupInv, GroupsContained, Running
  <2>3. CASE Returns(t)
    <3>1. PICK l \in Locals, good \in BOOLEAN :
             Finish(t, l, good) /\ SameWarm(l, w[t]) /\ Guarded(l)
      BY <2>3 DEF Returns
    <3>2. w'[t].grp = NoGroups /\ w'[t].armed = {}
      BY <1>3, <3>1, FinishMoves DEF SameWarm
    <3>3. escaped' \subseteq {"waited"} /\ ~misfire'
      BY <3>1, ReturnContained DEF Finish, GroupsContained
    <3>4. Guarded(w'[t])
      BY <3>2 DEF Guarded, NoGroups, NoGroup, Held
    <3> QED
      BY <1>1, <3>2, <3>3, <3>4 DEF GroupInv, GroupsContained, Running
  <2> QED
    BY <2>1, <2>2, <2>3
<1> QED
  BY <1>2, <1>3

LEMMA TaskDirs ==
    ASSUME TypeInv, GroupInv, WorkdirsOwned, NEW t \in Tasks,
           \/ \E k \in Tips : Trigger(t, k)
           \/ TaskStep(t) \/ WaitFails(t)
           \/ \E p \in Children : ChildEnds(t, p)
    PROVE  WorkdirsOwned'
<1>0. /\ w \in [Tasks -> Locals] /\ Moves(t)
      /\ dirs \in [Slugs -> Tasks \cup {"old", "none"}]
      /\ \A u \in Tasks : Running(u) => w[u].slug \in Slugs /\ w[u].slug[2] < attempt
      /\ attempt \in Nat
  BY TaskType, Constants DEF TypeInv, TypeOK, Located
<1>1. \A u \in Tasks \ {t} : w'[u] = w[u]
  BY <1>0 DEF Moves
<1>2. CASE Setup(t)
  <2> DEFINE s == Slug(w[t].tip, attempt)
  <2>1. s \in Slugs /\ s[2] = attempt /\ w[t].pc = "setup"
    BY <1>2, SetupMoves DEF Slug, Setup
  <2>2. ~Running(t) /\ \A u \in Tasks : Running(u) => w[u].slug # s
    BY <1>0, <2>1 DEF Running, Steps
  <2>3. CASE dirs' = [dirs EXCEPT ![s] = t] /\ w'[t].pc = "seed" /\ w'[t].slug = s
    <3>1. \A u \in Tasks : Running(u)' => dirs'[w'[u].slug] = u
      BY <1>0, <1>1, <2>1, <2>2, <2>3 DEF WorkdirsOwned, Running, Steps
    <3>2. ASSUME NEW r \in Slugs, dirs'[r] \notin {"old", "none"}
          PROVE  \E u \in Tasks : dirs'[r] = u /\ Running(u)' /\ w'[u].slug = r
      <4>1. CASE r = s
        BY <1>0, <2>1, <2>3, <4>1 DEF Running, Steps
      <4>2. CASE r # s
        BY <1>0, <1>1, <2>1, <2>2, <2>3, <3>2, <4>2 DEF WorkdirsOwned, Running
      <4> QED
        BY <4>1, <4>2
    <3> QED
      BY <3>1, <3>2 DEF WorkdirsOwned
  <2>4. CASE /\ \E d \in {dirs[s], "none", "old"} : dirs' = [dirs EXCEPT ![s] = d]
             /\ w'[t].pc = "clear"
    <3>1. \A u \in Tasks : Running(u)' => dirs'[w'[u].slug] = u
      BY <1>0, <1>1, <2>1, <2>2, <2>4 DEF WorkdirsOwned, Running, Steps
    <3>2. ASSUME NEW r \in Slugs, dirs'[r] \notin {"old", "none"}
          PROVE  \E u \in Tasks : dirs'[r] = u /\ Running(u)' /\ w'[u].slug = r
      BY <1>0, <1>1, <2>1, <2>2, <2>4, <3>2 DEF WorkdirsOwned, Running
    <3> QED
      BY <3>1, <3>2 DEF WorkdirsOwned
  <2> QED
    <3>1. CASE Goto(t, "clear")
      BY <1>0, <1>2, <2>4, <3>1 DEF Setup, Goto, Locals
    <3>2. CASE ~Goto(t, "clear")
      BY <1>0, <1>2, <2>3, <3>2 DEF Setup, Locals
    <3> QED
      BY <3>1, <3>2
<1>3. CASE ~Running(t) /\ ~Setup(t)
  <2>1. \/ \E k \in Tips : Trigger(t, k)
        \/ Lookup(t) \/ ReadClock(t) \/ CheckAndMark(t) \/ Clear(t) \/ MintToken(t)
    BY <1>3, ChildMoves DEF TaskStep
  <2>2. dirs' = dirs
    BY <2>1 DEF Trigger, Lookup, ReadClock, CheckAndMark, Clear, MintToken
  <2>3. w'[t].pc \notin Steps
    BY <1>0, <2>1 DEF Trigger, Lookup, ReadClock, CheckAndMark, Clear, MintToken,
       Goto, Return, Idle, Locals, Steps
  <2> QED
    BY <1>1, <1>3, <2>2, <2>3 DEF WorkdirsOwned, Running
<1>4. CASE Running(t) /\ ~Setup(t)
  <2>1. Stays(t) \/ Returns(t)
    BY <1>4, ChildMoves DEF TaskStep, Trigger, Lookup, ReadClock, CheckAndMark, Clear,
       MintToken, At, Running, Steps
  <2>2. CASE Stays(t)
    <3>1. w'[t].pc = w[t].pc /\ w'[t].slug = w[t].slug /\ dirs' = dirs
      BY <1>4, <2>2, StayMoves
    <3> QED
      BY <1>1, <3>1 DEF WorkdirsOwned, Running
  <2>3. CASE Returns(t)
    <3>1. /\ w'[t].pc \notin Steps =>
                \E left \in {"none", "old"} : dirs' = [dirs EXCEPT ![w[t].slug] = left]
          /\ w'[t].pc \in Steps => dirs' = dirs /\ w'[t].slug = w[t].slug
      BY <1>4, <2>3, FinishMoves DEF Returns, SameWarm, RemoveDir
    <3>2. CASE w'[t].pc \in Steps
      BY <1>1, <1>4, <3>1, <3>2 DEF WorkdirsOwned, Running
    <3>3. CASE w'[t].pc \notin Steps
      <4>1. \A u \in Tasks : Running(u)' =>
              u # t /\ w[u].slug # w[t].slug /\ Running(u) /\ w'[u] = w[u]
        BY <1>1, <1>4, <3>3 DEF WorkdirsOwned, Running
      <4>2. \A u \in Tasks : Running(u)' => dirs'[w'[u].slug] = u
        BY <1>0, <3>1, <3>3, <4>1 DEF WorkdirsOwned
      <4>3. ASSUME NEW r \in Slugs, dirs'[r] \notin {"old", "none"}
            PROVE  \E u \in Tasks : dirs'[r] = u /\ Running(u)' /\ w'[u].slug = r
        <5>1. r # w[t].slug /\ dirs'[r] = dirs[r]
          BY <1>0, <1>4, <3>1, <3>3, <4>3
        <5>2. PICK u \in Tasks : dirs[r] = u /\ Running(u) /\ w[u].slug = r
          BY <4>3, <5>1 DEF WorkdirsOwned
        <5>3. u # t /\ w'[u] = w[u]
          BY <1>1, <5>1, <5>2
        <5> QED
          BY <5>1, <5>2, <5>3 DEF Running
      <4> QED
        BY <4>2, <4>3 DEF WorkdirsOwned
    <3> QED
      BY <3>2, <3>3
  <2> QED
    BY <2>1, <2>2, <2>3
<1> QED
  BY <1>2, <1>3, <1>4

LEMMA ProcessGroups ==
    ASSUME WarmInv, Tick \/ Shutdown \/ Crash
    PROVE  GroupInv' /\ GroupsContained' /\ WorkdirsOwned'
<1>0. /\ w \in [Tasks -> Locals] /\ dirs \in [Slugs -> Tasks \cup {"old", "none"}]
      /\ GroupInv /\ GroupsContained /\ WorkdirsOwned
  BY DEF WarmInv, TypeInv, TypeOK
<1>1. CASE Tick
  BY <1>0, <1>1 DEF Tick, ghosts, GroupInv, Running, Guarded, GroupsContained, WorkdirsOwned
<1>2. CASE Shutdown \/ Crash
  <2>1. \A t \in Tasks : w'[t] = Idle
    BY <1>2 DEF Shutdown, Crash, NewProcess
  <2>2. GroupInv'
    <3>1. Idle.grp = NoGroups /\ Idle.armed = {} /\ Idle.pc = "idle"
      BY DEF Idle
    <3>2. \A p \in Children : NoGroups[p].leader = "none" /\ NoGroups[p].kin = FALSE
      BY DEF NoGroups, NoGroup
    <3>3. Guarded(Idle)
      BY <3>1, <3>2 DEF Guarded, Held
    <3> QED
      BY <2>1, <3>1, <3>3 DEF GroupInv, Guarded
  <2>3. GroupsContained'
    <3>1. CASE Crash
      BY <1>0, <3>1 DEF Crash, GroupsContained
    <3>2. CASE Shutdown
      <4>1. \A t \in Tasks : Escapes(w[t]) \subseteq {"waited"} /\ ~Misfires(w[t])
        BY <1>0, ReturnContained DEF GroupInv
      <4> QED
        <5>1. UNION {Escapes(w[t]) : t \in Tasks} \subseteq {"waited"}
          BY <4>1
        <5>2. escaped' = escaped \cup UNION {Escapes(w[t]) : t \in Tasks}
          BY <3>2 DEF Shutdown
        <5>3. ~misfire'
          BY Zenon, <1>0, <3>2, <4>1 DEF Shutdown, GroupsContained
        <5> HIDE DEF Escapes
        <5> QED
          BY <1>0, <5>1, <5>2, <5>3 DEF GroupsContained
    <3> QED
      BY <1>2, <3>1, <3>2
  <2>4. \A t \in Tasks : ~Running(t)'
    BY <2>1 DEF Running, Steps, Idle
  <2>5. \A s \in Slugs : dirs'[s] \in {"old", "none"}
    <3>1. CASE Crash
      BY <3>1 DEF Crash
    <3>2. CASE Shutdown
      BY <1>0, <3>2 DEF Shutdown, WorkdirsOwned
    <3> QED
      BY <1>2, <3>1, <3>2
  <2> QED
    BY <2>2, <2>3, <2>4, <2>5 DEF WorkdirsOwned
<1> QED
  BY <1>1, <1>2

LEMMA WarmInit == Init => WarmInv
<1> SUFFICES ASSUME Init PROVE WarmInv
  OBVIOUS
<1>1. GroupInv /\ GroupsContained /\ WorkdirsOwned
  BY DEF Init, GroupInv, Guarded, Idle, NoGroups, NoGroup, Held, GroupsContained,
     WorkdirsOwned, Running, Steps
<1> QED
  BY <1>1, InitType DEF WarmInv

LEMMA WarmStep ==
    ASSUME WarmInv, [Next]_vars
    PROVE  WarmInv'
<1>1. CASE Tick \/ Shutdown \/ Crash
  BY <1>1, ProcessType, ProcessGroups DEF WarmInv
<1>2. ASSUME NEW t \in Tasks,
             \/ \E k \in Tips : Trigger(t, k)
             \/ TaskStep(t) \/ WaitFails(t)
             \/ \E p \in Children : ChildEnds(t, p)
      PROVE  WarmInv'
  BY <1>2, TaskType, TaskGroups, TaskDirs DEF WarmInv
<1>3. CASE UNCHANGED vars
  BY <1>3 DEF vars, WarmInv, TypeInv, TypeOK, Located, Room, Waiting, GroupInv, Guarded,
     Running, GroupsContained, WorkdirsOwned
<1> QED
  BY <1>1, <1>2, <1>3 DEF Next

LEMMA WarmInvariant == Spec => []WarmInv
BY WarmInit, WarmStep, PTL DEF Spec

(* Every local of a warm task, mark, directory and ghost keeps its type; in
   particular no task takes more numbers than there are. *)
THEOREM WarmerTypeCorrect == Spec => []TypeOK
<1>1. WarmInv => TypeOK
  BY DEF WarmInv, TypeInv
<1> QED
  BY WarmInvariant, <1>1, PTL

(* No warm removes or overwrites the directory of another, and a netrc lies on
   disk only under a running warm, after a crash or after a removal that failed
   (WarmWorkdir). *)
THEOREM WarmerWorkdirsOwned == Spec => []WorkdirsOwned
<1>1. WarmInv => WorkdirsOwned
  BY DEF WarmInv
<1> QED
  BY WarmInvariant, <1>1, PTL

(* While the daemon lives, the only groups that outlive the task that let go of
   them are those of leaders whose wait returned in time: a timeout, a spawn that
   fails half way and a shutdown leave no process behind, and no kill goes to a pid
   that was reaped.  A guard is armed exactly from the spawn until the wait returns,
   and a killed group is empty (KillGroupOnDrop, run_step,
   closure_is_host_build_safe). *)
THEOREM WarmerGroupsContained == Spec => []GroupsContained
<1>1. WarmInv => GroupsContained
  BY DEF WarmInv
<1> QED
  BY WarmInvariant, <1>1, PTL
-----------------------------------------------------------------------------
(* Single flight, for at most two permits and a TTL that is not 0 (with 0 every
   two marks are a TTL apart). *)

\* Two permits: no three tasks are beyond try_acquire.
AtMostTwo ==
    \A t, u, v \in Tasks :
        t # u /\ t # v /\ u # v =>
            w[t].pc = "idle" \/ w[u].pc = "idle" \/ w[v].pc = "idle"

\* The mark of t has had its time, and nobody holds an older reading of the
\* clock with which it could mark the tip again.
Outlived(t) ==
    /\ now >= w[t].mark + TTL
    /\ seen[w[t].tip] = None \/ seen[w[t].tip] >= w[t].mark + TTL
    /\ \A u \in Tasks : u # t /\ w[u].pc = "lock" => w[u].mark >= w[t].mark + TTL

\* A warm in flight is marked, unless its mark is outlived.
Marked == \A t \in Tasks : InFlight(t) => seen[w[t].tip] = w[t].mark \/ Outlived(t)

FlightInv == AtMostTwo /\ Marked /\ MarksApart

\* A task that goes on or ends, on the same warm and without a new reading of
\* the clock.
Continues(t) ==
    /\ w' = [w EXCEPT ![t] = w'[t]]
    /\ w'[t].pc # "idle" => w[t].pc # "idle"
    /\ w'[t].pc # "lock"
    /\ InFlight(t)' => InFlight(t) /\ w'[t].tip = w[t].tip /\ w'[t].mark = w[t].mark

LEMMA ContinuesFlight ==
    ASSUME TypeInv, FlightInv, NEW t \in Tasks, Continues(t), now' = now, seen' = seen
    PROVE  FlightInv'
<1>0. /\ w \in [Tasks -> Locals]
      /\ \A u \in Tasks \ {t} : w'[u] = w[u]
      /\ \A u \in Tasks : w'[u].pc # "idle" => w[u].pc # "idle"
      /\ \A u \in Tasks : w'[u].pc = "lock" => w'[u] = w[u]
      /\ \A u \in Tasks : InFlight(u)' => InFlight(u) /\ w'[u].tip = w[u].tip
                                                      /\ w'[u].mark = w[u].mark
  BY DEF TypeInv, TypeOK, Continues, InFlight
<1>1. AtMostTwo'
  BY <1>0 DEF FlightInv, AtMostTwo
<1>2. MarksApart'
  BY <1>0 DEF FlightInv, MarksApart
<1>3. Marked'
  <2> SUFFICES ASSUME NEW u \in Tasks, InFlight(u)',
                      seen'[w'[u].tip] # w'[u].mark
               PROVE  Outlived(u)'
    BY DEF Marked
  <2>1. Outlived(u) /\ w'[u].tip = w[u].tip /\ w'[u].mark = w[u].mark
    BY <1>0 DEF FlightInv, Marked
  <2> QED
    BY <1>0, <2>1 DEF Outlived
<1> QED
  BY <1>1, <1>2, <1>3 DEF FlightInv

\* Two holders are more than one.
LEMMA TwoHolders ==
    ASSUME TypeInv, NEW u \in Tasks, NEW v \in Tasks, u # v,
           w[u].pc # "idle", w[v].pc # "idle"
    PROVE  Cardinality(Holding) \in Nat /\ Cardinality(Holding) >= 2
<1>1. IsFiniteSet(Holding)
  BY Constants, FS_Subset DEF Holding
<1>2. Cardinality(Holding) \in Nat
  BY <1>1, FS_CardinalityType
<1>3. IsFiniteSet({u}) /\ Cardinality({u}) = 1
  BY FS_Singleton
<1>4. Cardinality({u} \cup {v}) = 2
  <2>1. Cardinality({u} \cup {v}) =
          IF v \in {u} THEN Cardinality({u}) ELSE Cardinality({u}) + 1
    BY <1>3, FS_AddElement
  <2> QED
    BY <1>3, <2>1
<1>5. {u} \cup {v} \in SUBSET Holding
  BY DEF Holding
<1>6. Cardinality({u} \cup {v}) <= Cardinality(Holding)
  BY <1>1, <1>5, FS_Subset
<1> QED
  BY <1>2, <1>4, <1>6

LEMMA TriggerFlight ==
    ASSUME TypeInv, FlightInv, Permits <= 2, NEW t \in Tasks, NEW k \in Tips, Trigger(t, k)
    PROVE  FlightInv'
<1>0. /\ w \in [Tasks -> Locals] /\ w[t].pc = "idle"
      /\ \A u \in Tasks \ {t} : w'[u] = w[u]
      /\ w'[t].pc = "branch" /\ now' = now /\ seen' = seen
  BY DEF TypeInv, TypeOK, Trigger, At, process, Locals
<1>1. \A u, v \in Tasks : u # v => w[u].pc = "idle" \/ w[v].pc = "idle"
  <2> SUFFICES ASSUME NEW u \in Tasks, NEW v \in Tasks, u # v,
                      w[u].pc # "idle", w[v].pc # "idle"
               PROVE  FALSE
    OBVIOUS
  <2>1. Cardinality(Holding) \in Nat /\ Cardinality(Holding) >= 2
    BY TwoHolders
  <2> QED
    BY <2>1, Constants DEF Trigger
<1>2. AtMostTwo'
  BY <1>0, <1>1 DEF AtMostTwo
<1>3. MarksApart'
  BY <1>0 DEF FlightInv, MarksApart, InFlight, Pre, Steps
<1>4. Marked'
  BY <1>0 DEF FlightInv, Marked, Outlived, InFlight, Pre, Steps
<1> QED
  BY <1>2, <1>3, <1>4 DEF FlightInv

LEMMA ReadClockFlight ==
    ASSUME TypeInv, FlightInv, NEW t \in Tasks, ReadClock(t)
    PROVE  FlightInv'
<1>0. /\ w \in [Tasks -> Locals] /\ w[t].pc = "clock"
      /\ \A u \in Tasks \ {t} : w'[u] = w[u]
      /\ w'[t].pc = "lock" /\ w'[t].mark = now /\ now' = now /\ seen' = seen
  BY DEF TypeInv, TypeOK, ReadClock, At, process, Locals
<1>1. AtMostTwo'
  BY <1>0 DEF FlightInv, AtMostTwo
<1>2. MarksApart'
  BY <1>0 DEF FlightInv, MarksApart, InFlight, Pre, Steps
<1>3. Marked'
  BY <1>0 DEF FlightInv, Marked, Outlived, InFlight, Pre, Steps
<1> QED
  BY <1>1, <1>2, <1>3 DEF FlightInv

\* What is known of another warm in flight when t is at the coalescer.
LEMMA MarkFlight ==
    ASSUME TypeInv, FlightInv, TTL > 0, NEW t \in Tasks, CheckAndMark(t)
    PROVE  FlightInv'
<1> DEFINE at == w[t].mark
           kept == Retained(at)
<1>0. /\ w \in [Tasks -> Locals] /\ w[t].pc = "lock" /\ at \in 0..now
      /\ w[t].tip \in Tips /\ now \in Nat /\ now' = now
      /\ seen \in [Tips -> 0..MaxTime \cup {None}] /\ ~InFlight(t)
      /\ \A u \in Tasks \ {t} : w'[u] = w[u]
  BY Constants DEF TypeInv, TypeOK, Located, CheckAndMark, InFlight, Pre, Steps, Goto, Return
<1>1. ASSUME NEW u \in Tasks, InFlight(u)
      PROVE  /\ u # t /\ w[u].tip \in Tips /\ w[u].mark \in Nat
             /\ \A v \in Tasks : v # u /\ v # t => w[v].pc = "idle"
  BY <1>0, <1>1, Constants DEF FlightInv, AtMostTwo, InFlight, TypeInv, Located, Pre, Steps
<1>2. ASSUME NEW u \in Tasks, InFlight(u)
      PROVE  \/ kept[w[u].tip] = w[u].mark
             \/ /\ now >= w[u].mark + TTL
                /\ kept[w[u].tip] = None \/ kept[w[u].tip] >= w[u].mark + TTL
                /\ kept[w[u].tip] = None => at >= w[u].mark + TTL
  <2>1. w[u].tip \in Tips /\ w[u].mark \in Nat /\ u # t
    BY <1>1, <1>2
  <2>2. kept[w[u].tip] = IF Fresh(seen[w[u].tip], at) THEN seen[w[u].tip] ELSE None
    BY <2>1 DEF Retained
  <2>3. CASE seen[w[u].tip] = w[u].mark
    BY <1>0, <2>1, <2>2, <2>3, Constants DEF Fresh, None
  <2>4. CASE Outlived(u)
    <3>1. /\ now >= w[u].mark + TTL /\ at >= w[u].mark + TTL
          /\ seen[w[u].tip] = None \/ seen[w[u].tip] >= w[u].mark + TTL
      BY <1>0, <2>1, <2>4 DEF Outlived
    <3> QED
      BY <2>2, <3>1
  <2> QED
    BY <1>2, <2>3, <2>4 DEF FlightInv, Marked
<1>3. kept \in [Tips -> 0..MaxTime \cup {None}]
  BY <1>0 DEF Retained
<1> HIDE DEF kept, at
<1>4. CASE kept[w[t].tip] # None
  <2>1. seen' = kept /\ w'[t] = Idle
    BY <1>0, <1>4 DEF CheckAndMark, Return, kept, at
  <2>2. /\ w'[t].pc = "idle" /\ ~InFlight(t)'
        /\ \A u \in Tasks : InFlight(u)' => InFlight(u) /\ u # t /\ w'[u] = w[u]
    BY <1>0, <2>1 DEF Idle, InFlight, Pre, Steps
  <2>3. AtMostTwo'
    BY <1>0, <2>2 DEF FlightInv, AtMostTwo
  <2>4. MarksApart'
    BY <2>2 DEF FlightInv, MarksApart
  <2>5. Marked'
    <3> SUFFICES ASSUME NEW u \in Tasks, InFlight(u)',
                        seen'[w'[u].tip] # w'[u].mark
                 PROVE  Outlived(u)'
      BY DEF Marked
    <3>1. InFlight(u) /\ u # t /\ w'[u] = w[u]
      BY <2>2
    <3>2. /\ now >= w[u].mark + TTL
          /\ kept[w[u].tip] = None \/ kept[w[u].tip] >= w[u].mark + TTL
      BY <1>2, <2>1, <3>1
    <3>3. \A v \in Tasks : v # u => w'[v].pc = "idle"
      BY <1>0, <1>1, <2>2, <3>1
    <3> QED
      BY <1>0, <2>1, <3>1, <3>2, <3>3 DEF Outlived
  <2> QED
    BY <2>3, <2>4, <2>5 DEF FlightInv
<1>5. CASE kept[w[t].tip] = None
  <2>1. /\ seen' = [kept EXCEPT ![w[t].tip] = at]
        /\ w'[t].pc = "mint" /\ w'[t].tip = w[t].tip /\ w'[t].mark = at
    BY <1>0, <1>5 DEF CheckAndMark, Goto, kept, at, Locals
  <2>2. \A u \in Tasks : InFlight(u)' /\ u # t => InFlight(u) /\ w'[u] = w[u]
    BY <1>0 DEF InFlight
  <2>3. AtMostTwo'
    BY <1>0, <2>1 DEF FlightInv, AtMostTwo
  <2>4. ASSUME NEW u \in Tasks, InFlight(u), w[u].tip = w[t].tip
        PROVE  at >= w[u].mark + TTL
    BY <1>1, <1>2, <1>5, <2>4 DEF None
  <2>5. MarksApart'
    <3> SUFFICES ASSUME NEW u \in Tasks, NEW v \in Tasks, u # v, InFlight(u)',
                        InFlight(v)', w'[u].tip = w'[v].tip
                 PROVE  w'[u].mark - w'[v].mark >= TTL \/ w'[v].mark - w'[u].mark >= TTL
      BY DEF MarksApart
    <3>1. CASE u = t
      BY <1>0, <1>1, <2>1, <2>2, <2>4, <3>1, Constants DEF at
    <3>2. CASE v = t
      BY <1>0, <1>1, <2>1, <2>2, <2>4, <3>2, Constants DEF at
    <3>3. CASE u # t /\ v # t
      BY <2>2, <3>3 DEF FlightInv, MarksApart
    <3> QED
      BY <3>1, <3>2, <3>3
  <2>6. Marked'
    <3> SUFFICES ASSUME NEW u \in Tasks, InFlight(u)',
                        seen'[w'[u].tip] # w'[u].mark
                 PROVE  Outlived(u)'
      BY DEF Marked
    <3>1. u # t /\ InFlight(u) /\ w'[u] = w[u]
      BY <1>0, <1>3, <2>1, <2>2
    <3>2. w[u].tip \in Tips /\ \A v \in Tasks : v # u => w'[v].pc # "lock"
      BY <1>0, <1>1, <2>1, <3>1
    <3>3. CASE w[u].tip = w[t].tip
      <4>1. seen'[w[u].tip] = at /\ at >= w[u].mark + TTL /\ now >= w[u].mark + TTL
        BY <1>0, <1>1, <1>3, <2>1, <2>4, <3>1, <3>3, Constants DEF at
      <4> QED
        BY <1>0, <3>1, <3>2, <4>1 DEF Outlived
    <3>4. CASE w[u].tip # w[t].tip
      <4>1. seen'[w[u].tip] = kept[w[u].tip]
        BY <1>3, <2>1, <3>2, <3>4
      <4>2. /\ now >= w[u].mark + TTL
            /\ kept[w[u].tip] = None \/ kept[w[u].tip] >= w[u].mark + TTL
        BY <1>2, <3>1, <4>1
      <4> QED
        BY <1>0, <3>1, <3>2, <4>1, <4>2 DEF Outlived
    <3> QED
      BY <3>3, <3>4
  <2> QED
    BY <2>3, <2>5, <2>6 DEF FlightInv
<1> QED
  BY <1>4, <1>5

LEMMA ClearFlight ==
    ASSUME TypeInv, FlightInv, TTL > 0, NEW t \in Tasks, Clear(t)
    PROVE  FlightInv'
<1>0. /\ w \in [Tasks -> Locals] /\ InFlight(t) /\ now' = now /\ now \in Nat
      /\ w[t].tip \in Tips /\ w[t].mark \in Nat
      /\ seen \in [Tips -> 0..MaxTime \cup {None}]
      /\ seen' = [seen EXCEPT ![w[t].tip] = IF @ = w[t].mark THEN None ELSE @]
      /\ \A u \in Tasks \ {t} : w'[u] = w[u]
      /\ w'[t].pc = "idle"
  BY Constants DEF TypeInv, TypeOK, Located, Clear, At, InFlight, Pre, Steps, Return, Idle
<1>1. \A u \in Tasks : InFlight(u)' => InFlight(u) /\ u # t /\ w'[u] = w[u]
  BY <1>0 DEF InFlight, Pre, Steps
<1>2. AtMostTwo'
  BY <1>0 DEF FlightInv, AtMostTwo
<1>3. MarksApart'
  BY <1>1 DEF FlightInv, MarksApart
<1>4. Marked'
  <2> SUFFICES ASSUME NEW u \in Tasks, InFlight(u)',
                      seen'[w'[u].tip] # w'[u].mark
               PROVE  Outlived(u)'
    BY DEF Marked
  <2>1. InFlight(u) /\ u # t /\ w'[u] = w[u] /\ w[u].tip \in Tips /\ w[u].mark \in Nat
    BY <1>1, Constants DEF TypeInv, TypeOK, Located, InFlight, Pre, Steps
  <2>2. \A v \in Tasks : v # u => w'[v].pc = "idle"
    BY <1>0, <2>1 DEF FlightInv, AtMostTwo, InFlight, Pre, Steps
  <2>3. w[u].tip = w[t].tip => w[u].mark # w[t].mark
    BY <1>0, <2>1, Constants DEF FlightInv, MarksApart
  <2>4. seen[w[u].tip] # w[u].mark
    BY <1>0, <2>1, <2>3
  <2>5. /\ now >= w[u].mark + TTL
        /\ seen[w[u].tip] = None \/ seen[w[u].tip] >= w[u].mark + TTL
    BY <2>1, <2>4 DEF FlightInv, Marked, Outlived
  <2>6. seen'[w[u].tip] \in {seen[w[u].tip], None}
    BY <1>0, <2>1
  <2> QED
    BY <1>0, <2>1, <2>2, <2>5, <2>6 DEF Outlived
<1> QED
  BY <1>2, <1>3, <1>4 DEF FlightInv

\* Every other step of a task goes on with the same warm.
LEMMA OtherFlight ==
    ASSUME TypeInv, GroupInv, FlightInv, NEW t \in Tasks,
           \/ Lookup(t) \/ MintToken(t) \/ Setup(t)
           \/ SpawnStep(t) \/ StepWait(t) \/ StepTimeout(t)
           \/ SpawnShow(t) \/ ShowWaitJq(t) \/ ShowWaitNix(t) \/ ShowTimeout(t)
           \/ WaitFails(t)
           \/ \E p \in Children : ChildEnds(t, p)
    PROVE  FlightInv'
<1>0. w \in [Tasks -> Locals] /\ Moves(t)
  BY TaskType DEF TypeInv, TypeOK, TaskStep
<1>1. CASE Lookup(t) \/ MintToken(t) \/ Setup(t)
  <2>1. now' = now /\ seen' = seen
    BY <1>1 DEF Lookup, MintToken, Setup, process
  <2>2. Continues(t)
    BY <1>0, <1>1 DEF Continues, Moves, Lookup, MintToken, Setup, At, Goto, Return, Idle,
       Locals, InFlight, Pre, Steps
  <2> QED
    BY <2>1, <2>2, ContinuesFlight
<1>2. CASE ~(Lookup(t) \/ MintToken(t) \/ Setup(t))
  <2>1. Running(t) /\ (Stays(t) \/ Returns(t))
    BY <1>2, ChildMoves
  <2>2. CASE Stays(t)
    <3>1. PICK l \in Locals : /\ w' = [w EXCEPT ![t] = l] /\ SameWarm(l, w[t])
                              /\ UNCHANGED <<process, dirs, ghosts>>
      BY <2>2 DEF Stays
    <3>2. w'[t] = l
      BY <1>0, <3>1
    <3>3. Continues(t)
      BY <1>0, <2>1, <3>1, <3>2 DEF Continues, Moves, SameWarm, InFlight, Running, Steps
    <3> QED
      BY <3>1, <3>3, ContinuesFlight DEF process
  <2>3. CASE Returns(t)
    <3>1. PICK l \in Locals, good \in BOOLEAN : Finish(t, l, good) /\ SameWarm(l, w[t])
      BY <2>3 DEF Returns
    <3>2. /\ UNCHANGED <<now, seen>>
          /\ w'[t] = Idle \/ (w'[t].tip = l.tip /\ w'[t].mark = l.mark)
      BY <1>0, <3>1 DEF Finish, process, Return, Idle
    <3>3. w'[t].pc \in Steps \cup {"idle"}
      BY <2>1, <3>1, FinishMoves DEF SameWarm
    <3>4. Continues(t)
      BY <1>0, <2>1, <3>1, <3>2, <3>3 DEF Continues, Moves, SameWarm, InFlight, Running,
         Pre, Steps, Idle
    <3> QED
      BY <3>2, <3>4, ContinuesFlight
  <2> QED
    BY <2>1, <2>2, <2>3
<1> QED
  BY <1>1, <1>2

LEMMA FlightStep ==
    ASSUME WarmInv, FlightInv, Permits <= 2, TTL > 0, [Next]_vars
    PROVE  FlightInv'
<1>0. TypeInv /\ GroupInv
  BY DEF WarmInv
<1>1. ASSUME NEW t \in Tasks,
             \/ \E k \in Tips : Trigger(t, k)
             \/ TaskStep(t) \/ WaitFails(t)
             \/ \E p \in Children : ChildEnds(t, p)
      PROVE  FlightInv'
  BY <1>0, <1>1, TriggerFlight, ReadClockFlight, MarkFlight, ClearFlight, OtherFlight
     DEF TaskStep
<1>2. CASE Tick
  <2>1. now' = now + 1 /\ UNCHANGED <<w, seen>> /\ now \in Nat
    BY <1>0, <1>2, Constants DEF Tick, TypeInv, TypeOK
  <2>2. ASSUME NEW t \in Tasks, InFlight(t), Outlived(t) PROVE Outlived(t)'
    <3>1. w[t].mark \in Nat
      BY <1>0, <2>2, Constants DEF TypeInv, TypeOK, Located, InFlight
    <3> QED
      BY <2>1, <2>2, <3>1, Constants DEF Outlived
  <2> QED
    BY <2>1, <2>2 DEF FlightInv, AtMostTwo, MarksApart, Marked, InFlight
<1>3. CASE Shutdown \/ Crash
  <2>1. \A t \in Tasks : w'[t].pc = "idle"
    BY <1>3 DEF Shutdown, Crash, NewProcess, Idle
  <2> QED
    BY <2>1 DEF FlightInv, AtMostTwo, MarksApart, Marked, InFlight, Pre, Steps
<1>4. CASE UNCHANGED vars
  BY <1>4 DEF vars, FlightInv, AtMostTwo, MarksApart, Marked, Outlived, InFlight
<1> QED
  BY <1>1, <1>2, <1>3, <1>4 DEF Next

LEMMA FlightInit == Init => FlightInv
BY DEF Init, FlightInv, AtMostTwo, MarksApart, Marked, InFlight, Idle, Pre, Steps

LEMMA ZeroApart == TypeInv /\ TTL = 0 => MarksApart
<1> SUFFICES ASSUME TypeInv, TTL = 0, NEW t \in Tasks, NEW u \in Tasks,
                    InFlight(t), InFlight(u)
             PROVE  w[t].mark - w[u].mark >= TTL \/ w[u].mark - w[t].mark >= TTL
  BY DEF MarksApart
<1>1. w[t].mark \in Nat /\ w[u].mark \in Nat
  BY Constants DEF TypeInv, TypeOK, Located, InFlight
<1> QED
  BY <1>1

(* With at most two permits, two warms of one tip are in flight together only
   when their marks are a TTL apart, for any number of tips and tasks, late
   failures, expired marks and clocks read before the lock (Coalescer). *)
THEOREM WarmerSingleFlight == Spec => []SingleFlight
<1>1. CASE ~(Permits <= 2)
  <2>1. SingleFlight
    BY <1>1 DEF SingleFlight
  <2> QED
    BY <2>1, PTL
<1>2. CASE Permits <= 2 /\ TTL = 0
  <2>1. WarmInv => SingleFlight
    BY <1>2, ZeroApart DEF WarmInv, SingleFlight
  <2> QED
    BY <2>1, WarmInvariant, PTL
<1>3. CASE Permits <= 2 /\ TTL > 0
  <2>1. WarmInv /\ FlightInv /\ [Next]_vars => FlightInv'
    BY <1>3, FlightStep
  <2>2. FlightInv => SingleFlight
    BY DEF FlightInv, SingleFlight
  <2> QED
    BY <2>1, <2>2, FlightInit, WarmInvariant, PTL DEF Spec
<1> QED
  BY <1>1, <1>2, <1>3, Constants

-----------------------------------------------------------------------------
(* Marks and what they stand for, for any number of permits.  A mark that is
   fresh now was fresh at every earlier reading of the clock, so no retain has
   taken it away: the warm it belongs to still finds it. *)

Ripe(t) == InFlight(t) /\ Fresh(w[t].mark, now)

MarkInv ==
    \* a warm whose mark is fresh finds it in the coalescer,
    /\ \A t \in Tasks : Ripe(t) => seen[w[t].tip] = w[t].mark
    \* and is the only such warm of its tip;
    /\ \A t, u \in Tasks : t # u /\ Ripe(t) /\ Ripe(u) => w[t].tip # w[u].tip
    \* the mark of a warm that came to the build stays for its time,
    /\ \A k \in Tips : Fresh(reached[k], now) => seen[k] = reached[k]
    \* which turns the next one away;
    /\ \A t \in Tasks : Ripe(t) /\ w[t].pc \in Pre => ~Fresh(reached[w[t].tip], now)
    \* a warm that runs has come to the build.
    /\ \A t \in Tasks : Ripe(t) /\ Running(t) => reached[w[t].tip] = w[t].mark
    /\ FreshMarkBacked

LEMMA FreshIs ==
    ASSUME NEW m \in 0..MaxTime \cup {None}, NEW a \in Nat, Fresh(m, a)
    PROVE  /\ m \in Nat /\ TTL > 0
           /\ \A b \in Nat : b <= a => Fresh(m, b)
           /\ \A r \in 0..MaxTime \cup {None} : ~Fresh(r, a) => ~(r > m)
  BY Constants DEF Fresh, None

\* What the parts say, for a step.
LEMMA MarkTypes ==
    ASSUME TypeInv
    PROVE  /\ w \in [Tasks -> Locals] /\ now \in Nat /\ now \in 0..MaxTime
           /\ seen \in [Tips -> 0..MaxTime \cup {None}]
           /\ reached \in [Tips -> 0..MaxTime \cup {None}]
           /\ \A t \in Tasks : InFlight(t) \/ w[t].pc = "lock" =>
                /\ w[t].tip \in Tips /\ w[t].mark \in 0..now /\ w[t].mark \in Nat
                /\ w[t].mark \in 0..MaxTime \cup {None}
  BY Constants DEF TypeInv, TypeOK, Located, InFlight, Pre, Steps

\* A task goes on with its warm, or ends it having come to the build.
LEMMA ContinuesMarks ==
    ASSUME TypeInv, MarkInv, NEW t \in Tasks, w' = [w EXCEPT ![t] = w'[t]],
           UNCHANGED <<now, seen, reached>>,
           \/ /\ ~InFlight(t) /\ ~InFlight(t)'
           \/ /\ InFlight(t) /\ InFlight(t)' /\ (Running(t)' <=> Running(t))
              /\ w'[t].tip = w[t].tip /\ w'[t].mark = w[t].mark
           \/ Running(t) /\ ~InFlight(t)'
    PROVE  MarkInv'
<1>0. w \in [Tasks -> Locals] /\ \A u \in Tasks \ {t} : w'[u] = w[u]
  BY MarkTypes
<1>1. \A u \in Tasks : InFlight(u)' =>
         /\ InFlight(u) /\ (Running(u)' <=> Running(u))
         /\ w'[u].tip = w[u].tip /\ w'[u].mark = w[u].mark
  BY <1>0 DEF InFlight, Running
<1>2. \A u \in Tasks : Ripe(u)' => Ripe(u) /\ InFlight(u)'
  BY <1>1 DEF Ripe, Fresh
<1>3. \A u \in Tasks : Ripe(u)' /\ w'[u].pc \in Pre => w[u].pc \in Pre
  BY <1>1, <1>2 DEF InFlight, Running, Pre, Steps
<1>4. \A u \in Tasks : Ripe(u)' /\ Running(u)' => Running(u)
  BY <1>1, <1>2
<1>5. FreshMarkBacked'
  <2> SUFFICES ASSUME NEW k \in Tips, Fresh(seen[k], now), reached[k] # seen[k]
               PROVE  \E u \in Tasks : InFlight(u)' /\ w'[u].tip = k /\ w'[u].mark = seen[k]
    BY DEF FreshMarkBacked, Fresh
  <2>1. PICK u \in Tasks : InFlight(u) /\ w[u].tip = k /\ w[u].mark = seen[k]
    BY DEF MarkInv, FreshMarkBacked
  <2>2. Ripe(u) /\ ~Running(u)
    BY <2>1 DEF Ripe, MarkInv
  <2>3. InFlight(u)' /\ w'[u].tip = k /\ w'[u].mark = seen[k]
    BY <1>0, <2>1, <2>2 DEF InFlight
  <2> QED
    BY <2>3
<1>6. \A m : Fresh(m, now)' <=> Fresh(m, now)
  BY DEF Fresh
<1> QED
  BY <1>1, <1>2, <1>3, <1>4, <1>5, <1>6 DEF MarkInv, Fresh

\* Reaching the build.
LEMMA SetupMarks ==
    ASSUME TypeInv, MarkInv, NEW t \in Tasks, Setup(t)
    PROVE  MarkInv'
<1>0. /\ w \in [Tasks -> Locals] /\ w' = [w EXCEPT ![t] = w'[t]] /\ w[t].pc = "setup"
      /\ UNCHANGED <<now, seen>> /\ InFlight(t)
  BY SetupMoves, MarkTypes DEF Setup, Moves, InFlight, Pre
<1>1. CASE Goto(t, "clear") /\ UNCHANGED reached
  <2>1. w'[t].pc = "clear" /\ w'[t].tip = w[t].tip /\ w'[t].mark = w[t].mark
    BY <1>0, <1>1 DEF Goto, Locals
  <2> QED
    BY <1>0, <1>1, <2>1, ContinuesMarks DEF InFlight, Running, Pre, Steps
<1>2. CASE /\ w' = [w EXCEPT ![t].pc = "seed", ![t].slug = Slug(w[t].tip, attempt)]
           /\ reached' = [reached EXCEPT ![w[t].tip] = IF @ > w[t].mark THEN @ ELSE w[t].mark]
  <2> DEFINE k == w[t].tip
             m == w[t].mark
  <2>1. w'[t].pc = "seed" /\ w'[t].tip = k /\ w'[t].mark = m
    BY <1>0, <1>2 DEF Locals
  <2>2. /\ k \in Tips /\ m \in Nat /\ m \in 0..MaxTime \cup {None} /\ now \in Nat
        /\ reached \in [Tips -> 0..MaxTime \cup {None}]
    BY <1>0, MarkTypes
  <2>3. \A u \in Tasks : /\ InFlight(u)' <=> InFlight(u)
                         /\ w'[u].tip = w[u].tip /\ w'[u].mark = w[u].mark
                         /\ u # t => w'[u] = w[u]
                         /\ Ripe(u)' <=> Ripe(u)
    BY <1>0, <2>1 DEF InFlight, Steps, Ripe, Fresh
  <2>4. /\ \A q \in Tips : q # k => reached'[q] = reached[q]
        /\ reached'[k] = IF reached[k] > m THEN reached[k] ELSE m
    BY <1>2, <2>2
  <2>5. Ripe(t) => reached'[k] = m /\ seen[k] = m
    <3> SUFFICES ASSUME Ripe(t) PROVE reached'[k] = m /\ seen[k] = m
      OBVIOUS
    <3>1. Fresh(m, now) /\ ~Fresh(reached[k], now) /\ seen[k] = m
      BY <1>0 DEF MarkInv, Ripe, Pre
    <3>2. reached[k] \in 0..MaxTime \cup {None}
      BY <2>2
    <3>3. ~(reached[k] > m)
      BY <2>2, <3>1, <3>2, FreshIs
    <3> QED
      BY <2>4, <3>1, <3>3
  <2>6. ~Ripe(t) => (Fresh(reached'[k], now) => reached'[k] = reached[k])
    BY <1>0, <2>4 DEF Ripe
  <2> HIDE DEF k, m
  <2>7. \A q \in Tips : Fresh(reached'[q], now) => seen[q] = reached'[q]
    BY <2>4, <2>5, <2>6 DEF MarkInv
  <2>8. ASSUME NEW u \in Tasks, Ripe(u), w'[u].pc \in Pre
        PROVE  ~Fresh(reached'[w[u].tip], now)
    <3>1. u # t /\ w[u].pc \in Pre
      BY <2>1, <2>3, <2>8 DEF Pre
    <3>2. ~Fresh(reached[w[u].tip], now) /\ w[u].tip \in Tips
      BY <2>8, <3>1, MarkTypes DEF MarkInv, Ripe
    <3>3. Ripe(t) => w[u].tip # k
      BY <2>8, <3>1 DEF MarkInv, k
    <3> QED
      BY <2>4, <2>6, <3>2, <3>3
  <2>9. ASSUME NEW u \in Tasks, Ripe(u), Running(u)'
        PROVE  reached'[w[u].tip] = w[u].mark
    <3>1. CASE u = t
      BY <2>5, <2>9, <3>1 DEF k, m
    <3>2. CASE u # t
      <4>1. /\ Running(u) /\ reached[w[u].tip] = w[u].mark /\ w[u].tip \in Tips
            /\ Fresh(w[u].mark, now)
        BY <2>3, <2>9, <3>2, MarkTypes DEF MarkInv, Ripe, Running
      <4>2. CASE w[u].tip # k
        BY <2>4, <4>1, <4>2
      <4>3. CASE w[u].tip = k
        <5>1. ~Ripe(t) /\ Fresh(reached[k], now)
          BY <2>9, <3>2, <4>1, <4>3 DEF MarkInv, k
        <5>2. ~Fresh(m, now)
          BY <1>0, <5>1 DEF Ripe, m
        <5>3. reached[k] \in 0..MaxTime \cup {None} /\ reached[k] \in Nat
          BY <2>2, <5>1, FreshIs
        <5>4. ~(m > reached[k])
          BY <2>2, <5>1, <5>2, <5>3, FreshIs
        <5>5. m # reached[k]
          BY <5>1, <5>2
        <5> QED
          BY <2>2, <2>4, <4>1, <4>3, <5>3, <5>4, <5>5
      <4> QED
        BY <4>2, <4>3
    <3> QED
      BY <3>1, <3>2
  <2>10. FreshMarkBacked'
    <3> SUFFICES ASSUME NEW q \in Tips, Fresh(seen[q], now)
                 PROVE  \/ reached'[q] = seen[q]
                        \/ \E u \in Tasks : InFlight(u)' /\ w'[u].tip = q /\ w'[u].mark = seen[q]
      BY <1>0 DEF FreshMarkBacked, Fresh
    <3>1. CASE \E u \in Tasks : InFlight(u) /\ w[u].tip = q /\ w[u].mark = seen[q]
      BY <2>3, <3>1
    <3>2. CASE reached[q] = seen[q]
      <4>1. CASE q # k
        BY <2>4, <3>2, <4>1
      <4>2. CASE q = k
        <5>1. Fresh(reached[k], now) /\ reached[k] \in Nat
          BY <2>2, <3>2, <4>2, FreshIs
        <5>2. ~Ripe(t)
          BY <1>0, <5>1 DEF MarkInv, Pre, k
        <5>3. ~Fresh(m, now)
          BY <1>0, <5>2 DEF Ripe, m
        <5>4. ~(m > reached[k]) /\ m # reached[k]
          BY <2>2, <5>1, <5>3, FreshIs
        <5> QED
          BY <2>2, <2>4, <3>2, <4>2, <5>1, <5>4
      <4> QED
        BY <4>1, <4>2
    <3> QED
      BY <3>1, <3>2 DEF MarkInv, FreshMarkBacked
  <2> QED
    BY <1>0, <2>3, <2>7, <2>8, <2>9, <2>10 DEF MarkInv, Fresh
<1> QED
  BY <1>1, <1>2 DEF Setup

\* At the coalescer: what is fresh now was fresh when the task read its clock.
LEMMA CheckMarks ==
    ASSUME TypeInv, MarkInv, NEW t \in Tasks, CheckAndMark(t)
    PROVE  MarkInv'
<1> DEFINE at == w[t].mark
           k == w[t].tip
           kept == Retained(at)
<1>0. /\ w \in [Tasks -> Locals] /\ w[t].pc = "lock" /\ now \in Nat
      /\ k \in Tips /\ at \in Nat /\ at <= now
      /\ seen \in [Tips -> 0..MaxTime \cup {None}]
      /\ reached \in [Tips -> 0..MaxTime \cup {None}]
      /\ UNCHANGED <<now, reached>> /\ ~InFlight(t)
      /\ \A u \in Tasks \ {t} : w'[u] = w[u]
  BY MarkTypes DEF CheckAndMark, InFlight, Pre, Steps, Goto, Return, ghosts
<1>1. \A q \in Tips : Fresh(seen[q], now) => kept[q] = seen[q]
  BY <1>0, FreshIs DEF Retained
<1>2. \A q \in Tips : Fresh(kept[q], now) => kept[q] = seen[q]
  BY DEF Retained, Fresh
<1>3. kept \in [Tips -> 0..MaxTime \cup {None}]
  BY <1>0 DEF Retained
<1> HIDE DEF kept, at, k
<1>4. CASE kept[k] # None
  <2>1. seen' = kept /\ w'[t] = Idle
    BY <1>0, <1>4 DEF CheckAndMark, Return, kept, at, k
  <2>2. /\ ~InFlight(t)'
        /\ \A u \in Tasks : InFlight(u)' => InFlight(u) /\ u # t /\ w'[u] = w[u]
        /\ \A u \in Tasks : InFlight(u) => InFlight(u)' /\ w'[u] = w[u]
        /\ \A u \in Tasks : Ripe(u)' => Ripe(u) /\ u # t /\ w'[u] = w[u] /\ w[u].tip \in Tips
    BY <1>0, <2>1, MarkTypes DEF Idle, InFlight, Pre, Steps, Ripe, Fresh
  <2>3. \A u \in Tasks : Ripe(u)' => seen'[w'[u].tip] = w'[u].mark
    BY <1>1, <2>1, <2>2 DEF MarkInv, Ripe
  <2>4. \A q \in Tips : Fresh(reached'[q], now) => seen'[q] = reached'[q]
    BY <1>0, <1>1, <2>1 DEF MarkInv
  <2>5. FreshMarkBacked'
    BY <1>0, <1>2, <2>1, <2>2 DEF MarkInv, FreshMarkBacked, Fresh
  <2> QED
    BY <1>0, <2>2, <2>3, <2>4, <2>5 DEF MarkInv, Fresh, Running
<1>5. CASE kept[k] = None
  <2>1. /\ seen' = [kept EXCEPT ![k] = at]
        /\ w'[t].pc = "mint" /\ w'[t].tip = k /\ w'[t].mark = at
    BY <1>0, <1>5 DEF CheckAndMark, Goto, kept, at, k, Locals
  <2>2. /\ \A u \in Tasks : InFlight(u)' /\ u # t => InFlight(u) /\ w'[u] = w[u]
        /\ \A u \in Tasks : InFlight(u) => InFlight(u)' /\ w'[u] = w[u] /\ u # t
        /\ \A u \in Tasks : Ripe(u)' /\ u # t => Ripe(u) /\ w'[u] = w[u] /\ w[u].tip \in Tips
    BY <1>0, <2>1, MarkTypes DEF InFlight, Ripe, Fresh
  \* Nothing of the tip is fresh.
  <2>3. ~Fresh(seen[k], now)
    BY <1>0, <1>1, <1>5 DEF Fresh
  <2>4. ~Fresh(reached[k], now)
    BY <1>0, <2>3 DEF MarkInv
  <2>5. \A u \in Tasks : Ripe(u) => w[u].tip # k
    BY <2>3 DEF MarkInv, Ripe
  <2>6. \A q \in Tips : seen'[q] = IF q = k THEN at ELSE kept[q]
    BY <1>0, <1>3, <2>1
  <2>7. \A u \in Tasks : Ripe(u)' => seen'[w'[u].tip] = w'[u].mark
    <3>1. seen'[w'[t].tip] = w'[t].mark
      BY <1>0, <2>1, <2>6
    <3>2. ASSUME NEW u \in Tasks, Ripe(u)', u # t PROVE seen'[w'[u].tip] = w'[u].mark
      BY <1>1, <2>2, <2>5, <2>6, <3>2 DEF MarkInv, Ripe
    <3> QED
      BY <3>1, <3>2
  <2>8. \A u, v \in Tasks : u # v /\ Ripe(u)' /\ Ripe(v)' => w'[u].tip # w'[v].tip
    BY <2>1, <2>2, <2>5 DEF MarkInv
  <2>9. \A q \in Tips : Fresh(reached'[q], now) => seen'[q] = reached'[q]
    BY <1>0, <1>1, <2>4, <2>6 DEF MarkInv
  <2>10. \A u \in Tasks : Ripe(u)' /\ w'[u].pc \in Pre => ~Fresh(reached'[w'[u].tip], now)
    BY <1>0, <2>1, <2>2, <2>4 DEF MarkInv
  <2>11. \A u \in Tasks : Ripe(u)' /\ Running(u)' => reached'[w'[u].tip] = w'[u].mark
    BY <1>0, <2>1, <2>2 DEF MarkInv, Running, Steps
  <2>12. FreshMarkBacked'
    <3> SUFFICES ASSUME NEW q \in Tips, Fresh(seen'[q], now)
                 PROVE  \/ reached'[q] = seen'[q]
                        \/ \E u \in Tasks : InFlight(u)' /\ w'[u].tip = q /\ w'[u].mark = seen'[q]
      BY <1>0 DEF FreshMarkBacked, Fresh
    <3>1. CASE q = k
      <4>1. InFlight(t)' /\ w'[t].tip = q /\ w'[t].mark = seen'[q]
        BY <1>0, <2>1, <2>6, <3>1 DEF InFlight, Pre
      <4> QED
        BY <4>1
    <3>2. CASE q # k
      <4>1. seen'[q] = seen[q]
        BY <1>2, <2>6, <3>2
      <4> QED
        BY <1>0, <2>2, <4>1 DEF MarkInv, FreshMarkBacked
    <3> QED
      BY <3>1, <3>2
  <2> QED
    BY <1>0, <2>7, <2>8, <2>9, <2>10, <2>11, <2>12 DEF MarkInv, Fresh
<1> QED
  BY <1>4, <1>5

\* A warm that failed before the build takes back its own mark and no other's.
LEMMA ClearMarks ==
    ASSUME TypeInv, MarkInv, NEW t \in Tasks, Clear(t)
    PROVE  MarkInv'
<1> DEFINE k == w[t].tip
           m == w[t].mark
<1>0. /\ w \in [Tasks -> Locals] /\ InFlight(t) /\ now \in Nat /\ w[t].pc \in Pre
      /\ k \in Tips /\ m \in Nat
      /\ seen \in [Tips -> 0..MaxTime \cup {None}]
      /\ UNCHANGED <<now, reached>>
      /\ \A u \in Tasks \ {t} : w'[u] = w[u]
      /\ w'[t].pc = "idle"
  BY MarkTypes DEF Clear, At, InFlight, Pre, Steps, Return, Idle, ghosts
<1>1. \A q \in Tips : seen'[q] = IF q = k /\ seen[q] = m THEN None ELSE seen[q]
  BY <1>0 DEF Clear
<1> HIDE DEF k, m
<1>2. /\ \A u \in Tasks : InFlight(u)' => InFlight(u) /\ u # t /\ w'[u] = w[u]
      /\ \A u \in Tasks : InFlight(u) /\ u # t => InFlight(u)' /\ w'[u] = w[u]
      /\ \A u \in Tasks : Ripe(u)' => Ripe(u) /\ u # t /\ w'[u] = w[u] /\ w[u].tip \in Tips
  BY <1>0, MarkTypes DEF InFlight, Pre, Steps, Ripe, Fresh
\* If the mark is fresh and is taken back, it was this warm's alone.
<1>3. Fresh(m, now) => Ripe(t)
  BY <1>0 DEF Ripe, m
<1>4. \A u \in Tasks : Ripe(u)' => seen'[w'[u].tip] = w'[u].mark
  <2> SUFFICES ASSUME NEW u \in Tasks, Ripe(u)' PROVE seen'[w'[u].tip] = w'[u].mark
    OBVIOUS
  <2>1. /\ Ripe(u) /\ u # t /\ w'[u] = w[u] /\ w[u].tip \in Tips
        /\ seen[w[u].tip] = w[u].mark /\ Fresh(w[u].mark, now)
    BY <1>2 DEF MarkInv, Ripe
  <2>2. ~(w[u].tip = k /\ w[u].mark = m)
    BY <1>3, <2>1 DEF MarkInv, k
  <2> QED
    BY <1>1, <2>1, <2>2
<1>5. \A q \in Tips : Fresh(reached'[q], now) => seen'[q] = reached'[q]
  <2> SUFFICES ASSUME NEW q \in Tips, Fresh(reached[q], now) PROVE seen'[q] = reached[q]
    BY <1>0
  <2>1. seen[q] = reached[q]
    BY DEF MarkInv
  <2>2. ~(q = k /\ seen[q] = m)
    BY <1>0, <1>3, <2>1 DEF MarkInv, k
  <2> QED
    BY <1>1, <2>1, <2>2
<1>6. FreshMarkBacked'
  <2> SUFFICES ASSUME NEW q \in Tips, Fresh(seen'[q], now)
               PROVE  \/ reached[q] = seen'[q]
                      \/ \E u \in Tasks : InFlight(u)' /\ w'[u].tip = q /\ w'[u].mark = seen'[q]
    BY <1>0 DEF FreshMarkBacked, Fresh
  <2>1. seen'[q] = seen[q] /\ ~(q = k /\ seen[q] = m)
    BY <1>1 DEF Fresh
  <2>2. ASSUME NEW u \in Tasks, InFlight(u), w[u].tip = q, w[u].mark = seen[q]
        PROVE  InFlight(u)' /\ w'[u].tip = q /\ w'[u].mark = seen'[q]
    BY <1>2, <2>1, <2>2 DEF k, m
  <2> QED
    BY <2>1, <2>2 DEF MarkInv, FreshMarkBacked
<1> QED
  BY <1>0, <1>2, <1>4, <1>5, <1>6 DEF MarkInv, Fresh, Running

LEMMA TaskMarks ==
    ASSUME TypeInv, GroupInv, MarkInv, NEW t \in Tasks,
           \/ \E k \in Tips : Trigger(t, k)
           \/ TaskStep(t) \/ WaitFails(t)
           \/ \E p \in Children : ChildEnds(t, p)
    PROVE  MarkInv'
<1>0. /\ w \in [Tasks -> Locals] /\ Moves(t) /\ w' = [w EXCEPT ![t] = w'[t]]
  BY TaskType DEF TypeInv, TypeOK, Moves
<1>1. CASE (\E k \in Tips : Trigger(t, k)) \/ Lookup(t) \/ ReadClock(t)
  <2>1. UNCHANGED <<now, seen, reached>>
    BY <1>1 DEF Trigger, Lookup, ReadClock, process, ghosts
  <2>2. ~InFlight(t) /\ ~InFlight(t)'
    BY <1>0, <1>1 DEF Trigger, Lookup, ReadClock, At, Goto, Return, Idle, Locals,
       InFlight, Pre, Steps
  <2> QED
    BY <1>0, <2>1, <2>2, ContinuesMarks
<1>2. CASE MintToken(t)
  <2>1. UNCHANGED <<now, seen, reached>>
    BY <1>2 DEF MintToken, process, ghosts
  <2>2. /\ w[t].pc = "mint" /\ w'[t].pc \in {"setup", "clear"}
        /\ w'[t].tip = w[t].tip /\ w'[t].mark = w[t].mark
    BY <1>0, <1>2 DEF MintToken, At, Goto, Locals
  <2> QED
    BY <1>0, <2>1, <2>2, ContinuesMarks DEF InFlight, Running, Pre, Steps
<1>3. CASE \/ SpawnStep(t) \/ StepWait(t) \/ StepTimeout(t)
           \/ SpawnShow(t) \/ ShowWaitJq(t) \/ ShowWaitNix(t) \/ ShowTimeout(t)
           \/ WaitFails(t)
           \/ \E p \in Children : ChildEnds(t, p)
  <2>1. Running(t) /\ (Stays(t) \/ Returns(t))
    BY <1>3, ChildMoves
  <2>2. CASE Stays(t)
    <3>1. PICK l \in Locals : /\ w' = [w EXCEPT ![t] = l] /\ SameWarm(l, w[t])
                              /\ UNCHANGED <<process, dirs, ghosts>>
      BY <2>2 DEF Stays
    <3>2. w'[t] = l
      BY <1>0, <3>1
    <3> QED
      BY <1>0, <2>1, <3>1, <3>2, ContinuesMarks
         DEF process, ghosts, SameWarm, InFlight, Running
  <2>3. CASE Returns(t)
    <3>1. PICK l \in Locals, good \in BOOLEAN : Finish(t, l, good) /\ SameWarm(l, w[t])
      BY <2>3 DEF Returns
    <3>u. UNCHANGED <<now, seen, reached>>
      BY <3>1 DEF Finish, process
    <3>2. w'[t] = Idle \/ (w'[t].tip = l.tip /\ w'[t].mark = l.mark)
      <4>1. CASE Return(t)
        BY <1>0, <4>1 DEF Return
      <4>2. CASE ~Return(t)
        <5> DEFINE m == [Idle EXCEPT !.pc = After(l, good)[1], !.target = After(l, good)[2],
                           !.tip = l.tip, !.mark = l.mark, !.slug = l.slug]
        <5>1. w' = [w EXCEPT ![t] = m]
          BY <3>1, <4>2 DEF Finish
        <5>2. m.tip = l.tip /\ m.mark = l.mark
          BY DEF Idle
        <5> QED
          BY <1>0, <5>1, <5>2
      <4> QED
        BY <4>1, <4>2
    <3>3. w'[t].pc \in Steps \cup {"idle"}
      BY <2>1, <3>1, FinishMoves DEF SameWarm
    <3> QED
      BY <1>0, <2>1, <3>1, <3>2, <3>3, <3>u, ContinuesMarks
         DEF SameWarm, InFlight, Running, Pre, Steps, Idle
  <2> QED
    BY <2>1, <2>2, <2>3
<1> QED
  BY <1>1, <1>2, <1>3, SetupMarks, CheckMarks, ClearMarks DEF TaskStep

LEMMA MarkStep ==
    ASSUME WarmInv, MarkInv, [Next]_vars
    PROVE  MarkInv'
<1>0. TypeInv /\ GroupInv
  BY DEF WarmInv
<1>1. ASSUME NEW t \in Tasks,
             \/ \E k \in Tips : Trigger(t, k)
             \/ TaskStep(t) \/ WaitFails(t)
             \/ \E p \in Children : ChildEnds(t, p)
      PROVE  MarkInv'
  BY <1>0, <1>1, TaskMarks
<1>2. CASE Tick
  <2>1. now' = now + 1 /\ now \in Nat /\ UNCHANGED <<w, seen, reached>>
    BY <1>0, <1>2, MarkTypes DEF Tick, ghosts
  <2>2. \A m \in 0..MaxTime \cup {None} : Fresh(m, now') => Fresh(m, now)
    BY <2>1, FreshIs
  <2>3. /\ \A k \in Tips : Fresh(seen[k], now') => Fresh(seen[k], now)
        /\ \A k \in Tips : Fresh(reached[k], now') => Fresh(reached[k], now)
        /\ \A t \in Tasks : Ripe(t)' => Ripe(t) /\ w[t].tip \in Tips
    BY <1>0, <2>1, <2>2, MarkTypes DEF Ripe, InFlight
  <2>4. FreshMarkBacked'
    BY <2>1, <2>3 DEF MarkInv, FreshMarkBacked, InFlight
  <2> QED
    BY <2>1, <2>3, <2>4 DEF MarkInv, Running
<1>3. CASE Shutdown \/ Crash
  <2>1. /\ \A t \in Tasks : w'[t].pc = "idle"
        /\ \A k \in Tips : seen'[k] = None /\ reached'[k] = None
    BY <1>3 DEF Shutdown, Crash, NewProcess, Idle, NoMarks
  <2>2. \A t \in Tasks : ~Ripe(t)'
    BY <2>1 DEF Ripe, InFlight, Pre, Steps
  <2> QED
    BY <2>1, <2>2 DEF MarkInv, FreshMarkBacked, Fresh
<1>4. CASE UNCHANGED vars
  BY <1>4 DEF vars, MarkInv, FreshMarkBacked, Ripe, InFlight, Running, Fresh
<1> QED
  BY <1>1, <1>2, <1>3, <1>4 DEF Next

LEMMA MarkInit == Init => MarkInv
<1> SUFFICES ASSUME Init PROVE MarkInv
  OBVIOUS
<1>1. /\ \A t \in Tasks : w[t].pc = "idle"
      /\ \A k \in Tips : seen[k] = None /\ reached[k] = None
  BY DEF Init, Idle, NoMarks
<1>2. \A t \in Tasks : ~Ripe(t)
  BY <1>1 DEF Ripe, InFlight, Pre, Steps
<1> QED
  BY <1>1, <1>2 DEF MarkInv, FreshMarkBacked, Fresh

(* A fresh mark, which turns every event of its tip away, is that of a warm in
   flight or of one that came to the build, whatever the number of permits: a
   warm that failed before its build leaves the tip free for a retry, and does
   not free it for another's (Coalescer::check_and_mark, Coalescer::clear). *)
THEOREM WarmerFreshMarkBacked == Spec => []FreshMarkBacked
<1>1. WarmInv /\ MarkInv /\ [Next]_vars => MarkInv'
  BY MarkStep
<1>2. MarkInv => FreshMarkBacked
  BY DEF MarkInv
<1> QED
  BY <1>1, <1>2, MarkInit, WarmInvariant, PTL DEF Spec

=============================================================================
