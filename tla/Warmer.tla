-------------------------------- MODULE Warmer --------------------------------
(***************************************************************************)
(* The cache warmer (warm.rs): a claimed job may start a detached task     *)
(* that rebuilds the default branch's tip on the host.                     *)
(*                                                                         *)
(* A task takes a permit or gives up, asks GitHub twice, marks its tip in  *)
(* the coalescer, mints a token, sets up a scratch directory and runs its  *)
(* children: the seeding script, then per target the closure check (two    *)
(* children), the build and the copy.  A child leads a process group, and  *)
(* its descendants may outlive it.  What GitHub answers, how a child ends, *)
(* and whether a wait or a removal fails are free choices.                 *)
(***************************************************************************)
EXTENDS Integers, FiniteSets

CONSTANTS
    Tasks,        \* bound: warm tasks alive at once, permits or not
    Tips,         \* coalesce keys: (owner, repo, branch, sha)
    Permits,      \* warm_max_concurrency
    TTL,          \* warm_coalesce_ttl_secs
    Targets,      \* Len(WARM_TARGETS)
    MaxTime,      \* bound: on the clock
    MaxAttempts,  \* bound: NEXT_ATTEMPT, per process
    MaxRestarts   \* bound: crashes and shutdowns

ASSUME WarmerAssumption ==
    /\ IsFiniteSet(Tasks)
    /\ Permits \in Nat \ {0} /\ Targets \in Nat \ {0}
    /\ {TTL, MaxTime, MaxAttempts, MaxRestarts} \subseteq Nat

VARIABLES
    now,       \* the monotonic clock
    w,         \* w[t]: the locals of task t, see Locals
    seen,      \* Coalescer.seen: the mark of a key, None without one
    attempt,   \* NEXT_ATTEMPT
    dirs,      \* dirs[s]: who wrote state_dir/warm/<s>: a task, "old" or None
    restarts,  \* crashes and shutdowns so far
    reached,   \* ghost: the latest mark of a key whose warm came to the build
    escaped,   \* ghost: what was known of the leader of a group that a task let
               \* go of while processes of it might run
    misfire    \* ghost: a group kill went to a pid that was already reaped

vars == <<now, w, seen, attempt, dirs, restarts, reached, escaped, misfire>>
process == <<now, seen, attempt, restarts>>
ghosts == <<reached, escaped, misfire>>
-----------------------------------------------------------------------------
None == -1
Slugs == Tips \X (0..MaxAttempts - 1)
Children == {"main", "jq"}
Pre == {"mint", "setup", "clear"}
Steps == {"seed", "show", "build", "copy"}
Phases == {"idle", "branch", "tip", "clock", "lock"} \cup Pre \cup Steps
NoSlug == <<>>

\* The leader: it runs, has exited or been killed and is not reaped, or the wait for
\* it has returned, "waited" or after a kill "none", which is also its state before
\* the spawn.  kin: whether other processes of the group may run.
Leaders == {"none", "live", "ok", "fail", "killed", "waited"}
Groups == [leader: Leaders, kin: BOOLEAN]
NoGroup == [leader |-> "none", kin |-> FALSE]
LiveGroup == [leader |-> "live", kin |-> TRUE]
KilledGroup == [leader |-> "killed", kin |-> FALSE]
NoGroups == [p \in Children |-> NoGroup]

Locals ==
    [pc: Phases, tip: Tips \cup {None}, mark: 0..MaxTime \cup {None},
     slug: Slugs \cup {NoSlug}, target: 0..Targets,
     grp: [Children -> Groups], armed: SUBSET Children,
     jq: {"none", "ok", "fail"}]

Idle ==
    [pc |-> "idle", tip |-> None, mark |-> None, slug |-> NoSlug, target |-> 0,
     grp |-> NoGroups, armed |-> {}, jq |-> "none"]

TypeOK ==
    /\ now \in 0..MaxTime
    /\ w \in [Tasks -> Locals]
    /\ seen \in [Tips -> 0..MaxTime \cup {None}]
    /\ attempt \in 0..MaxAttempts
    /\ dirs \in [Slugs -> Tasks \cup {"old", "none"}]
    /\ restarts \in 0..MaxRestarts
    /\ reached \in [Tips -> 0..MaxTime \cup {None}]
    /\ escaped \subseteq Leaders
    /\ misfire \in BOOLEAN

NoMarks == [k \in Tips |-> None]

Init ==
    /\ now = 0
    /\ w = [t \in Tasks |-> Idle]
    /\ seen = NoMarks
    /\ attempt = 0
    /\ dirs = [s \in Slugs |-> "none"]
    /\ restarts = 0
    /\ reached = NoMarks
    /\ escaped = {} /\ misfire = FALSE

At(t, pc) == w[t].pc = pc
Goto(t, pc) == w' = [w EXCEPT ![t].pc = pc]
Return(t) == w' = [w EXCEPT ![t] = Idle]
Running(t) == w[t].pc \in Steps
InFlight(t) == w[t].pc \in Pre \cup Steps
Holding == {t \in Tasks : w[t].pc # "idle"}
-----------------------------------------------------------------------------
(* The decision: maybe_trigger and run_candidate up to the mark. *)

\* maybe_trigger of a job that parse_candidate accepts, and try_acquire: without
\* a permit the task ends and has recorded nothing.
Trigger(t, k) ==
    /\ At(t, "idle")
    /\ Cardinality(Holding) < Permits
    /\ attempt + Cardinality(Holding) < MaxAttempts
    /\ w' = [w EXCEPT ![t].pc = "branch", ![t].tip = k]
    /\ UNCHANGED <<process, dirs, ghosts>>

\* default_branch, then branch_tip: the call fails, the job is not the live
\* tip, or the task goes on.
Lookup(t) ==
    /\ \/ At(t, "branch") /\ (Goto(t, "tip") \/ Return(t))
       \/ At(t, "tip") /\ (Goto(t, "clock") \/ Return(t))
    /\ UNCHANGED <<process, dirs, ghosts>>

\* `marked` is read before the coalescer's lock is taken.
ReadClock(t) ==
    /\ At(t, "clock")
    /\ w' = [w EXCEPT ![t].pc = "lock", ![t].mark = now]
    /\ UNCHANGED <<process, dirs, ghosts>>

\* now.saturating_duration_since(mark) < ttl.
Fresh(mark, at) == mark # None /\ (IF at > mark THEN at - mark ELSE 0) < TTL

\* seen.retain: every expired entry goes.
Retained(at) == [k \in Tips |-> IF Fresh(seen[k], at) THEN seen[k] ELSE None]

CheckAndMark(t) ==
    LET l == w[t]
        kept == Retained(l.mark)
    IN  /\ l.pc = "lock"
        /\ IF kept[l.tip] # None
           THEN seen' = kept /\ Return(t)
           ELSE seen' = [kept EXCEPT ![l.tip] = l.mark] /\ Goto(t, "mint")
        /\ UNCHANGED <<now, attempt, restarts, dirs, ghosts>>

\* Mutant of Clear: whoever's mark it is.
ClearAny(t) ==
    /\ At(t, "clear")
    /\ seen' = [seen EXCEPT ![w[t].tip] = None]
    /\ Return(t)
    /\ UNCHANGED <<now, attempt, restarts, dirs, ghosts>>

\* Mutant of Clear: the mark of a failed warm stays.
ClearNothing(t) ==
    /\ At(t, "clear")
    /\ Return(t)
    /\ UNCHANGED <<process, dirs, ghosts>>

\* run_warm returned false: the task drops its own mark.
Clear(t) ==
    /\ At(t, "clear")
    /\ seen' = [seen EXCEPT ![w[t].tip] = IF @ = w[t].mark THEN None ELSE @]
    /\ Return(t)
    /\ UNCHANGED <<now, attempt, restarts, dirs, ghosts>>
-----------------------------------------------------------------------------
(* run_warm up to its first child. *)
MintToken(t) ==
    /\ At(t, "mint")
    /\ Goto(t, "setup") \/ Goto(t, "clear")
    /\ UNCHANGED <<process, dirs, ghosts>>

\* Mutant of Slug: one directory per tip.
SlugPerTip(k, n) == <<k, 0>>

\* warm_slug.
Slug(k, n) == <<k, n>>

\* WarmWorkdir::create removes what is there, builds the directory and writes
\* the netrc and nix.conf; a failure drops what was made so far, which may fail too.
Setup(t) ==
    LET l == w[t]
        s == Slug(l.tip, attempt)
    IN  /\ l.pc = "setup"
        /\ attempt' = attempt + 1
        /\ \/ /\ dirs' = [dirs EXCEPT ![s] = t]
              /\ w' = [w EXCEPT ![t].pc = "seed", ![t].slug = s]
              /\ reached' = [reached EXCEPT ![l.tip] =
                                IF @ > l.mark THEN @ ELSE l.mark]
           \/ /\ \E d \in {dirs[s], "none", "old"} : dirs' = [dirs EXCEPT ![s] = d]
              /\ Goto(t, "clear")
              /\ UNCHANGED reached
        /\ UNCHANGED <<now, seen, restarts, escaped, misfire>>
-----------------------------------------------------------------------------
(* The children.  A guard that is dropped while armed kills the group of    *)
(* its child; dropping the child itself kills the leader only.              *)

\* The future of l is dropped, or its step returns: guards first, then children.
LeftAlive(l) == {p \in Children \ l.armed : l.grp[p].kin}
Escapes(l) == {l.grp[p].leader : p \in LeftAlive(l)}
Misfires(l) == \E p \in l.armed : l.grp[p].leader \in {"none", "waited"}

\* Mutant of Disarmed: the guard outlives the wait.
DisarmedNever(l, p) == l.armed

\* disarm, after the wait of p.
Disarmed(l, p) == l.armed \ {p}

\* The wait for p returns, and its guard is disarmed whatever it returned.
Waited(l, p) ==
    LET leader == IF l.grp[p].leader = "killed" THEN "none" ELSE "waited"
    IN  [l EXCEPT !.grp = [@ EXCEPT ![p].leader = leader], !.armed = Disarmed(l, p)]

Exited(l, p) == l.grp[p].leader \in {"ok", "fail"}
InWait(l, p) == l.grp[p].leader = "live" \/ Exited(l, p)

\* Where a step leads: build follows a safe closure, copy a good build, and
\* the next target comes after copy or after a failure.
After(l, good) ==
    IF l.pc = "seed" THEN <<"show", 1>>
    ELSE IF good /\ l.pc = "show" THEN <<"build", l.target>>
    ELSE IF good /\ l.pc = "build" THEN <<"copy", l.target>>
    ELSE IF l.target < Targets THEN <<"show", l.target + 1>>
    ELSE <<"idle", 0>>

\* Drop of WarmWorkdir: an error of remove_dir_all is ignored.
RemoveDir(slug) == \E left \in {"none", "old"} : dirs' = [dirs EXCEPT ![slug] = left]

\* The step of l returns.  After the last one run_warm ends: the directory is
\* removed and the permit given back.
Finish(t, l, good) ==
    LET next == After(l, good)
    IN  /\ escaped' = escaped \cup Escapes(l)
        /\ misfire' = (misfire \/ Misfires(l))
        /\ IF next[1] = "idle"
           THEN Return(t) /\ RemoveDir(l.slug)
           ELSE /\ w' = [w EXCEPT ![t] =
                           [Idle EXCEPT !.pc = next[1], !.target = next[2],
                              !.tip = l.tip, !.mark = l.mark, !.slug = l.slug]]
                /\ UNCHANGED dirs
        /\ UNCHANGED <<process, reached>>

NotSpawned(t) == Running(t) /\ w[t].grp = NoGroups /\ w[t].jq = "none"

Started(t, ps) ==
    w' = [w EXCEPT ![t].grp = [p \in Children |->
                                 IF p \in ps THEN LiveGroup ELSE NoGroup],
                   ![t].armed = ps]

\* run_step: the child is spawned and guarded, or not spawned.
SpawnStep(t) ==
    LET l == w[t]
    IN  /\ NotSpawned(t) /\ l.pc # "show"
        /\ \/ /\ Started(t, {"main"})
              /\ UNCHANGED <<process, dirs, reached, escaped, misfire>>
           \/ Finish(t, l, FALSE)

\* The closure check: nix and jq are spawned and guarded, or nix cannot be, or
\* jq cannot be and nix is dropped with its guard.
SpawnShow(t) ==
    LET l == w[t]
    IN  /\ NotSpawned(t) /\ l.pc = "show"
        /\ \/ /\ Started(t, Children)
              /\ UNCHANGED <<process, dirs, reached, escaped, misfire>>
           \/ Finish(t, l, FALSE)
           \/ Finish(t, [l EXCEPT !.grp["main"] = LiveGroup,
                                  !.armed = {"main"}], FALSE)

\* A child exits.  Its descendants may run on.
ChildEnds(t, p) ==
    /\ w[t].grp[p].leader = "live"
    /\ \E st \in {"ok", "fail"} : w' = [w EXCEPT ![t].grp[p].leader = st]
    /\ UNCHANGED <<process, dirs, ghosts>>

\* run_step: child.wait() returns, before the timeout or after it.
StepWait(t) ==
    LET l == w[t]
    IN  /\ Running(t) /\ l.pc # "show"
        /\ Exited(l, "main") \/ l.grp["main"].leader = "killed"
        /\ Finish(t, Waited(l, "main"), l.grp["main"].leader = "ok")

\* Mutant of StepTimeout: the shell is waited for without the kill.
StepTimeoutWaits(t) ==
    /\ Running(t) /\ w[t].pc # "show"
    /\ InWait(w[t], "main")
    /\ UNCHANGED vars

\* Mutant of StepTimeout: only the shell is killed.
StepTimeoutKillsShell(t) ==
    /\ Running(t) /\ w[t].pc # "show"
    /\ InWait(w[t], "main")
    /\ w' = [w EXCEPT ![t].grp["main"].leader = "killed"]
    /\ UNCHANGED <<process, dirs, ghosts>>

\* run_step: the timeout kills the group and waits again.  The shell may have
\* exited by then.
StepTimeout(t) ==
    /\ Running(t) /\ w[t].pc # "show"
    /\ InWait(w[t], "main")
    /\ w' = [w EXCEPT ![t].grp["main"] = KilledGroup]
    /\ UNCHANGED <<process, dirs, ghosts>>

\* closure_is_host_build_safe: jq is awaited first, then nix.
ShowWaitJq(t) ==
    LET l == w[t]
    IN  /\ At(t, "show")
        /\ Exited(l, "jq")
        /\ w' = [w EXCEPT ![t] = [Waited(l, "jq") EXCEPT
                                    !.jq = l.grp["jq"].leader]]
        /\ UNCHANGED <<process, dirs, ghosts>>

\* Both children must exit with 0.
Verdict(l) == l.jq = "ok" /\ l.grp["main"].leader = "ok"

ShowWaitNix(t) ==
    LET l == w[t]
    IN  /\ At(t, "show")
        /\ l.jq # "none"
        /\ Exited(l, "main")
        /\ Finish(t, Waited(l, "main"), Verdict(l))

\* On a timeout the guards that are still armed kill their groups.
ShowTimeout(t) ==
    /\ At(t, "show")
    /\ w[t].grp # NoGroups
    /\ Finish(t, w[t], FALSE)

\* A wait fails.  What becomes of the child is not known; its guard is disarmed.
WaitFails(t) ==
    LET l == w[t]
    IN  \/ /\ Running(t)
           /\ l.pc = "show" => l.jq # "none"
           /\ InWait(l, "main")
           /\ Finish(t, Waited(l, "main"), FALSE)
        \/ /\ At(t, "show")
           /\ l.jq = "none"
           /\ InWait(l, "jq")
           /\ w' = [w EXCEPT ![t] = [Waited(l, "jq") EXCEPT !.jq = "fail"]]
           /\ UNCHANGED <<process, dirs, ghosts>>
-----------------------------------------------------------------------------
(* The clock, the process and what it leaves behind. *)
Tick ==
    /\ now < MaxTime
    /\ now' = now + 1
    /\ UNCHANGED <<w, seen, attempt, restarts, dirs, ghosts>>

\* A new process: no marks, and the attempt counter starts again.
NewProcess ==
    /\ restarts < MaxRestarts
    /\ restarts' = restarts + 1
    /\ w' = [t \in Tasks |-> Idle]
    /\ seen' = NoMarks
    /\ reached' = NoMarks
    /\ attempt' = 0
    /\ UNCHANGED now

\* The runtime is dropped: every task's future goes, its guards and children
\* first, its directory after them.  Some removals may fail.
Shutdown ==
    /\ NewProcess
    /\ escaped' = escaped \cup UNION {Escapes(w[t]) : t \in Tasks}
    /\ misfire' = (misfire \/ \E t \in Tasks : Misfires(w[t]))
    /\ LET used == {s \in Slugs : \E t \in Tasks : w[t].slug = s}
       IN \E left \in SUBSET used :
            dirs' = [s \in Slugs |-> IF s \in left THEN "old"
                                    ELSE IF s \in used THEN "none" ELSE dirs[s]]

\* The process dies: nothing is dropped, its children live on.
Crash ==
    /\ NewProcess
    /\ dirs' = [s \in Slugs |-> IF dirs[s] = "none" THEN "none" ELSE "old"]
    /\ UNCHANGED <<escaped, misfire>>
-----------------------------------------------------------------------------
\* What the task does by itself; how its children end and whether it can wait for
\* them is not its to say.
TaskStep(t) ==
    \/ Lookup(t) \/ ReadClock(t) \/ CheckAndMark(t) \/ Clear(t)
    \/ MintToken(t) \/ Setup(t)
    \/ SpawnStep(t) \/ StepWait(t) \/ StepTimeout(t)
    \/ SpawnShow(t) \/ ShowWaitJq(t) \/ ShowWaitNix(t) \/ ShowTimeout(t)

Next ==
    \/ Tick \/ Shutdown \/ Crash
    \/ \E t \in Tasks :
        \/ \E k \in Tips : Trigger(t, k)
        \/ TaskStep(t) \/ WaitFails(t)
        \/ \E p \in Children : ChildEnds(t, p)

Spec == Init /\ [][Next]_vars
FairSpec == Spec /\ \A t \in Tasks : WF_vars(TaskStep(t))
-----------------------------------------------------------------------------
(* Properties. *)

\* Two warms of one tip are in flight together only when their marks are a TTL
\* apart, as the comment of Coalescer::clear has it.
MarksApart ==
    \A t, u \in Tasks :
        t # u /\ InFlight(t) /\ InFlight(u) /\ w[t].tip = w[u].tip =>
            \/ w[t].mark - w[u].mark >= TTL
            \/ w[u].mark - w[t].mark >= TTL

\* The burst of events of one push starts one warm, even when a slow warm fails
\* after its mark has expired and been replaced (Coalescer::clear).  It takes at
\* most two permits (WARM_MAX_CONCURRENCY is 1 by default): with three, a warm
\* of another tip may evict a mark that was fresh when this task read its clock.
SingleFlight == Permits <= 2 => MarksApart

\* A fresh mark, which turns every event of its tip away, is the mark of a warm
\* that is in flight or came to the build: a warm that failed before it leaves
\* its tip free for a retry.
FreshMarkBacked ==
    \A k \in Tips : Fresh(seen[k], now) =>
        \/ reached[k] = seen[k]
        \/ \E t \in Tasks : InFlight(t) /\ w[t].tip = k /\ w[t].mark = seen[k]

\* While a warm runs its children, its directory is there and holds the netrc
\* that it wrote: no warm removes or overwrites another's, whatever the marks,
\* the attempt numbers of earlier processes and left-over directories.  And a
\* netrc is on disk only under a warm that runs, or left by a process that
\* crashed or a removal that failed: every exit of run_warm tries to remove it.
WorkdirsOwned ==
    /\ \A t \in Tasks : Running(t) => dirs[w[t].slug] = t
    /\ \A s \in Slugs : dirs[s] \notin {"old", "none"} =>
         \E t \in Tasks : dirs[s] = t /\ Running(t) /\ w[t].slug = s

\* run_step's timeout, a spawn that fails half way and a shutdown end whole groups,
\* also that of a leader which has exited and is not yet reaped.  While the process
\* itself lives, a group outlives the task that let go of it only if the wait for
\* its leader returned in time, with its exit or with an error.  And no group kill
\* is sent to a pid that was reaped and may be another process by now.
GroupsContained == escaped \subseteq {"waited"} /\ ~misfire

\* "descendants must not outlive the wrapper" (run_step): no group outlives its
\* task at all.  See MCWarmerDescendants.cfg.
NoneEscapes == escaped = {}

\* Every warm ends and gives its permit back, even if no child ever exits.
WarmEnds == \A t \in Tasks : w[t].pc # "idle" ~> w[t].pc = "idle"
=============================================================================
