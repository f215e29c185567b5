------------------------------- MODULE Listing --------------------------------
(***************************************************************************)
(* GET /jobs (control.rs, ControlState::jobs): what the operator is shown  *)
(* of the spool.  The handler takes no lock: it walks new/, cur/, done/    *)
(* and error/ one after the other, opening one file at a time, while the   *)
(* spool's tasks move the files on (SpoolMoves, which Spool implements).   *)
(* The order of the looks is all that keeps a job from slipping through    *)
(* between two of them.                                                    *)
(*                                                                         *)
(* A directory is read ahead when it is opened: what is renamed into it    *)
(* later is not seen, what is renamed away is met as a missing file.       *)
(***************************************************************************)
EXTENDS SpoolMoves, FiniteSets

CONSTANTS
    Window,      \* COMPLETED_WINDOW_SECS, in clock ticks
    ActiveCap,   \* ACTIVE_CAP, entries examined in new/ and in cur/
    ScanCap,     \* COMPLETED_SCAN_CAP, entries examined in done/ and error/
    RowCap,      \* COMPLETED_CAP, completed rows
    MaxTime,     \* bound: clock
    MaxOthers    \* bound: other names in a directory (.err, .bak, .tmp-)

ASSUME ListingAssumption ==
    /\ {Retention, Window, ActiveCap, ScanCap, RowCap} \subseteq Nat
    /\ {MaxTime, MaxOthers} \subseteq Nat
    /\ Window <= Retention

VARIABLES
    req,        \* the request, see Request
    held,       \* ghost: jobs that had a row to get ever since it began
    idle,       \* ghost: jobs neither claimed nor archived at some time since then
    excused,    \* ghost: jobs of which a file has gone for good since then, or
                \* at which a call has failed
    loose       \* ghost: jobs of req.snap without a claim at some time since

ghosts == <<held, idle, excused, loose>>
listing == <<moves, req, ghosts>>
-----------------------------------------------------------------------------
PassOf == {"new", "cur", "done", "error"}
Stats == {"none", "cur", "done", "error"}
Rows == [job : Jobs, dir : Dirs, mtime : Nat]

\* left and others are the names still to be examined, stat the next look of
\* already_claimed_or_archived at the queued entry `job`.
Request ==
    [pc : {"idle", "polled", "open", "walk", "rows", "answer"}, pass : PassOf, now : Nat,
     snap : SUBSET Jobs, left : SUBSET Jobs, others : 0..MaxOthers,
     examined : 0..ActiveCap + ScanCap, job : Jobs, stat : Stats,
     queued : SUBSET Jobs, inFlight : SUBSET Jobs, found : SUBSET Rows,
     cut : BOOLEAN]

NoRequest(j) ==
    [pc |-> "idle", pass |-> "new", now |-> 0, snap |-> {}, left |-> {},
     others |-> 0, examined |-> 0, job |-> j, stat |-> "none",
     queued |-> {}, inFlight |-> {}, found |-> {}, cut |-> FALSE]

ListingTypeOK ==
    /\ req \in Request
    /\ {held, idle, excused, loose} \subseteq SUBSET Jobs

ListingInit ==
    /\ MovesInit
    /\ \E j \in Jobs : req = NoRequest(j)
    /\ held = {} /\ idle = {} /\ excused = {} /\ loose = {}
-----------------------------------------------------------------------------
(* What the request may see. *)

Names(dir) ==
    CASE dir = "new" -> new
      [] dir = "cur" -> {j \in Jobs : cur[j].there}
      [] OTHER -> {j \in Jobs : Marker(dir, j).there}

\* mtime < cutoff is left out.
InWindow(f) == f.there /\ f.mtime + Window >= req.now

\* Dispatch would start it, if it is in new/.
Idle(j) == ~cur[j].there /\ ~Archived(j)

Showable(j) ==
    (j \in new /\ Idle(j)) \/ cur[j].there \/ \E d \in Dirs : InWindow(Marker(d, j))

Begun == req.pc \notin {"idle", "polled"}

\* The ghosts watch the spool's step.
Watched ==
    /\ held' = {j \in held : Showable(j)'}
    /\ idle' = IF Begun /\ req.pass = "new"
               THEN idle \cup {j \in Jobs : Idle(j)'} ELSE {}
    /\ excused' = IF ~Begun THEN {}
                  ELSE excused \cup {j \in Jobs :
                      \/ cur[j].there /\ Idle(j)'
                      \/ \E d \in Dirs : Marker(d, j).there /\ ~Marker(d, j).there'}
    /\ loose' = loose \cup {j \in req.snap : ~cur[j].there'}

\* A step of the spool; no request lasts from the window to the retention.
SpoolStep ==
    /\ MovesNext
    /\ clock' <= MaxTime
    /\ Begun => clock' + Window <= req.now + Retention
    /\ UNCHANGED req
    /\ Watched
-----------------------------------------------------------------------------
(* The request. *)

\* poll_vm_snapshots: the snapshot that the request will find, taken at any
\* time before.  A claimed job may have a VM, and so may one whose VM was not
\* deleted; a failed `limactl list` keeps the snapshot there is.
Poll ==
    /\ req.pc \in {"idle", "polled"}
    /\ \E S \in SUBSET Jobs :
         /\ req' = [req EXCEPT !.pc = "polled", !.snap = S]
         /\ loose' = {j \in S : ~cur[j].there}
    /\ UNCHANGED <<moves, held, idle, excused>>

\* jobs(): the clock, then the snapshot.
JobsBegin ==
    /\ ~Begun
    /\ req' = [req EXCEPT !.pc = "open", !.pass = "new", !.now = clock]
    /\ UNCHANGED <<moves, loose>>
    /\ held' = {j \in Jobs : Showable(j)'}
    /\ idle' = {j \in Jobs : Idle(j)}
    /\ excused' = {}

Goes(r) == req' = r /\ UNCHANGED <<moves, ghosts>>

\* A call about the files of these jobs fails.
Fails(J, r) ==
    /\ req' = r
    /\ excused' = excused \cup J
    /\ UNCHANGED <<moves, held, idle, loose>>

\* read_dir; if it fails the list is empty and not flagged.
OpenDir ==
    /\ req.pc = "open"
    /\ \E n \in 0..MaxOthers :
         LET r == [req EXCEPT !.pc = "walk",
                              !.examined = IF req.pass = "error" THEN @ ELSE 0]
         IN \/ Goes([r EXCEPT !.left = Names(req.pass), !.others = n])
            \/ Fails(Jobs, r)

Cap(pass) == IF pass \in {"new", "cur"} THEN ActiveCap ELSE ScanCap

\* next_entry, within the budget and with no entry under way.
MayExamine == req.pc = "walk" /\ req.stat = "none" /\ req.examined < Cap(req.pass)

Examine(j) == [req EXCEPT !.left = @ \ {j}, !.examined = @ + 1]

\* A name that is not <id>.job counts and is skipped; so is an entry that
\* cannot be read; a failing next_entry ends the walk.
Skip ==
    /\ MayExamine
    /\ \/ /\ req.others > 0
          /\ Goes([req EXCEPT !.others = @ - 1, !.examined = @ + 1])
       \/ \E j \in req.left : Fails({j}, Examine(j))
       \/ Fails(Jobs, [req EXCEPT !.left = {}, !.others = 0])

\* The queued entry is opened, unless it has moved on; then the first stat.
QueuedRead(j) ==
    /\ MayExamine
    /\ req.pass = "new" /\ j \in req.left
    /\ Goes(IF j \in new THEN [Examine(j) EXCEPT !.job = j, !.stat = "cur"]
            ELSE Examine(j))

\* Mutant of ClaimedStat: the archives are looked at before cur/.
ClaimedStatArchiveFirst ==
    /\ req.stat # "none"
    /\ LET there == IF req.stat = "cur" THEN Archived(req.job)
                    ELSE cur[req.job].there
       IN \/ /\ there
             /\ Goes([req EXCEPT !.stat = "none"])
          \/ /\ ~there
             /\ Goes(IF req.stat = "cur" THEN [req EXCEPT !.stat = "error"]
                     ELSE [req EXCEPT !.stat = "none", !.queued = @ \cup {req.job}])

\* already_claimed_or_archived: cur/, done/, error/, a stat each; a failing
\* one counts as `not there`.
ClaimedStat ==
    /\ req.stat # "none"
    /\ LET there == req.job \in Names(req.stat)
           next == CASE req.stat = "cur" -> [req EXCEPT !.stat = "done"]
                     [] req.stat = "done" -> [req EXCEPT !.stat = "error"]
                     [] OTHER -> [req EXCEPT !.stat = "none",
                                             !.queued = @ \cup {req.job}]
       IN \/ there /\ Goes([req EXCEPT !.stat = "none"])
          \/ ~there /\ Goes(next)
          \/ there /\ Fails({req.job}, next)

\* The claim is opened, unless it has moved on.
InFlightRead(j) ==
    /\ MayExamine
    /\ req.pass = "cur" /\ j \in req.left
    /\ Goes(IF cur[j].there THEN [Examine(j) EXCEPT !.inFlight = @ \cup {j}]
            ELSE Examine(j))

\* collect_window: a marker's metadata, if it is still there.
WindowEntry(j) ==
    /\ MayExamine
    /\ req.pass \in Dirs /\ j \in req.left
    /\ LET f == Marker(req.pass, j)
           row == [job |-> j, dir |-> req.pass, mtime |-> f.mtime]
       IN Goes(IF InWindow(f) THEN [Examine(j) EXCEPT !.found = @ \cup {row}]
               ELSE Examine(j))

\* Mutant of NextPass: the completed jobs are listed before those in flight.
NextPassBackwards(pass) ==
    CASE pass = "new" -> "done" [] pass = "done" -> "error"
      [] pass = "error" -> "cur" [] OTHER -> "end"

NextPass(pass) ==
    CASE pass = "new" -> "cur" [] pass = "cur" -> "done"
      [] pass = "done" -> "error" [] OTHER -> "end"

\* The budget is used up, or the directory is; the answer does not tell which
\* when both are.
WalkEnds ==
    /\ req.pc = "walk" /\ req.stat = "none"
    /\ LET capped == req.examined >= Cap(req.pass)
           next == NextPass(req.pass)
           r == [req EXCEPT !.left = {}, !.others = 0, !.cut = @ \/ capped]
       IN /\ capped \/ (req.left = {} /\ req.others = 0)
          /\ Goes(IF next = "end" THEN [r EXCEPT !.pc = "rows", !.examined = 0]
                  ELSE [r EXCEPT !.pc = "open", !.pass = next])

Newest(rows, S) == \A r \in S, q \in rows \ S : r.mtime >= q.mtime

\* Mutant of Truncate: the snapshot is read last.
TruncatePolls ==
    /\ req.pc = "rows"
    /\ \E S \in SUBSET Jobs :
         /\ req' = [req EXCEPT !.pc = "answer", !.snap = S]
         /\ loose' = {j \in S : ~cur[j].there}
    /\ UNCHANGED <<moves, held, idle, excused>>

\* list_completed sorts and truncates; its bodies fail without losing a row.
Truncate ==
    /\ req.pc = "rows"
    /\ \E S \in SUBSET req.found :
         /\ Cardinality(S) = IF Cardinality(req.found) > RowCap THEN RowCap
                             ELSE Cardinality(req.found)
         /\ Newest(req.found, S)
         /\ Goes([req EXCEPT !.pc = "answer", !.found = S,
                             !.cut = @ \/ Cardinality(req.found) > RowCap])

\* The answer is sent.
JobsEnd ==
    /\ req.pc = "answer"
    /\ req' = NoRequest(req.job)
    /\ held' = {} /\ idle' = {} /\ excused' = {} /\ loose' = {}
    /\ UNCHANGED moves

ListStep ==
    \/ Poll \/ JobsBegin \/ OpenDir \/ Skip \/ ClaimedStat \/ WalkEnds \/ Truncate
    \/ JobsEnd
    \/ \E j \in Jobs : QueuedRead(j) \/ InFlightRead(j) \/ WindowEntry(j)

ListingNext == SpoolStep \/ ListStep

ListingSpec == ListingInit /\ [][ListingNext]_listing
-----------------------------------------------------------------------------
(* Properties. *)

\* jobs(): VMs of the snapshot without a row in flight.
orphan_vm_names == req.snap \ req.inFlight

CompletedJobs == {r.job : r \in req.found}

\* A job that is in the spool from the first look to the last has a row, also
\* when it moves from new/ to cur/ to an archive between two looks: it can be
\* seen twice, not missed.  Except by a list that says it is cut, at a call
\* that failed, or when a second run's archive() moves the first one's marker
\* aside between the look at cur/ and the one at the marker.
JobSeen ==
    req.pc = "answer" /\ ~req.cut =>
        held \subseteq req.queued \cup req.inFlight \cup CompletedJobs \cup excused

\* A job that is shown as queued was not in flight or finished all the time:
\* the replay of a running job is not shown while the job is being archived.
QueuedWaits ==
    req.pass = "new" => req.queued \subseteq idle \cup excused

\* A VM shown as an orphan was without a claim at some time since the snapshot: one
\* whose job has had its claim ever since then is never shown, wherever the claim
\* has moved while the directories were walked.
OrphanUnclaimed ==
    req.pc = "answer" /\ ~req.cut => orphan_vm_names \subseteq loose \cup excused
=============================================================================
