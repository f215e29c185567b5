------------------------------ MODULE Delivery ------------------------------
(***************************************************************************)
(* From a file in new/ to a verdict: the watcher (spool.rs, watch and      *)
(* enumerate_new), its bounded channel, the dispatch loop's prepare and    *)
(* the policy it applies (supervisor.rs, classify_validated_entry), and    *)
(* the control endpoint's listing of what is queued (control.rs), which    *)
(* applies the same policy.  supervise ends the daemon when one of its      *)
(* lifelong tasks ends.                                                    *)
(*                                                                         *)
(* What an entry says is the set of checks it would fail and the labels it *)
(* asks for.  It belongs to its id: GitHub redelivers the same body.       *)
(* The renames are atomic here, as Spool shows they may be taken; the two  *)
(* looks of try_claim at the archives are not.  The pause gate and the     *)
(* reconciler are in Intake, and a stuck claim is the collector's.         *)
(***************************************************************************)
EXTENDS Naturals, Sequences, FiniteSets

CONSTANTS
    Ids,             \* workflow_job ids
    Contents,        \* what entries may say: a set of [bad, labels]
    Labels,          \* labels as workflows spell them
    Lower,           \* [Labels -> Labels], to_ascii_lowercase
    RunnerLabel,     \* config.runner_label
    RunnerLabels,    \* config.runner_labels_set()
    Capacity,        \* of the watcher's channel
    MaxConcurrency,
    MaxDeliver,      \* bound: files written to new/
    MaxFaults        \* bound: failing directory and file system calls

(* What may be wrong with an entry, in the order of the checks. *)
ReadChecks == {"file type", "size", "envelope"}
EnvelopeChecks == {"schema", "hmac", "filename id", "allowlist"}
BodyChecks == {"decode", "repo id", "repo", "job id", "action mismatch"}
Defects == ReadChecks \cup EnvelopeChecks \cup BodyChecks \cup {"event", "not queued"}

ASSUME DeliveryAssumption ==
    /\ Lower \in [Labels -> Labels]
    /\ RunnerLabel \in Labels /\ RunnerLabels \subseteq Labels
    /\ \A c \in Contents : c.bad \subseteq Defects /\ c.labels \subseteq Labels
    /\ Capacity \in Nat \ {0} /\ MaxConcurrency \in Nat \ {0}
    /\ MaxDeliver \in Nat /\ MaxFaults \in Nat

VARIABLES
    says,       \* [Ids -> Contents]
    new, cur,   \* names in new/ and in cur/
    done, error,\* names with a marker in done/ and in error/
    watch,      \* the watcher: where it is, and what it has still to enumerate
    event,      \* a file system event waits in its unbounded channel
    chan,       \* names sent and not received
    disp,       \* the dispatch loop: where it is, and with which name
    tasks,      \* names whose job runs: each holds a permit
    runs,       \* how often each id was started
    dead,       \* lifelong tasks that have ended
    up,         \* the daemon runs
    delivered, faults

dirs == <<new, cur, done, error>>
daemon == <<watch, event, chan, disp>>
jobs == <<tasks, runs>>
world == <<says, delivered>>
delivery == <<dirs, daemon, jobs, world, dead, up, faults>>
-----------------------------------------------------------------------------
(* Names end in .job.  The stem is the decimal of an id as the spooler writes it,
   another decimal of the same id, or no number at all. *)
Junk == [form |-> "junk"]
NameOf(i) == [form |-> "canonical", id |-> i]
Alias(i) == [form |-> "alias", id |-> i]
Canonical == {NameOf(i) : i \in Ids}
Names == Canonical \cup {Alias(i) : i \in Ids} \cup {Junk}

\* parse_spool_filename
Parses(n) == n # Junk

\* file_type().is_file(), in the scan
Regular(n) == Parses(n) => "file type" \notin says[n.id].bad

\* Mutant of classify_job_labels: labels that are not advertised are let through.
GateLabelOnly(labels) == \E l \in labels : Lower[l] = Lower[RunnerLabel]

\* The gate label is asked for, and nothing that is not advertised; without case.
classify_job_labels(labels) ==
    /\ \E l \in labels : Lower[l] = Lower[RunnerLabel]
    /\ \A l \in labels : \E a \in RunnerLabels : Lower[a] = Lower[l]

\* validate_envelope, then the cross-checks, which an unknown event never meets.
Rejected(c) ==
    \/ c.bad \cap EnvelopeChecks # {}
    \/ "event" \notin c.bad /\ c.bad \cap BodyChecks # {}

classify_validated_entry(c) ==
    IF Rejected(c) THEN "reject"
    ELSE IF {"event", "not queued"} \cap c.bad = {} /\ classify_job_labels(c.labels)
         THEN "run" ELSE "drop"

\* What prepare makes of a name it has claimed.
Verdict(n) ==
    IF n \notin Canonical \/ says[n.id].bad \cap ReadChecks # {}
    THEN "reject" ELSE classify_validated_entry(says[n.id])
-----------------------------------------------------------------------------
(* The collector and the reconciler, whose work is in other modules, are "loops". *)
Lifelong == {"watcher", "loops"}

DeliveryTypeOK ==
    /\ says \in [Ids -> Contents]
    /\ {new, cur, done, error, tasks} \subseteq SUBSET Names
    /\ watch \in [pc : {"first", "idle", "scan"}, todo : SUBSET Names]
    /\ event \in BOOLEAN
    /\ chan \in Seq(Names) /\ Len(chan) <= Capacity
    /\ disp.pc \in {"recv", "permit", "claim", "rename", "classify"}
    /\ disp.pc # "recv" => disp.name \in Names
    /\ Cardinality(tasks) <= MaxConcurrency
    /\ runs \in [Ids -> Nat]
    /\ dead \subseteq Lifelong /\ up \in BOOLEAN
    /\ delivered \in Nat /\ faults \in Nat

\* The watcher begins with the files that are there.
DeliveryInit ==
    /\ says \in [Ids -> Contents]
    /\ new \in SUBSET Canonical
    /\ cur = {} /\ done = {} /\ error = {}
    /\ watch = [pc |-> "first", todo |-> new]
    /\ event = FALSE
    /\ chan = <<>>
    /\ disp = [pc |-> "recv"]
    /\ tasks = {} /\ runs = [i \in Ids |-> 0]
    /\ dead = {} /\ up = TRUE
    /\ delivered = 0 /\ faults = 0

\* Calls to the file system fail.
Faults(k) == faults + k <= MaxFaults /\ faults' = faults + k
Fault == Faults(1)

\* A change of new/ raises an event, or FSEvents drops it; nothing is registered
\* before the first enumeration is over.
Notify == event' \in IF watch.pc = "first" THEN {event} ELSE {event, TRUE}

\* The spooler, another program, renames a finished file into new/.
Deliver(n) ==
    /\ delivered < MaxDeliver
    /\ delivered' = delivered + 1
    /\ new' = new \cup {n}
    /\ Notify
    /\ UNCHANGED <<says, cur, done, error, watch, chan, disp, jobs, dead, up, faults>>
-----------------------------------------------------------------------------
(* The watcher. *)
Watching == up /\ "watcher" \notin dead

\* Mutant of WatchWakes: there is no rescan.
WatchWakesOnEvent ==
    /\ Watching /\ watch.pc = "idle"
    /\ event
    /\ event' = FALSE
    /\ watch' = [pc |-> "scan", todo |-> new]
    /\ UNCHANGED <<dirs, chan, disp, jobs, world, dead, up, faults>>

\* An event, and all that wait behind it, or the tick of the rescan interval.
\* read_dir may fail: the scan is given up.
WatchWakes ==
    /\ Watching /\ watch.pc = "idle"
    /\ event' \in {event, FALSE}
    /\ \/ watch' = [pc |-> "scan", todo |-> new] /\ UNCHANGED faults
       \/ Fault /\ UNCHANGED watch
    /\ UNCHANGED <<dirs, chan, disp, jobs, world, dead, up>>

\* The next entry of the scan, whatever became of it since, is sent once the
\* channel has room.  Anything but a regular file is left out, and so is one whose
\* file_type fails.
WatchSends ==
    /\ Watching /\ watch.pc # "idle"
    /\ \E n \in watch.todo :
         /\ watch' = [watch EXCEPT !.todo = @ \ {n}]
         /\ \/ /\ Regular(n) /\ Len(chan) < Capacity
               /\ chan' = Append(chan, n)
               /\ UNCHANGED faults
            \/ ~Regular(n) /\ UNCHANGED <<chan, faults>>
            \/ Fault /\ UNCHANGED chan
    /\ UNCHANGED <<dirs, event, disp, jobs, world, dead, up>>

\* The directory is exhausted, or a rescan's next_entry fails.
WatchEnds ==
    /\ Watching
    /\ watch' = [pc |-> "idle", todo |-> {}]
    /\ \/ watch.pc # "idle" /\ watch.todo = {} /\ UNCHANGED faults
       \/ watch.pc = "scan" /\ Fault
    /\ UNCHANGED <<dirs, event, chan, disp, jobs, world, dead, up>>

Watcher == WatchWakes \/ WatchSends \/ WatchEnds
-----------------------------------------------------------------------------
(* The dispatch loop: the name, the permit, then prepare. *)
DispRecv ==
    /\ up /\ disp.pc = "recv"
    /\ chan # <<>>
    /\ chan' = Tail(chan)
    /\ disp' = [pc |-> "permit", name |-> Head(chan)]
    /\ UNCHANGED <<dirs, watch, event, jobs, world, dead, up, faults>>

\* With a permit, prepare skips a name that does not parse.
DispAcquire ==
    /\ up /\ disp.pc = "permit"
    /\ Cardinality(tasks) < MaxConcurrency
    /\ disp' = IF Parses(disp.name) THEN [disp EXCEPT !.pc = "claim"] ELSE [pc |-> "recv"]
    /\ UNCHANGED <<dirs, watch, event, chan, jobs, world, dead, up, faults>>

\* is_archived takes a stat that fails for a missing marker: it sees none when
\* there is none, or when every stat of one fails.
Markers(n) == (IF n \in done THEN 1 ELSE 0) + (IF n \in error THEN 1 ELSE 0)
Unseen(n) == Faults(Markers(n))

Unlink(n) ==
    /\ new' = new \ {n}
    /\ IF n \in new THEN Notify ELSE UNCHANGED event

\* try_claim's first look.  The copy of what is archived is unlinked, or stays.
DispLook ==
    /\ up /\ disp.pc = "claim"
    /\ LET n == disp.name IN
         \/ /\ Unseen(n)
            /\ disp' = [disp EXCEPT !.pc = "rename"]
            /\ UNCHANGED <<new, event>>
         \/ /\ Markers(n) > 0
            /\ disp' = [pc |-> "recv"]
            /\ \/ Unlink(n) /\ UNCHANGED faults
               \/ Fault /\ UNCHANGED <<new, event>>
    /\ UNCHANGED <<cur, done, error, watch, chan, jobs, world, dead, up>>

\* Mutant of SecondLook: the first look is trusted.
SecondLookSkipped(n) ==
    /\ cur' = cur \cup {n} /\ disp' = [disp EXCEPT !.pc = "classify"]
    /\ UNCHANGED faults

\* The name is in cur/ now, where nobody else archives it.  A replay is taken
\* back, or left there when the unlink fails.
SecondLook(n) ==
    \/ /\ Unseen(n)
       /\ cur' = cur \cup {n} /\ disp' = [disp EXCEPT !.pc = "classify"]
    \/ /\ Markers(n) > 0
       /\ disp' = [pc |-> "recv"]
       /\ UNCHANGED <<cur, faults>> \/ (cur' = cur \cup {n} /\ Fault)

\* The exclusive rename.  A name that is gone from new/ is skipped, the copy of a
\* claim is unlinked; a call that fails leaves new/ to the next scan.
DispRename ==
    /\ up /\ disp.pc = "rename"
    /\ LET n == disp.name IN
         \/ /\ n \in new \ cur
            /\ Unlink(n)
            /\ SecondLook(n)
         \/ /\ n \notin new \/ n \in cur
            /\ Unlink(n)
            /\ disp' = [pc |-> "recv"]
            /\ UNCHANGED <<cur, faults>>
         \/ /\ Fault
            /\ disp' = [pc |-> "recv"]
            /\ UNCHANGED <<new, cur, event>>
    /\ UNCHANGED <<done, error, watch, chan, jobs, world, dead, up>>

\* finalize_done and finalize_error: the name leaves cur/ for an archive, or stays
\* when the move fails.
Archive(n, dir) ==
    /\ \/ /\ cur' = cur \ {n}
          /\ done' = IF dir = "done" THEN done \cup {n} ELSE done
          /\ error' = IF dir = "error" THEN error \cup {n} ELSE error
          /\ UNCHANGED faults
       \/ Fault /\ UNCHANGED <<cur, done, error>>
    /\ UNCHANGED new

\* Mutant of DispClassify: dispatch compares labels by their spelling.
DispClassifySpelling ==
    /\ up /\ disp.pc = "classify"
    /\ disp' = [pc |-> "recv"]
    /\ LET n == disp.name IN
         \/ /\ Verdict(n) = "run" /\ says[n.id].labels \subseteq RunnerLabels
            /\ tasks' = tasks \cup {n}
            /\ runs' = [runs EXCEPT ![n.id] = @ + 1]
            /\ UNCHANGED <<dirs, faults>>
         \/ /\ Verdict(n) = "run" => ~(says[n.id].labels \subseteq RunnerLabels)
            /\ Archive(n, IF Verdict(n) = "reject" THEN "error" ELSE "done")
            /\ UNCHANGED jobs
    /\ UNCHANGED <<watch, event, chan, world, dead, up>>

\* The verdict is carried out.  A read that fails, for whatever reason, rejects.
DispClassify ==
    /\ up /\ disp.pc = "classify"
    /\ disp' = [pc |-> "recv"]
    /\ LET n == disp.name IN
         \/ /\ Verdict(n) = "run"
            /\ tasks' = tasks \cup {n}
            /\ runs' = [runs EXCEPT ![n.id] = @ + 1]
            /\ UNCHANGED <<dirs, faults>>
         \/ /\ Verdict(n) # "run"
            /\ Archive(n, IF Verdict(n) = "reject" THEN "error" ELSE "done")
            /\ UNCHANGED jobs
         \/ /\ Fault
            /\ cur' = cur \ {n} /\ error' = error \cup {n}
            /\ UNCHANGED <<new, done, jobs>>
    /\ UNCHANGED <<watch, event, chan, world, dead, up>>

Dispatch == DispRecv \/ DispAcquire \/ DispLook \/ DispRename \/ DispClassify

\* spawn_job's task: the job ends well or badly, its claim is archived, its permit
\* dropped.
JobEnds(n) ==
    /\ up /\ n \in tasks
    /\ tasks' = tasks \ {n}
    /\ \E dir \in {"done", "error"} : Archive(n, dir)
    /\ UNCHANGED <<daemon, runs, world, dead, up>>
-----------------------------------------------------------------------------
(* supervise. *)

\* A lifelong task panics; the watcher also ends when its first scan fails.
LifelongDies(t) ==
    /\ up /\ t \notin dead
    /\ Fault
    /\ dead' = dead \cup {t}
    /\ UNCHANGED <<dirs, daemon, jobs, world, up>>

Supervise ==
    /\ up /\ dead # {}
    /\ up' = FALSE
    /\ UNCHANGED <<dirs, daemon, jobs, world, dead, faults>>
-----------------------------------------------------------------------------
DeliveryNext ==
    \/ \E n \in Names : Deliver(n) \/ JobEnds(n)
    \/ Watcher
    \/ Dispatch
    \/ \E t \in Lifelong : LifelongDies(t)
    \/ Supervise

DeliverySpec == DeliveryInit /\ [][DeliveryNext]_delivery

(* The daemon's tasks keep running, the interval keeps ticking, and every job is
   bounded by JOB_MAX_RUNTIME_SECS.  The operator is taken not to leave the pause
   gate shut for ever.  Nothing makes a delivery or a fault happen. *)
DeliveryFairSpec ==
    /\ DeliverySpec
    /\ WF_delivery(Watcher)
    /\ WF_delivery(Dispatch)
    /\ \A n \in Names : WF_delivery(JobEnds(n))
    /\ WF_delivery(Supervise)
-----------------------------------------------------------------------------
(* Properties. *)

\* A job is started once, however often and under however many names its webhook
\* is spooled, as long as its marker is kept: archives are not pruned here, and a
\* replay that comes after the retention may run again (config.rs).  new/ may be enumerated again while the name waits in the channel,
\* and again after the job has ended, also in the middle of the claim of a copy.
\* Only a failing stat of try_claim's second look can start it again, so every
\* start beyond the first has cost a failing call.
RunsOnce == \A i \in Ids : runs[i] <= 1 + faults

(* What README.md says is accepted, and where the rest goes. *)
Declined(c) ==
    \/ {"event", "not queued"} \cap c.bad # {}
    \/ Lower[RunnerLabel] \notin {Lower[l] : l \in c.labels}
    \/ {Lower[l] : l \in c.labels} \ {Lower[a] : a \in RunnerLabels} # {}
Malformed(c) == c.bad \ {"event", "not queued"} # {}

\* An entry that was started fails no check.  One that is in done/ and was never
\* started is an event, an action or a set of labels that is not ours; one in
\* error/ is malformed, or a call failed.
FateExplained ==
    \A i \in Ids :
        IF runs[i] > 0 THEN ~Declined(says[i]) /\ ~Malformed(says[i])
        ELSE /\ NameOf(i) \in done => Declined(says[i])
             /\ NameOf(i) \in error /\ faults = 0 => Malformed(says[i])

\* A file in new/ whose name parses does not stay there: dropped events, failing
\* scans and claims, a full channel and used-up permits only delay it.
NewDrains ==
    \A n \in Names \ {Junk} :
        (n \in new /\ Regular(n)) ~> (n \notin new \/ ~up)

\* already_claimed_or_archived
Claimed(n) == n \in cur \cup done \cup error

\* list_active, for Bucket::Queued.
Listed(i) == NameOf(i) \in new /\ Verdict(NameOf(i)) = "run" /\ ~Claimed(NameOf(i))

\* What the control endpoint shows as queued is started, unless its file cannot be
\* read; it is never dropped behind the operator's back.
ListedRuns ==
    \A i \in Ids :
        (up /\ Listed(i)) ~> (runs[i] > 0 \/ NameOf(i) \in error \/ ~up)

=============================================================================
