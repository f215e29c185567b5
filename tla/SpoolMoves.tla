------------------------------ MODULE SpoolMoves ------------------------------
(***************************************************************************)
(* The spool as a reader of its directories sees it: which <id>.job is in  *)
(* new/, cur/, done/ and error/, since when, and the single moves by which *)
(* that changes.  Module Spool implements it (MovesSpec); module Listing   *)
(* reads it while it moves.                                                *)
(***************************************************************************)
EXTENDS Naturals

CONSTANTS
    Jobs,       \* workflow_job ids: the file names
    Retention   \* ARCHIVE_RETENTION_SECS, in clock ticks

VARIABLES
    new,                \* names in new/
    cur, done, error,   \* [Jobs -> File]
    clock

moves == <<new, cur, done, error, clock>>
-----------------------------------------------------------------------------
File == [there : BOOLEAN, mtime : Nat]
Absent == [there |-> FALSE, mtime |-> 0]
At(t) == [there |-> TRUE, mtime |-> t]
Dirs == {"done", "error"}

Marker(d, j) == IF d = "done" THEN done[j] ELSE error[j]
SetMarker(d, j, f) ==
    IF d = "done" THEN done' = [done EXCEPT ![j] = f] /\ UNCHANGED error
    ELSE error' = [error EXCEPT ![j] = f] /\ UNCHANGED done

Archived(j) == done[j].there \/ error[j].there

MovesInit ==
    /\ new = {}
    /\ cur = [j \in Jobs |-> Absent]
    /\ done = [j \in Jobs |-> Absent]
    /\ error = [j \in Jobs |-> Absent]
    /\ clock = 0

Deliver(j) ==
    /\ new' = new \cup {j}
    /\ UNCHANGED <<cur, done, error, clock>>

\* try_claim unlinks a duplicate.
Withdraw(j) ==
    /\ new' = new \ {j}
    /\ UNCHANGED <<cur, done, error, clock>>

\* try_claim's exclusive rename.
Claim(j) ==
    /\ j \in new /\ ~cur[j].there
    /\ new' = new \ {j}
    /\ cur' = [cur EXCEPT ![j] = At(clock)]
    /\ UNCHANGED <<done, error, clock>>

\* write_synthetic_claim's exclusive rename.
Mint(j) ==
    /\ ~cur[j].there
    /\ cur' = [cur EXCEPT ![j] = At(clock)]
    /\ UNCHANGED <<new, done, error, clock>>

\* try_claim takes the claim of a replay back; the marker may have been
\* pruned since.
Revert(j) ==
    /\ cur[j].there
    /\ Archived(j) \/ clock > Retention
    /\ cur' = [cur EXCEPT ![j] = Absent]
    /\ UNCHANGED <<new, done, error, clock>>

\* archive's rename keeps the claim's mtime; a marker that could not be moved
\* aside is overwritten.
Archive(d, j) ==
    /\ cur[j].there
    /\ SetMarker(d, j, cur[j])
    /\ cur' = [cur EXCEPT ![j] = Absent]
    /\ UNCHANGED <<new, clock>>

\* archive moves an older marker out of the way of a claim.
Aside(d, j) ==
    /\ cur[j].there /\ Marker(d, j).there
    /\ SetMarker(d, j, Absent)
    /\ UNCHANGED <<new, cur, clock>>

\* The rename after that has failed, and the marker goes back.
PutBack(d, j, t) ==
    /\ ~Marker(d, j).there
    /\ t <= clock
    /\ SetMarker(d, j, At(t))
    /\ UNCHANGED <<new, cur, clock>>

\* stamp_mtime_now.
Stamp(d, j) ==
    /\ Marker(d, j).there
    /\ SetMarker(d, j, At(clock))
    /\ UNCHANGED <<new, cur, clock>>

\* prune_archive_dir.
Prune(d, j) ==
    /\ Marker(d, j).there
    /\ clock > Marker(d, j).mtime + Retention
    /\ SetMarker(d, j, Absent)
    /\ UNCHANGED <<new, cur, clock>>

Tick == clock' = clock + 1 /\ UNCHANGED <<new, cur, done, error>>

MovesNext ==
    \/ \E j \in Jobs :
         \/ Deliver(j) \/ Withdraw(j) \/ Claim(j) \/ Mint(j) \/ Revert(j)
         \/ \E d \in Dirs :
              \/ Archive(d, j) \/ Aside(d, j) \/ Stamp(d, j) \/ Prune(d, j)
              \/ \E t \in 0..clock : PutBack(d, j, t)
    \/ Tick

SpoolMovesSpec == MovesInit /\ [][MovesNext]_moves
=============================================================================
