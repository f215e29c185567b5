----------------------------- MODULE ClaimStore -----------------------------
(***************************************************************************)
(* What the spool promises its users, with the directories and the system  *)
(* calls left out.  Every workflow_job id is in one of three states:       *)
(*   "free"      nobody is working on it and no archive marker remembers   *)
(*               it, so a webhook delivery may start it;                   *)
(*   "owned"     exactly one claim exists for it;                          *)
(*   "archived"  a done/ or error/ marker remembers it, so a webhook       *)
(*               delivery is a replay and must not start it.               *)
(* Spool implements this module: see Spool!Claims.                         *)
(***************************************************************************)
CONSTANT Jobs

VARIABLE status

Statuses == {"free", "owned", "archived"}

TypeOK == status \in [Jobs -> Statuses]

Init == status = [j \in Jobs |-> "free"]

(* A webhook delivery takes a job nobody has, never one that is archived. *)
Claim(j) ==
    /\ status[j] = "free"
    /\ status' = [status EXCEPT ![j] = "owned"]

(* The reconciler takes a job GitHub still reports as queued, archived or
   not, but never one that is owned. *)
Mint(j) ==
    /\ status[j] # "owned"
    /\ status' = [status EXCEPT ![j] = "owned"]

(* The owner files its claim. *)
Finish(j) ==
    /\ status[j] = "owned"
    /\ status' = [status EXCEPT ![j] = "archived"]

(* The archive's retention window ran out. *)
Forget(j) ==
    /\ status[j] = "archived"
    /\ status' = [status EXCEPT ![j] = "free"]

Next == \E j \in Jobs : Claim(j) \/ Mint(j) \/ Finish(j) \/ Forget(j)

Spec == Init /\ [][Next]_status
=============================================================================
