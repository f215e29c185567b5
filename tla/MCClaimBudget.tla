--------------------------- MODULE MCClaimBudget ---------------------------
(* Instances of ClaimBudget for TLC: the cfg files give the constants. *)
EXTENDS ClaimBudget
=============================================================================
