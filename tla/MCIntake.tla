------------------------------ MODULE MCIntake ------------------------------
(* Instances of Intake for TLC: the cfg files give the constants. *)
EXTENDS Intake
=============================================================================
