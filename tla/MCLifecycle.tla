---------------------------- MODULE MCLifecycle ----------------------------
(* Instances of Lifecycle for TLC: the cfg files give the constants. *)
EXTENDS Lifecycle, TLC

SlotSymmetry == Permutations(Slots)
=============================================================================
