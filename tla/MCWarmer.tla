------------------------------- MODULE MCWarmer -------------------------------
(* Instances of Warmer for TLC: the cfg files give the constants. *)
EXTENDS Warmer
=============================================================================
