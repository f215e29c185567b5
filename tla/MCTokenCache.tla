----------------------------- MODULE MCTokenCache -----------------------------
(* Instances of TokenCache for TLC: the cfg files give the constants. *)
EXTENDS TokenCache
=============================================================================
