----------------------------- MODULE MCHostFiles ------------------------------
(* Instances of HostFiles for TLC: the cfg files give the constants. *)
EXTENDS HostFiles
=============================================================================
