------------------------------ MODULE MCListing -------------------------------
(* Instances of Listing for TLC: the cfg files give the constants. *)
EXTENDS Listing
=============================================================================
