------------------------- MODULE MCDispatchWatchdog -------------------------
(* Instances of DispatchWatchdog for TLC: the cfg files give the constants. *)
EXTENDS DispatchWatchdog
=============================================================================
