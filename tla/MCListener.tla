------------------------------- MODULE MCListener -------------------------------
(* Listener for TLC: the constants are given in the cfg. *)
EXTENDS Listener
================================================================================
