-------------------------------- MODULE MCReactor --------------------------------
(* Reactor for TLC: the constants are given in the cfg. *)
EXTENDS Reactor
================================================================================
