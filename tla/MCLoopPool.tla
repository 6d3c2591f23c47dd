------------------------------- MODULE MCLoopPool -------------------------------
(* LoopPool for TLC: the constants are given in the cfg. *)
EXTENDS LoopPool
================================================================================
