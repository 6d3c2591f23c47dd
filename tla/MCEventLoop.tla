------------------------------ MODULE MCEventLoop ------------------------------
(* EventLoop for TLC: the constants are given in the cfg. *)
EXTENDS EventLoop
================================================================================
