------------------------------ MODULE MCTimerWheel ------------------------------
(* TimerWheel for TLC: the turns of the wheels, from the sizes in the cfg. *)
EXTENDS TimerWheel

MCSpan == [l \in 0 .. TIME_LEVEL_COUNT |-> TIME_NEAR * TIME_LEVEL^l]
================================================================================
