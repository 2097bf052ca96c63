---------------------------- MODULE MCTimerQueue ----------------------------
(* TimerQueue for TLC: three timers, two of them of one object.              *)
EXTENDS TimerQueue

MCTimers == 1..3
MCObj == [t \in MCTimers |-> IF t = 3 THEN 2 ELSE 1]
=============================================================================
