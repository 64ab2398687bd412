-------------------------- MODULE MCTimerScheduler --------------------------
(* TimerScheduler with two rounds and three timers started in total:       *)
(* enough for a key to be restarted twice with the messages of the earlier *)
(* generations still in flight, or beside a timer of another round.        *)
EXTENDS TimerScheduler

MCBase  == [s \in Step |-> 1]
MCDelta == [s \in Step |-> 1]
=============================================================================
