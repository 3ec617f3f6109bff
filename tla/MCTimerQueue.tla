---------------------------- MODULE MCTimerQueue ----------------------------
(* Three timers, two of them repeating and two cancellable. *)
EXTENDS TimerQueue
=============================================================================
