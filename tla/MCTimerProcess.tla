----------------------------- MODULE MCTimerProcess ----------------------------
(* TimerProcess with packet 1 and a later one, and the samples 0, the one   *)
(* before any reply, and 20001 microseconds.                                *)
EXTENDS TimerProcess
===============================================================================
