---------------------------- MODULE MCTimerQueue ----------------------------
(* Instances of TimerQueue for TLC.                                        *)
EXTENDS TimerQueue

CONSTANTS c1, c2
=============================================================================
