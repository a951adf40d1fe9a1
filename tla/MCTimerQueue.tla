---------------------------- MODULE MCTimerQueue ----------------------------
(* Instances of TimerQueue for TLC.  Six timers are the fewest for which   *)
(* the entry that fills a hole in the middle of the heap has to move up.    *)
EXTENDS TimerQueue

(* A repeating timer that is due at once, its interval cut to one tick, and *)
(* one that is due a tick later.                                            *)
TwoKinds == {<<0, 3>>, <<1, 0>>}
=============================================================================
