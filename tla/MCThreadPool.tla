---------------------------- MODULE MCThreadPool ----------------------------
(* Instances of ThreadPool for TLC: up to four calls of tryRun in flight at *)
(* once, on pools of none, one or two workers.                              *)
EXTENDS ThreadPool

CONSTANTS c1, c2, c3, c4

FourCalls  == {c1, c2, c3, c4}

NoneToTwo == 0 .. 2
=============================================================================
