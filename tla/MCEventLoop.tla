----------------------------- MODULE MCEventLoop -----------------------------
(* Instances of EventLoop for TLC: an IO or main loop (threadId_ is the     *)
(* thread that runs it) and a ThreadPool worker loop (threadId_ is the      *)
(* thread that constructed the pool, which is not the one running it).      *)
EXTENDS EventLoop

CONSTANTS loop, main, io, f1, f2

ThreeThreads == {loop, main, io}
TwoFunctors  == {f1, f2}

NoQuitter       == {}
MainAndLoopQuit == {main, loop}
=============================================================================
