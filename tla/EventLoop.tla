------------------------------ MODULE EventLoop ------------------------------
(***************************************************************************)
(* One EventLoop: the thread inside loop(), the threads that hand it       *)
(* functors with queueInLoop() and those that stop it with quit().         *)
(*                                                                         *)
(* The grain is one action per lock section, atomic operation or system    *)
(* call, so that every interleaving between queueInLoop's push (under the  *)
(* mutex), its wakeupPending_.exchange and its eventfd write, and the      *)
(* loop's epoll_wait, eventfd read, drain and looping_ test is a           *)
(* behaviour.                                                              *)
(***************************************************************************)
EXTENDS Sequences

CONSTANTS Threads,    \* every thread that ever touches this loop
          Runner,     \* the thread that is inside loop()
          ThreadId,   \* threadId_: the thread that CONSTRUCTED the EventLoop
          Functors,   \* every closure ever queued; each one is queued once
          Quitters,   \* the threads that call quit(), each one at most once
          None        \* not a thread: the functor has not been queued

ASSUME ThreadsAssumption == /\ Runner \in Threads
                            /\ Quitters \subseteq Threads
                            /\ None \notin Threads

VARIABLES
    looping,                 \* looping_
    lpc,                     \* where Runner stands in loop()
    pendingFunctors,         \* pendingFunctors_, guarded by mutex_
    temp,                    \* what is left of the batch swapped out of it
    callingPendingFunctors,  \* callingPendingFunctors_
    wakeupPending,           \* wakeupPending_
    efd,                     \* the eventfd's counter is not zero
    ready,                   \* the eventfd is on epoll's ready list (an edge)
    wakeBatch,               \* handleWakeup is still due in this dispatch
    pc,                      \* where each thread stands in queueInLoop/quit
    mayQuit,                 \* the quitters that have not called quit() yet
    executed,                \* history: the functors started, in order
    by                       \* history: the thread that queued each functor

loopVars == <<looping, lpc, temp, callingPendingFunctors, wakeBatch, executed>>
wakeVars == <<wakeupPending, efd, ready>>
vars == <<loopVars, pendingFunctors, wakeVars, pc, mayQuit, by>>

LoopPcs == {"new", "check", "epoll", "dispatch", "drain", "run", "functor",
            "exited"}
CallPcs == {"idle", "exchange", "write"}

Init ==
    /\ looping = FALSE
    /\ lpc = "new"
    /\ pendingFunctors = <<>>
    /\ temp = <<>>
    /\ callingPendingFunctors = FALSE
    /\ wakeupPending = FALSE
    /\ efd = FALSE
    /\ ready = FALSE
    /\ wakeBatch = FALSE
    /\ pc = [t \in Threads |-> "idle"]
    /\ mayQuit = Quitters
    /\ executed = <<>>
    /\ by = [f \in Functors |-> None]

-----------------------------------------------------------------------------
(* queueInLoop() and quit(), from any thread.  Runner itself calls them    *)
(* from the callbacks it dispatches and from the functors it runs.         *)

InCallback == lpc \in {"dispatch", "functor"}

CanCall(t) == /\ pc[t] = "idle"
              /\ t = Runner => InCallback

(* The push of queueInLoop, under mutex_, and the first half of the test   *)
(* that follows it: only the thread recorded in threadId_ may skip the     *)
(* wake-up, and only while it is not running functors.                     *)
Push(t, f) ==
    /\ CanCall(t)
    /\ by[f] = None
    /\ pendingFunctors' = Append(pendingFunctors, f)
    /\ by' = [by EXCEPT ![f] = t]
    /\ pc' = [pc EXCEPT ![t] = IF t # ThreadId \/ callingPendingFunctors
                               THEN "exchange" ELSE "idle"]
    /\ UNCHANGED <<loopVars, wakeVars, mayQuit>>

(* wakeupPending_.exchange(true): only the caller that armed it writes.    *)
Exchange(t) ==
    /\ pc[t] = "exchange"
    /\ wakeupPending' = TRUE
    /\ pc' = [pc EXCEPT ![t] = IF wakeupPending THEN "idle" ELSE "write"]
    /\ UNCHANGED <<loopVars, pendingFunctors, efd, ready, mayQuit, by>>

(* wakeup().  The channel is edge-triggered: what the loop relies on is    *)
(* that the counter leaving zero is an edge, so no other write makes one.  *)
Write(t) ==
    /\ pc[t] = "write"
    /\ efd' = TRUE
    /\ ready' = (ready \/ ~efd)
    /\ pc' = [pc EXCEPT ![t] = "idle"]
    /\ UNCHANGED <<loopVars, pendingFunctors, wakeupPending, mayQuit, by>>

(* What quit() still has to do once looping_ is false: its wakeup().       *)
AfterStop_noWakeup == "idle"
AfterStop == "write"

(* quit(), up to its wakeup().  One that comes before loop() has set       *)
(* looping_ is undone by it: see Start, and what TcpServer makes of it.    *)
Quit(t) ==
    /\ CanCall(t)
    /\ t \in mayQuit
    /\ mayQuit' = mayQuit \ {t}
    /\ looping' = FALSE
    /\ pc' = [pc EXCEPT ![t] = AfterStop]
    /\ UNCHANGED <<lpc, temp, callingPendingFunctors, wakeBatch, executed,
                   pendingFunctors, wakeVars, by>>

-----------------------------------------------------------------------------
(* loop(), on Runner.                                                      *)

Start ==
    /\ lpc = "new"
    /\ looping' = TRUE
    /\ lpc' = "check"
    /\ UNCHANGED <<temp, callingPendingFunctors, wakeBatch, executed,
                   pendingFunctors, wakeVars, pc, mayQuit, by>>

Check ==
    /\ lpc = "check"
    /\ lpc' = IF looping THEN "epoll" ELSE "exited"
    /\ UNCHANGED <<looping, temp, callingPendingFunctors, wakeBatch, executed,
                   pendingFunctors, wakeVars, pc, mayQuit, by>>

(* epoll_wait returns the events of other channels, and the eventfd's when *)
(* it is on the ready list.                                                *)
EpollReturn ==
    /\ lpc = "epoll"
    /\ lpc' = "dispatch"
    /\ wakeBatch' = ready
    /\ ready' = FALSE
    /\ UNCHANGED <<looping, temp, callingPendingFunctors, executed,
                   pendingFunctors, wakeupPending, efd, pc, mayQuit, by>>

EpollTimeout ==
    /\ lpc = "epoll"
    /\ ~ready
    /\ lpc' = "drain"
    /\ UNCHANGED <<looping, temp, callingPendingFunctors, wakeBatch, executed,
                   pendingFunctors, wakeVars, pc, mayQuit, by>>

(* EINTR goes back to the loop test without draining.                      *)
EpollInterrupted ==
    /\ lpc = "epoll"
    /\ ~ready
    /\ lpc' = "check"
    /\ UNCHANGED <<looping, temp, callingPendingFunctors, wakeBatch, executed,
                   pendingFunctors, wakeVars, pc, mayQuit, by>>

(* handleWakeup() reads until EAGAIN, which leaves the counter at zero.    *)
CounterLeft == FALSE

(* The wake-up channel's read callback.                                    *)
HandleWakeup ==
    /\ lpc = "dispatch"
    /\ pc[Runner] = "idle"
    /\ wakeBatch
    /\ wakeBatch' = FALSE
    /\ efd' = CounterLeft
    /\ UNCHANGED <<looping, lpc, temp, callingPendingFunctors, executed,
                   pendingFunctors, wakeupPending, ready, pc, mayQuit, by>>

EndDispatch ==
    /\ lpc = "dispatch"
    /\ pc[Runner] = "idle"
    /\ ~wakeBatch
    /\ lpc' = "drain"
    /\ UNCHANGED <<looping, temp, callingPendingFunctors, wakeBatch, executed,
                   pendingFunctors, wakeVars, pc, mayQuit, by>>

(* What the drain leaves behind: the flag cleared when it finds nothing,   *)
(* an empty pendingFunctors_ when it swaps the batch out.                  *)
FlagLeft_armed == wakeupPending
FlagLeft == FALSE
PendingLeft_copied == pendingFunctors
PendingLeft == <<>>

(* One lock section: disarm when there is nothing left, else take a batch. *)
Disarm ==
    /\ lpc = "drain"
    /\ pendingFunctors = <<>>
    /\ wakeupPending' = FlagLeft
    /\ lpc' = "check"
    /\ UNCHANGED <<looping, temp, callingPendingFunctors, wakeBatch, executed,
                   pendingFunctors, efd, ready, pc, mayQuit, by>>

TakeBatch ==
    /\ lpc = "drain"
    /\ pendingFunctors # <<>>
    /\ temp' = pendingFunctors
    /\ pendingFunctors' = PendingLeft
    /\ callingPendingFunctors' = TRUE
    /\ lpc' = "run"
    /\ UNCHANGED <<looping, wakeBatch, executed, wakeVars, pc, mayQuit, by>>

RunFunctor ==
    /\ lpc = "run"
    /\ temp # <<>>
    /\ executed' = Append(executed, Head(temp))
    /\ temp' = Tail(temp)
    /\ lpc' = "functor"
    /\ UNCHANGED <<looping, callingPendingFunctors, wakeBatch,
                   pendingFunctors, wakeVars, pc, mayQuit, by>>

(* The functor returns, or throws and is caught: the loop goes on alike.   *)
EndFunctor ==
    /\ lpc = "functor"
    /\ pc[Runner] = "idle"
    /\ lpc' = "run"
    /\ UNCHANGED <<looping, temp, callingPendingFunctors, wakeBatch, executed,
                   pendingFunctors, wakeVars, pc, mayQuit, by>>

(* The flag that makes queueInLoop wake the loop from inside a functor.    *)
CallingAfterBatch_stuck == callingPendingFunctors
CallingAfterBatch == FALSE

(* One pass over pendingFunctors_ would be too few: see TakeBatch.         *)
EndBatch_singlePass ==
    /\ lpc = "run"
    /\ temp = <<>>
    /\ callingPendingFunctors' = CallingAfterBatch
    /\ wakeupPending' = FALSE
    /\ lpc' = "check"
    /\ UNCHANGED <<looping, temp, wakeBatch, executed,
                   pendingFunctors, efd, ready, pc, mayQuit, by>>

EndBatch ==
    /\ lpc = "run"
    /\ temp = <<>>
    /\ callingPendingFunctors' = CallingAfterBatch
    /\ lpc' = "drain"
    /\ UNCHANGED <<looping, temp, wakeBatch, executed,
                   pendingFunctors, wakeVars, pc, mayQuit, by>>

-----------------------------------------------------------------------------
Call(t) == \/ \E f \in Functors : Push(t, f)
           \/ Exchange(t)
           \/ Write(t)
           \/ Quit(t)

Loop == \/ Start \/ Check
        \/ EpollReturn \/ EpollTimeout \/ EpollInterrupted
        \/ HandleWakeup \/ EndDispatch
        \/ Disarm \/ TakeBatch \/ RunFunctor \/ EndFunctor \/ EndBatch

Next == Loop \/ \E t \in Threads : Call(t)

Spec == Init /\ [][Next]_vars

(* A thread inside queueInLoop or quit finishes it, and Runner goes on     *)
(* whenever it is not blocked.  epoll_wait returns when the eventfd is     *)
(* ready; that another channel fires, the 5 s timeout expires or a signal  *)
(* arrives is possible but promised to nobody.                             *)
Fairness ==
    /\ \A t \in Threads : WF_vars(Exchange(t) \/ Write(t))
    /\ WF_vars(Start \/ Check)
    /\ WF_vars(ready /\ EpollReturn)
    /\ WF_vars(HandleWakeup \/ EndDispatch)
    /\ WF_vars(Disarm \/ TakeBatch \/ RunFunctor \/ EndFunctor \/ EndBatch)

FairSpec == Spec /\ Fairness

-----------------------------------------------------------------------------
TypeOK ==
    /\ looping \in BOOLEAN
    /\ lpc \in LoopPcs
    /\ pendingFunctors \in Seq(Functors)
    /\ temp \in Seq(Functors)
    /\ callingPendingFunctors \in BOOLEAN
    /\ callingPendingFunctors <=> lpc \in {"run", "functor"}
    /\ wakeupPending \in BOOLEAN
    /\ efd \in BOOLEAN
    /\ ready \in BOOLEAN
    /\ wakeBatch \in BOOLEAN
    /\ pc \in [Threads -> CallPcs]
    /\ mayQuit \subseteq Quitters
    /\ executed \in Seq(Functors)
    /\ by \in [Functors -> Threads \cup {None}]

Queued(f) == \/ \E i \in DOMAIN pendingFunctors : pendingFunctors[i] = f
             \/ \E i \in DOMAIN temp : temp[i] = f
Executed(f) == \E i \in DOMAIN executed : executed[i] = f

(* The loop never blocks in epoll_wait on queued work that nobody is going *)
(* to announce: the eventfd is on the ready list, or a caller is between   *)
(* its push and the write that will put it there.  This is what the        *)
(* exchange in queueInLoop and the disarming of loop() under the lock owe  *)
(* each other; it fails if either is moved, and the loser waits for the    *)
(* 5 s timeout.                                                            *)
NoLostWakeup ==
    lpc = "epoll" /\ pendingFunctors # <<>> =>
        ready \/ \E t \in Threads : pc[t] \in {"exchange", "write"}

(* quit() is not lost either once loop() runs: a loop whose looping_ has   *)
(* been cleared is not blocked unless the caller of quit() is still about  *)
(* to wake it.                                                             *)
NoLostQuit ==
    lpc = "epoll" /\ ~looping =>
        ready \/ \E t \in Threads : pc[t] = "write"

(* A counter left non-zero with no edge outstanding would swallow every    *)
(* later wake-up, because an edge needs the counter to leave zero.         *)
EdgeNotSwallowed == efd => ready \/ wakeBatch

(* Every functor runs, or the loop is stopped first, and the 5 s timeout   *)
(* is never what gets it running.                                          *)
FunctorsServed ==
    \A f \in Functors : Queued(f) ~> (Executed(f) \/ lpc = "exited")

(* A quit() of a running loop ends it, without the timeout's help. (One    *)
(* that came before loop() set looping_ does not.)                         *)
QuitEndsLoop == (lpc # "new" /\ ~looping) ~> lpc = "exited"

Executor == INSTANCE TaskExecutor
                WITH queue <- temp \o pendingFunctors, done <- executed

(* The functors run one at a time in the order of their pushes, each once. *)
ImplementsExecutor == Executor!Spec
=============================================================================
