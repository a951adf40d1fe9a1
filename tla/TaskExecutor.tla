---------------------------- MODULE TaskExecutor ----------------------------
(***************************************************************************)
(* What EventLoop promises to the callers of queueInLoop, with no thread,  *)
(* lock, eventfd or batch in it: an accepted functor joins one FIFO queue, *)
(* and the loop runs the functors one at a time in the order in which they *)
(* were accepted, each of them once.  EventLoop.tla implements it.         *)
(***************************************************************************)
EXTENDS Sequences

CONSTANT Functors     \* the closures ever handed to queueInLoop, each one once

VARIABLES queue,      \* accepted, not yet started
          done        \* started, in the order in which they were started

vars == <<queue, done>>

Init == /\ queue = <<>>
        /\ done = <<>>

(* A functor is accepted at most once: it is in neither queue nor done.    *)
Submit(f) ==
    /\ \A i \in DOMAIN queue : queue[i] # f
    /\ \A i \in DOMAIN done : done[i] # f
    /\ queue' = Append(queue, f)
    /\ UNCHANGED done

Execute ==
    /\ queue # <<>>
    /\ done' = Append(done, Head(queue))
    /\ queue' = Tail(queue)

Next == Execute \/ \E f \in Functors : Submit(f)

Spec == Init /\ [][Next]_vars
=============================================================================
