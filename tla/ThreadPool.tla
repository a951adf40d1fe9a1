----------------------------- MODULE ThreadPool -----------------------------
(***************************************************************************)
(* The worker pool: tryRun() from any number of IO threads at once, the    *)
(* worker loops that run the tasks, and stop().                            *)
(*                                                                         *)
(* A call of tryRun is followed from its fetch_add to the end of its task. *)
(* Each worker runs an EventLoop; of it the pool sees that queued tasks    *)
(* are taken in batches, that a batch taken is run to its end, and that a  *)
(* loop told to quit may return with tasks still queued (EventLoop.tla).   *)
(***************************************************************************)
EXTENDS Integers, FiniteSets

CONSTANTS Calls,           \* the calls of tryRun, each with its task
          PoolSizes,       \* the numbers of threads a pool is built with
          maxQueueSize,    \* maxQueueSize_; 0 is no limit
          SizeModulus      \* inFlight_ is a size_t: it counts modulo this

ASSUME PoolAssumption ==
    /\ IsFiniteSet(Calls)
    /\ PoolSizes \subseteq Nat
    /\ maxQueueSize \in Nat
    /\ SizeModulus \in Nat
    /\ Cardinality(Calls) < SizeModulus

VARIABLES numThreads, \* loops_.size(): the workers are 0 .. numThreads - 1
          inFlight,   \* inFlight_
          next,       \* next_
          place,      \* how far each call and its task have got
          worker,     \* the loop each task was given to, -1 before that
          looping,    \* is worker w still inside loop()?
          told,       \* has stop() called quit() on the loops?
          stopPc      \* where the main thread stands in stop()

vars == <<numThreads, inFlight, next, place, worker, looping, told, stopPc>>

Workers == 0 .. numThreads - 1

Places == {"new", "refusing", "refused", "accepted", "placed", "queued",
           "batch", "running", "done"}

Init ==
    /\ numThreads \in PoolSizes
    /\ inFlight = 0
    /\ next = 0
    /\ place = [c \in Calls |-> "new"]
    /\ worker = [c \in Calls |-> -1]
    /\ looping = [w \in Workers |-> TRUE]
    /\ told = FALSE
    /\ stopPc = "serving"

At(p) == {c \in Calls : place[c] = p}
Of(w, p) == {c \in At(p) : worker[c] = w}
Move(c, p) == place' = [place EXCEPT ![c] = p]

(* size_t arithmetic.                                                      *)
Wrap(n) == n % SizeModulus

-----------------------------------------------------------------------------
(* tryRun() on an IO thread.                                               *)

(* The test on the value that fetch_add returned.                          *)
Full_offByOne(v) == maxQueueSize > 0 /\ v > maxQueueSize
Full(v) == maxQueueSize > 0 /\ v >= maxQueueSize

HasLoops == numThreads > 0

FetchAdd(c) ==
    /\ place[c] = "new"
    /\ HasLoops
    /\ inFlight' = Wrap(inFlight + 1)
    /\ Move(c, IF Full(inFlight) THEN "refusing" ELSE "accepted")
    /\ UNCHANGED <<numThreads, next, worker, looping, told, stopPc>>

(* A pool without threads refuses before it counts.                        *)
NoLoops(c) ==
    /\ place[c] = "new"
    /\ ~HasLoops
    /\ Move(c, "refused")
    /\ UNCHANGED <<numThreads, inFlight, next, worker, looping, told, stopPc>>

AfterRefusal_kept == inFlight
AfterRefusal == Wrap(inFlight - 1)

RollBack(c) ==
    /\ place[c] = "refusing"
    /\ inFlight' = AfterRefusal
    /\ Move(c, "refused")
    /\ UNCHANGED <<numThreads, next, worker, looping, told, stopPc>>

(* The round-robin ticket: next_.fetch_add(1) % loops_.size().             *)
Pick_offByOne(n) == 1 + (n % numThreads)
Pick(n) == n % numThreads

TakeTicket(c) ==
    /\ place[c] = "accepted"
    /\ worker' = [worker EXCEPT ![c] = Pick(next)]
    /\ next' = next + 1
    /\ Move(c, "placed")
    /\ UNCHANGED <<numThreads, inFlight, looping, told, stopPc>>

QueueInLoop(c) ==
    /\ place[c] = "placed"
    /\ Move(c, "queued")
    /\ UNCHANGED <<numThreads, inFlight, next, worker, looping, told, stopPc>>

-----------------------------------------------------------------------------
(* workerFunc(): worker w inside its loop().                               *)

TakeBatch(w) ==
    /\ looping[w]
    /\ Of(w, "batch") \cup Of(w, "running") = {}
    /\ Of(w, "queued") # {}
    /\ place' = [c \in Calls |-> IF c \in Of(w, "queued") THEN "batch"
                                 ELSE place[c]]
    /\ UNCHANGED <<numThreads, inFlight, next, worker, looping, told, stopPc>>

Run(w, c) ==
    /\ looping[w]
    /\ c \in Of(w, "batch")
    /\ Of(w, "running") = {}
    /\ Move(c, "running")
    /\ UNCHANGED <<numThreads, inFlight, next, worker, looping, told, stopPc>>

(* The task returns or throws, and the wrapper gives its place back.       *)
AfterTask == Wrap(inFlight - 1)

Finish(w, c) ==
    /\ c \in Of(w, "running")
    /\ inFlight' = AfterTask
    /\ Move(c, "done")
    /\ UNCHANGED <<numThreads, next, worker, looping, told, stopPc>>

MayReturn_drained(w) == told /\ inFlight = 0
MayReturn(w) == told /\ Of(w, "batch") \cup Of(w, "running") = {}

LoopReturns(w) ==
    /\ looping[w]
    /\ MayReturn(w)
    /\ looping' = [looping EXCEPT ![w] = FALSE]
    /\ UNCHANGED <<numThreads, inFlight, next, place, worker, told, stopPc>>

-----------------------------------------------------------------------------
(* stop() on the main thread, once every worker is inside loop(), as       *)
(* ThreadPool.h asks.  The IO threads may go on calling tryRun.            *)

StopQuits ==
    /\ stopPc = "serving"
    /\ told' = TRUE
    /\ stopPc' = "joining"
    /\ UNCHANGED <<numThreads, inFlight, next, place, worker, looping>>

AllJoined == \A w \in Workers : ~looping[w]

StopJoined ==
    /\ stopPc = "joining"
    /\ AllJoined
    /\ stopPc' = "joined"
    /\ UNCHANGED <<numThreads, inFlight, next, place, worker, looping, told>>

StopClears ==
    /\ stopPc = "joined"
    /\ inFlight' = 0
    /\ stopPc' = "stopped"
    /\ UNCHANGED <<numThreads, next, place, worker, looping, told>>

-----------------------------------------------------------------------------
TryRun(c) == FetchAdd(c) \/ NoLoops(c) \/ RollBack(c) \/ TakeTicket(c)
             \/ QueueInLoop(c)

WorkerStep(w) == \/ TakeBatch(w)
                 \/ \E c \in Calls : Run(w, c) \/ Finish(w, c)
                 \/ LoopReturns(w)

Stop == StopQuits \/ StopJoined \/ StopClears

Next == \/ \E c \in Calls : TryRun(c)
        \/ \E w \in Workers : WorkerStep(w)
        \/ Stop

Spec == Init /\ [][Next]_vars

(* A call that has begun returns, workers run what they took and look      *)
(* again, a stop() that has begun goes on.  Nobody has to call either.     *)
Fairness ==
    /\ \A c \in Calls : WF_vars(RollBack(c) \/ TakeTicket(c) \/ QueueInLoop(c))
    /\ \A n \in PoolSizes : \A w \in 0 .. n - 1 :
           WF_vars(w \in Workers /\ WorkerStep(w))
    /\ WF_vars(StopJoined \/ StopClears)

FairSpec == Spec /\ Fairness

-----------------------------------------------------------------------------
(* Accepted and not finished: what the limit is about.                     *)
Unfinished == At("accepted") \cup At("placed") \cup At("queued")
              \cup At("batch") \cup At("running")

TypeOK ==
    /\ numThreads \in PoolSizes
    /\ inFlight \in 0 .. SizeModulus - 1
    /\ next \in Nat
    /\ place \in [Calls -> Places]
    /\ worker \in [Calls -> Workers \cup {-1}]
    /\ looping \in [Workers -> BOOLEAN]
    /\ told \in BOOLEAN
    /\ stopPc \in {"serving", "joining", "joined", "stopped"}
    /\ told <=> stopPc # "serving"
    /\ numThreads = 0 => Unfinished = {}

(* Until stop() clears it, inFlight_ is exactly the accepted tasks that    *)
(* have not finished plus the calls about to roll their increment back: no *)
(* interleaving of tryRun, tasks and refusals leaks or loses one, and a    *)
(* drained pool shows 0 to drainCheck.                                     *)
CounterExact ==
    stopPc # "stopped" =>
        inFlight = Cardinality(Unfinished) + Cardinality(At("refusing"))

(* The limit is never passed, however many IO threads call tryRun at once: *)
(* the value fetch_add returns is tested, not a value loaded before.       *)
BoundRespected ==
    maxQueueSize > 0 /\ stopPc # "stopped" =>
        Cardinality(Unfinished) <= maxQueueSize

(* Every accepted task runs, unless the pool is being stopped.             *)
AcceptedFinish ==
    \A c \in Calls : place[c] = "accepted" ~> (place[c] = "done" \/ told)

(* stop() returns.                                                         *)
StopEnds == told ~> stopPc = "stopped"
=============================================================================
