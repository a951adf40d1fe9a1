-------------------------- MODULE ThreadPoolProofs --------------------------
(***************************************************************************)
(* For any number of calls, workers and any limit: the pool's counter is   *)
(* exact until stop() clears it, and the limit is never passed.            *)
(***************************************************************************)
EXTENDS ThreadPool, FiniteSetTheorems, TLAPS

(* The calls that will take their increment back.                          *)
Refusing == At("refusing")

USE PoolAssumption DEF Places, Workers

-----------------------------------------------------------------------------
(* The counter adds up two disjoint sets of calls, so that it never leaves *)
(* the range in which size_t arithmetic is that of the naturals.           *)
LEMMA SetsFinite ==
    /\ IsFiniteSet(Unfinished) /\ IsFiniteSet(Refusing)
    /\ Cardinality(Unfinished) \in Nat /\ Cardinality(Refusing) \in Nat
    /\ Cardinality(Calls) \in Nat
<1>1. Unfinished \in SUBSET Calls /\ Refusing \in SUBSET Calls
  BY DEF Unfinished, Refusing, At
<1> QED
  BY <1>1, FS_Subset, FS_CardinalityType

LEMMA TotalBounded ==
    /\ Cardinality(Unfinished) + Cardinality(Refusing) <= Cardinality(Calls)
    /\ At("new") # {} =>
           Cardinality(Unfinished) + Cardinality(Refusing) < Cardinality(Calls)
<1>1. /\ Unfinished \cap Refusing = {}
      /\ Unfinished \cup Refusing \in SUBSET Calls
  BY DEF Unfinished, Refusing, At
<1>2. Cardinality(Unfinished \cup Refusing)
          = Cardinality(Unfinished) + Cardinality(Refusing)
  <2>1. Cardinality(Unfinished \cap Refusing) = 0
    BY <1>1, FS_EmptySet
  <2>2. Cardinality(Unfinished \cup Refusing)
            = Cardinality(Unfinished) + Cardinality(Refusing)
                  - Cardinality(Unfinished \cap Refusing)
    BY ONLY SetsFinite, FS_Union
  <2> QED
    BY <2>1, <2>2, SetsFinite
<1>3. /\ Cardinality(Unfinished \cup Refusing) <= Cardinality(Calls)
      /\ Cardinality(Calls) = Cardinality(Unfinished \cup Refusing)
            => Calls = Unfinished \cup Refusing
  <2> DEFINE T == Unfinished \cup Refusing
  <2>1. T \in SUBSET Calls
    BY <1>1
  <2> HIDE DEF T
  <2>2. /\ Cardinality(T) <= Cardinality(Calls)
        /\ Cardinality(Calls) = Cardinality(T) => Calls = T
    BY <2>1, FS_Subset
  <2> QED
    BY <2>2 DEF T
<1>4. At("new") # {} => Unfinished \cup Refusing # Calls
  BY DEF Unfinished, Refusing, At
<1> QED
  BY <1>2, <1>3, <1>4, SetsFinite

LEMMA WrapInRange ==
    /\ \A n \in 0 .. Cardinality(Calls) : Wrap(n) = n
    /\ \A n \in Int : Wrap(n) \in 0 .. SizeModulus - 1
    /\ 0 \in 0 .. SizeModulus - 1
<1>1. /\ Cardinality(Calls) \in Nat /\ SizeModulus \in Nat \ {0}
      /\ Cardinality(Calls) < SizeModulus
  BY SetsFinite
<1> QED
  BY ONLY <1>1 DEF Wrap

-----------------------------------------------------------------------------
(* The pool's state keeps its types, and a pool without workers stays      *)
(* empty, so that no ticket is ever taken modulo zero.                     *)
LEMMA TypeStep == TypeOK /\ [Next]_vars => TypeOK'
<1> SUFFICES ASSUME TypeOK, [Next]_vars PROVE TypeOK'
  OBVIOUS
<1> USE DEF TypeOK, Unfinished, At
<1>1. ASSUME NEW c \in Calls, FetchAdd(c) PROVE TypeOK'
  <2>1. Wrap(inFlight + 1) \in 0 .. SizeModulus - 1
    <3>1. inFlight + 1 \in Int
      OBVIOUS
    <3> QED
      BY ONLY <3>1, WrapInRange
  <2> QED
    BY <1>1, <2>1 DEF FetchAdd, Move, HasLoops
<1>2. ASSUME NEW c \in Calls, RollBack(c) PROVE TypeOK'
  <2>1. Wrap(inFlight - 1) \in 0 .. SizeModulus - 1
    <3>1. inFlight - 1 \in Int
      OBVIOUS
    <3> QED
      BY ONLY <3>1, WrapInRange
  <2> QED
    BY <1>2, <2>1 DEF RollBack, Move, AfterRefusal
<1>3. ASSUME NEW c \in Calls, TakeTicket(c) PROVE TypeOK'
  <2>1. numThreads # 0
    BY <1>3 DEF TakeTicket
  <2>2. Pick(next) \in Workers
    BY <2>1 DEF Pick
  <2> QED
    BY <1>3, <2>1, <2>2 DEF TakeTicket, Move
<1>4. ASSUME NEW c \in Calls, NoLoops(c) \/ QueueInLoop(c) PROVE TypeOK'
  BY <1>4 DEF NoLoops, QueueInLoop, Move
<1>5. ASSUME NEW w \in Workers, TakeBatch(w) PROVE TypeOK'
  BY <1>5 DEF TakeBatch, Of
<1>6. ASSUME NEW w \in Workers, NEW c \in Calls, Run(w, c) PROVE TypeOK'
  BY <1>6 DEF Run, Move, Of
<1>7. ASSUME NEW w \in Workers, NEW c \in Calls, Finish(w, c) PROVE TypeOK'
  <2>1. Wrap(inFlight - 1) \in 0 .. SizeModulus - 1
    <3>1. inFlight - 1 \in Int
      OBVIOUS
    <3> QED
      BY ONLY <3>1, WrapInRange
  <2> QED
    BY <1>7, <2>1 DEF Finish, Move, Of, AfterTask
<1>8. ASSUME NEW w \in Workers, LoopReturns(w) PROVE TypeOK'
  BY <1>8 DEF LoopReturns
<1>9. CASE Stop
  <2>1. UNCHANGED <<numThreads, next, place, worker, looping>>
    BY <1>9 DEF Stop, StopQuits, StopJoined, StopClears
  <2>2. inFlight' \in 0 .. SizeModulus - 1
    <3>1. inFlight' = inFlight \/ inFlight' = 0
      BY <1>9 DEF Stop, StopQuits, StopJoined, StopClears
    <3>2. inFlight \in 0 .. SizeModulus - 1
      OBVIOUS
    <3> QED
      BY ONLY <3>1, <3>2, WrapInRange
  <2>3. /\ told' \in BOOLEAN
        /\ stopPc' \in {"serving", "joining", "joined", "stopped"}
        /\ told' <=> stopPc' # "serving"
    BY <1>9 DEF Stop, StopQuits, StopJoined, StopClears
  <2> QED
    BY <2>1, <2>2, <2>3
<1>10. CASE UNCHANGED vars
  BY <1>10 DEF vars
<1> QED
  BY <1>1, <1>2, <1>3, <1>4, <1>5, <1>6, <1>7, <1>8, <1>9, <1>10
     DEF Next, TryRun, WorkerStep

(* The pool's variables keep their types, inFlight_ within a size_t.       *)
THEOREM TypeCorrect == Spec => []TypeOK
<1>1. Init => TypeOK
  <2> SUFFICES ASSUME Init PROVE TypeOK
    OBVIOUS
  <2>1. Unfinished = {}
    BY DEF Init, Unfinished, At
  <2> QED
    BY <2>1, WrapInRange DEF Init, TypeOK
<1> QED
  BY <1>1, TypeStep, PTL DEF Spec

-----------------------------------------------------------------------------
(* What moving one call does to the two sets.                              *)
LEMMA CallMoves ==
    ASSUME TypeOK, NEW c \in Calls, NEW p \in Places, Move(c, p)
    PROVE  /\ p \in {"refused", "done"} =>
                  /\ Unfinished' = Unfinished \ {c}
                  /\ Refusing' = Refusing \ {c}
           /\ p = "refusing" => /\ Unfinished' = Unfinished \ {c}
                                /\ Refusing' = Refusing \cup {c}
           /\ p \in {"accepted", "placed", "queued", "batch", "running"} =>
                  /\ Unfinished' = Unfinished \cup {c}
                  /\ Refusing' = Refusing \ {c}
<1>1. \A d \in Calls : place'[d] = IF d = c THEN p ELSE place[d]
  BY DEF Move, TypeOK
<1> QED
  BY <1>1 DEF Unfinished, Refusing, At

LEMMA CounterStep ==
    TypeOK /\ CounterExact /\ BoundRespected /\ [Next]_vars
        => CounterExact' /\ BoundRespected'
<1> SUFFICES ASSUME TypeOK, CounterExact, BoundRespected, [Next]_vars
             PROVE  CounterExact' /\ BoundRespected'
  OBVIOUS
<1> DEFINE u == Cardinality(Unfinished)
           r == Cardinality(Refusing)
<1>a. /\ u \in Nat /\ r \in Nat /\ Cardinality(Calls) \in Nat
      /\ inFlight \in Int
      /\ stopPc # "stopped" => inFlight = u + r
      /\ maxQueueSize > 0 /\ stopPc # "stopped" => u <= maxQueueSize
  BY SetsFinite DEF TypeOK, CounterExact, BoundRespected, Refusing
<1>b. SUFFICES /\ stopPc' # "stopped" => inFlight' = u' + r'
               /\ maxQueueSize > 0 /\ stopPc' # "stopped" => u' <= maxQueueSize
  BY DEF CounterExact, BoundRespected, Refusing
<1>c. ASSUME u' = u, r' = r, inFlight' = inFlight,
             stopPc' # "stopped" => stopPc # "stopped"
      PROVE  /\ stopPc' # "stopped" => inFlight' = u' + r'
             /\ maxQueueSize > 0 /\ stopPc' # "stopped" => u' <= maxQueueSize
  BY <1>a, <1>c
<1> HIDE DEF u, r
<1>1. ASSUME NEW c \in Calls, FetchAdd(c)
      PROVE  /\ stopPc' # "stopped" => inFlight' = u' + r'
             /\ maxQueueSize > 0 /\ stopPc' # "stopped" => u' <= maxQueueSize
  <2>1. c \notin Unfinished /\ c \notin Refusing /\ c \in At("new")
    BY <1>1 DEF FetchAdd, Unfinished, Refusing, At
  <2>2. u + r < Cardinality(Calls)
    BY <2>1, TotalBounded DEF u, r
  <2>3. stopPc # "stopped" => Wrap(inFlight + 1) = u + r + 1
    BY <2>2, <1>a, WrapInRange
  <2>4. CASE Full(inFlight)
    <3>1. Unfinished' = Unfinished \ {c} /\ Refusing' = Refusing \cup {c}
      BY <1>1, <2>4, CallMoves DEF FetchAdd
    <3>2. u' = u /\ r' = r + 1
      BY <2>1, <3>1, SetsFinite, FS_AddElement, FS_RemoveElement DEF u, r
    <3> QED
      BY <1>1, <1>a, <2>3, <3>2 DEF FetchAdd
  <2>5. CASE ~Full(inFlight)
    <3>1. Unfinished' = Unfinished \cup {c} /\ Refusing' = Refusing \ {c}
      BY <1>1, <2>5, CallMoves DEF FetchAdd
    <3>2. u' = u + 1 /\ r' = r
      BY <2>1, <3>1, SetsFinite, FS_AddElement, FS_RemoveElement DEF u, r
    <3> QED
      BY <1>1, <1>a, <2>3, <2>5, <3>2 DEF FetchAdd, Full
  <2> QED
    BY <2>4, <2>5
<1>2. ASSUME NEW c \in Calls, RollBack(c)
      PROVE  /\ stopPc' # "stopped" => inFlight' = u' + r'
             /\ maxQueueSize > 0 /\ stopPc' # "stopped" => u' <= maxQueueSize
  <2>1. c \notin Unfinished /\ c \in Refusing
    BY <1>2 DEF RollBack, Unfinished, Refusing, At
  <2>2. Unfinished' = Unfinished \ {c} /\ Refusing' = Refusing \ {c}
    BY <1>2, CallMoves DEF RollBack
  <2>3. u' = u /\ r' = r - 1
    BY <2>1, <2>2, SetsFinite, FS_RemoveElement DEF u, r
  <2>4. r' \in Nat /\ u + r <= Cardinality(Calls)
    BY <2>2, SetsFinite, TotalBounded, FS_RemoveElement, FS_CardinalityType
       DEF u, r
  <2>5. stopPc # "stopped" => Wrap(inFlight - 1) = u + r - 1
    BY <1>a, <2>3, <2>4, WrapInRange
  <2> QED
    BY <1>2, <1>a, <2>3, <2>5 DEF RollBack, AfterRefusal
<1>3. ASSUME NEW w \in Workers, NEW c \in Calls, Finish(w, c)
      PROVE  /\ stopPc' # "stopped" => inFlight' = u' + r'
             /\ maxQueueSize > 0 /\ stopPc' # "stopped" => u' <= maxQueueSize
  <2>1. c \in Unfinished /\ c \notin Refusing
    BY <1>3 DEF Finish, Of, Unfinished, Refusing, At
  <2>2. Unfinished' = Unfinished \ {c} /\ Refusing' = Refusing \ {c}
    BY <1>3, CallMoves DEF Finish
  <2>3. u' = u - 1 /\ r' = r
    BY <2>1, <2>2, SetsFinite, FS_RemoveElement DEF u, r
  <2>4. u' \in Nat /\ u + r <= Cardinality(Calls)
    BY <2>2, SetsFinite, TotalBounded, FS_RemoveElement, FS_CardinalityType
       DEF u, r
  <2>5. stopPc # "stopped" => Wrap(inFlight - 1) = u + r - 1
    BY <1>a, <2>3, <2>4, WrapInRange
  <2> QED
    BY <1>3, <1>a, <2>3, <2>5 DEF Finish, AfterTask
<1>4. ASSUME NEW c \in Calls, NoLoops(c) \/ TakeTicket(c) \/ QueueInLoop(c)
      PROVE  u' = u /\ r' = r
  <2>1. CASE NoLoops(c)
    <3>1. c \notin Unfinished /\ c \notin Refusing
      BY <2>1 DEF NoLoops, Unfinished, Refusing, At
    <3>2. Unfinished' = Unfinished \ {c} /\ Refusing' = Refusing \ {c}
      BY <2>1, CallMoves DEF NoLoops
    <3> QED
      BY <3>1, <3>2, SetsFinite, FS_RemoveElement DEF u, r
  <2>2. CASE TakeTicket(c) \/ QueueInLoop(c)
    <3>1. c \in Unfinished /\ c \notin Refusing
      BY <2>2 DEF TakeTicket, QueueInLoop, Unfinished, Refusing, At
    <3>2. Unfinished' = Unfinished \cup {c} /\ Refusing' = Refusing \ {c}
      BY <2>2, CallMoves DEF TakeTicket, QueueInLoop
    <3> QED
      BY <3>1, <3>2, SetsFinite, FS_RemoveElement, FS_AddElement DEF u, r
  <2> QED
    BY <1>4, <2>1, <2>2
<1>5. ASSUME NEW w \in Workers, TakeBatch(w) PROVE u' = u /\ r' = r
  <2>1. Unfinished' = Unfinished /\ Refusing' = Refusing
    BY <1>5 DEF TakeBatch, Of, Unfinished, Refusing, At, TypeOK
  <2> QED
    BY <2>1 DEF u, r
<1>6. ASSUME NEW w \in Workers, NEW c \in Calls, Run(w, c)
      PROVE  u' = u /\ r' = r
  <2>1. c \in Unfinished /\ c \notin Refusing
    BY <1>6 DEF Run, Of, Unfinished, Refusing, At
  <2>2. Unfinished' = Unfinished \cup {c} /\ Refusing' = Refusing \ {c}
    BY <1>6, CallMoves DEF Run
  <2> QED
    BY <2>1, <2>2, SetsFinite, FS_RemoveElement, FS_AddElement DEF u, r
<1>7. ASSUME UNCHANGED place PROVE u' = u /\ r' = r
  BY <1>7 DEF u, r, Unfinished, Refusing, At
<1>8. CASE \E c \in Calls : NoLoops(c) \/ TakeTicket(c) \/ QueueInLoop(c)
  BY <1>8, <1>4, <1>c DEF NoLoops, TakeTicket, QueueInLoop
<1>9. CASE \E w \in Workers : TakeBatch(w) \/ \E c \in Calls : Run(w, c)
  BY <1>9, <1>5, <1>6, <1>c DEF TakeBatch, Run
<1>10. CASE \/ \E w \in Workers : LoopReturns(w)
            \/ StopQuits \/ StopJoined \/ UNCHANGED vars
  BY <1>10, <1>7, <1>c DEF LoopReturns, StopQuits, StopJoined, vars, TypeOK
<1>11. CASE StopClears
  BY <1>11 DEF StopClears
<1> QED
  BY <1>1, <1>2, <1>3, <1>8, <1>9, <1>10, <1>11
     DEF Next, TryRun, WorkerStep, Stop

LEMMA CounterInit == Init => CounterExact /\ BoundRespected
<1> SUFFICES ASSUME Init PROVE CounterExact /\ BoundRespected
  OBVIOUS
<1>1. Unfinished = {} /\ Refusing = {}
  BY DEF Init, Unfinished, Refusing, At
<1>2. Cardinality(Unfinished) = 0 /\ Cardinality(Refusing) = 0
  BY <1>1, FS_EmptySet
<1>3. inFlight = 0
  BY DEF Init
<1> QED
  BY <1>2, <1>3 DEF CounterExact, BoundRespected, Refusing

(* The counter is exact and the limit holds, in every interleaving of any  *)
(* number of IO threads, workers and a stop().                             *)
THEOREM CounterCorrect == Spec => []CounterExact
  BY CounterInit, CounterStep, TypeCorrect, PTL DEF Spec

(* However many IO threads submit at once, no more than maxQueueSize tasks *)
(* are accepted and unfinished.                                            *)
THEOREM LimitCorrect == Spec => []BoundRespected
  BY CounterInit, CounterStep, TypeCorrect, PTL DEF Spec
=============================================================================
