----------------------------- MODULE TimerQueue -----------------------------
(***************************************************************************)
(* The timer queue of an event loop: a binary heap of expirations, the     *)
(* index from a timer's id to its place in the heap, and the one timerfd   *)
(* that epoll watches.  Everything here runs on the loop's own thread; the *)
(* clock is what moves in between.                                         *)
(*                                                                         *)
(* The heap is 0-based like the vector: a function on 0 .. size - 1.       *)
(***************************************************************************)
EXTENDS Integers, Sequences, FiniteSets, Functions

CONSTANTS Kinds,           \* the timers that are added, as pairs of
                           \* expiration - now and repeat interval, 0 for once
          PerTick,         \* the clock counts microseconds, an interval is a
                           \* double: so many of its units make a microsecond
          MaxTimers,       \* bound: calls of addTimer
          MaxTime          \* bound: the clock stops here

(* Timer::id_ is an int, although nextTimerId_ has 64 bits: ids are those  *)
(* of addTimer, and no two the same, for no more timers than this.         *)
IntMax == 2147483647

ASSUME TimerAssumption ==
    /\ Kinds \subseteq Nat \X Nat
    /\ PerTick \in Nat \ {0}
    /\ MaxTimers \in Nat /\ MaxTimers <= IntMax
    /\ MaxTime \in Nat \ {0}

VARIABLES now,      \* CLOCK_MONOTONIC
          heap,     \* timerHeap_: entries [expiration, id]
          index,    \* id2index_
          timers,   \* id2timer_: timers [id, expiration, interval]
          nextId,   \* nextTimerId_
          armed,    \* when the timerfd expires, 0 when it is disarmed
          pc,       \* where the loop stands with regard to handleRead()
          runNow,   \* handleRead()'s own now
          expired,  \* handleRead()'s expired; the first is in its callback
          thrown    \* history: has a callback ended with an exception?

vars == <<now, heap, index, timers, nextId, armed, pc, runNow, expired, thrown>>

FirstId_zero == 0
FirstId == 1

Init ==
    /\ now = 1
    /\ heap = <<>>
    /\ index = <<>>
    /\ timers = <<>>
    /\ nextId = FirstId
    /\ armed = 0
    /\ pc = "idle"
    /\ runNow = 0
    /\ expired = <<>>
    /\ thrown = FALSE

-----------------------------------------------------------------------------
(* The heap and its index.  The operators work on a record q with the      *)
(* fields heap and index, and leave its other fields alone.                *)

Size(h) == Cardinality(DOMAIN h)
Empty(h) == DOMAIN h = {}
Without(f, S) == Restrict(f, DOMAIN f \ S)
With(f, x, v) == [y \in DOMAIN f \cup {x} |-> IF y = x THEN v ELSE f[y]]

(* A loop: k rounds are enough for it to end, and one that has ended stays *)
(* as it is.                                                               *)
Rounds(Round(_), s, k) ==
    LET after[n \in 0 .. k] == IF n = 0 THEN s ELSE Round(after[n - 1])
    IN  after[k]

Swap_forgetsIndex(q, i, j) ==
    [q EXCEPT !.heap = [@ EXCEPT ![i] = q.heap[j], ![j] = q.heap[i]],
              !.index = [@ EXCEPT ![q.heap[i].id] = j]]
Swap(q, i, j) ==
    [q EXCEPT !.heap = [@ EXCEPT ![i] = q.heap[j], ![j] = q.heap[i]],
              !.index = [@ EXCEPT ![q.heap[i].id] = j, ![q.heap[j].id] = i]]

(* The sifts carry the entry at a place s.at of the queue s.q.             *)
Moved(s, x) == [q |-> Swap(s.q, s.at, x), at |-> x]

Parent(i) == (i - 1) \div 2

Up(s) ==
    IF s.at = 0 \/ s.q.heap[s.at].expiration >= s.q.heap[Parent(s.at)].expiration
    THEN s ELSE Moved(s, Parent(s.at))

SiftUp(q, i) == Rounds(Up, [q |-> q, at |-> i], Size(q.heap)).q

(* The child that expires first, the left one when they tie.               *)
Smallest(h, i) ==
    IF 2 * i + 2 \in DOMAIN h /\ h[2 * i + 2].expiration < h[2 * i + 1].expiration
    THEN 2 * i + 2 ELSE 2 * i + 1

Down(s) ==
    LET h == s.q.heap
    IN  IF \/ 2 * s.at + 1 \notin DOMAIN h
           \/ h[s.at].expiration <= h[Smallest(h, s.at)].expiration
        THEN s ELSE Moved(s, Smallest(h, s.at))

SiftDown(q, i) == Rounds(Down, [q |-> q, at |-> i], Size(q.heap)).q

PopBack(q) ==
    LET last == Size(q.heap) - 1
    IN  [q EXCEPT !.heap = Without(@, {last}),
                  !.index = Without(@, {q.heap[last].id})]

(* The entry that fills the hole may have to move either way.              *)
Settle_downOnly(q, i) == SiftDown(q, i)
Settle(q, i) == SiftDown(SiftUp(q, i), i)

EraseEntry(q, i) ==
    LET last == Size(q.heap) - 1
        popped == PopBack(Swap(q, i, last))
    IN  IF i \notin DOMAIN q.heap THEN q
        ELSE IF i < last THEN Settle(popped, i) ELSE popped

(* push_back, the index, siftUp and emplace, as addTimer() and the restart *)
(* of a repeating timer do them.                                           *)
Push(q, t) ==
    LET n == Size(q.heap)
    IN  SiftUp([q EXCEPT !.heap = With(@, n, [expiration |-> t.expiration, id |-> t.id]),
                         !.index = With(@, t.id, n),
                         !.timers = IF t.id \in DOMAIN @ THEN @ ELSE With(@, t.id, t)], n)

Queue == [heap |-> heap, index |-> index, timers |-> timers, expired |-> <<>>]

Becomes(q) == /\ heap' = q.heap
              /\ index' = q.index
              /\ timers' = q.timers

-----------------------------------------------------------------------------
(* The clock and the timerfd: one shot, absolute, readable from armed on.  *)

Tick ==
    /\ now < MaxTime
    /\ now' = now + 1
    /\ UNCHANGED <<heap, index, timers, nextId, armed, pc, runNow, expired, thrown>>

Readable == armed # 0 /\ armed <= now

EpollReturn ==
    /\ pc = "idle"
    /\ Readable
    /\ pc' = "returned"
    /\ UNCHANGED <<now, heap, index, timers, nextId, armed, runNow, expired, thrown>>

-----------------------------------------------------------------------------
(* Calls of the loop's other handlers and functors, or of a callback that  *)
(* handleRead() is running.                                                *)

UserCode == \/ pc \in {"idle", "returned"}
            \/ pc = "running" /\ expired # <<>>

EarliestChanged_whenEmpty(e) == Empty(heap)
EarliestChanged(e) == Empty(heap) \/ e < heap[0].expiration

AddTimer(expiration, interval) ==
    /\ UserCode
    /\ nextId < FirstId + MaxTimers
    /\ Becomes(Push(Queue, [id |-> nextId, expiration |-> expiration,
                            interval |-> interval]))
    /\ nextId' = nextId + 1
    /\ armed' = IF EarliestChanged(expiration) THEN expiration ELSE armed
    /\ UNCHANGED <<now, pc, runNow, expired, thrown>>

(* The timerfd keeps its time, even when it was the cancelled timer's.     *)
Cancel(id) ==
    /\ UserCode
    /\ id \in DOMAIN index
    /\ Becomes([EraseEntry(Queue, index[id]) EXCEPT !.timers = Without(@, {id})])
    /\ UNCHANGED <<now, nextId, armed, pc, runNow, expired, thrown>>

-----------------------------------------------------------------------------
(* handleRead().                                                           *)

ReadTimerfd ==
    /\ pc = "returned"
    /\ armed' = IF Readable THEN 0 ELSE armed
    /\ pc' = "reading"
    /\ UNCHANGED <<now, heap, index, timers, nextId, runNow, expired, thrown>>

IsDue_strictly(e) == e.expiration < now
IsDue(e) == e.expiration <= now

(* One round of the loop that collects what is due.                        *)
Popped(q) ==
    IF Empty(q.heap) \/ ~IsDue(q.heap[0]) THEN q
    ELSE LET id == q.heap[0].id
         IN  [EraseEntry(q, 0) EXCEPT
                 !.index = Without(@, {id}),
                 !.expired = IF id \in DOMAIN q.timers
                             THEN Append(@, q.timers[id]) ELSE @,
                 !.timers = Without(@, {id})]

PopDue(q) == Rounds(Popped, q, Size(q.heap))

Collect ==
    /\ pc = "reading"
    /\ LET q == PopDue(Queue) IN
       /\ Becomes(q)
       /\ expired' = q.expired
    /\ runNow' = now
    /\ pc' = "running"
    /\ UNCHANGED <<now, nextId, armed, thrown>>

(* A timer whose interval is less than a microsecond repeats all the same, *)
(* and is due again at once.                                               *)
Repeats(t) == t.interval > 0
Restart(t) == [t EXCEPT !.expiration = runNow + t.interval \div PerTick]

CallbackReturns ==
    /\ pc = "running"
    /\ expired # <<>>
    /\ IF Repeats(Head(expired))
       THEN Becomes(Push(Queue, Restart(Head(expired))))
       ELSE UNCHANGED <<heap, index, timers>>
    /\ expired' = Tail(expired)
    /\ UNCHANGED <<now, nextId, armed, pc, runNow, thrown>>

(* The exception leaves handleRead(); loop() catches it.  What was         *)
(* collected and has not run is destroyed, and the timerfd is not set.     *)
CallbackThrows ==
    /\ pc = "running"
    /\ expired # <<>>
    /\ expired' = <<>>
    /\ thrown' = TRUE
    /\ runNow' = 0
    /\ pc' = "idle"
    /\ UNCHANGED <<now, heap, index, timers, nextId, armed>>

Rearmed_never == armed
Rearmed == IF Empty(heap) THEN armed ELSE heap[0].expiration

HandlerEnds ==
    /\ pc = "running"
    /\ expired = <<>>
    /\ armed' = Rearmed
    /\ runNow' = 0
    /\ pc' = "idle"
    /\ UNCHANGED <<now, heap, index, timers, nextId, expired, thrown>>

-----------------------------------------------------------------------------
HandleRead == ReadTimerfd \/ Collect \/ CallbackReturns \/ CallbackThrows
              \/ HandlerEnds

Next == \/ Tick
        \/ EpollReturn
        \/ \E k \in Kinds : AddTimer(now + k[1], k[2])
        \/ \E id \in 1 .. MaxTimers : Cancel(id)
        \/ HandleRead

Spec == Init /\ [][Next]_vars

(* handleRead() and the callbacks it runs end, and epoll_wait reports a    *)
(* timerfd that stays readable.  Nobody has to add or cancel a timer.      *)
FairSpec == Spec /\ []<>(pc = "idle") /\ WF_vars(EpollReturn)

-----------------------------------------------------------------------------
Timer == [id : 1 .. MaxTimers, expiration : Nat, interval : Nat]
HeapIds == {heap[i].id : i \in DOMAIN heap}

(* Ids start at 1: main.cpp keeps 0 for "no timer".                        *)
TypeOK ==
    /\ now \in 1 .. MaxTime
    /\ \A i \in DOMAIN heap : heap[i] \in [expiration : Nat, id : 1 .. MaxTimers]
    /\ \A id \in DOMAIN timers : timers[id] \in Timer /\ timers[id].id = id
    /\ nextId \in 1 .. MaxTimers + 1
    /\ armed \in Nat
    /\ pc \in {"idle", "returned", "reading", "running"}
    /\ runNow \in 0 .. MaxTime
    /\ expired \in Seq(Timer)
    /\ thrown \in BOOLEAN

(* The heap order, after any sequence of insertions, cancellations in the  *)
(* middle and pops: no timer stands above one that expires earlier.        *)
HeapOrdered ==
    \A i, j \in DOMAIN heap :
        j \in {2 * i + 1, 2 * i + 2} => heap[i].expiration <= heap[j].expiration

(* The three structures agree: an id is indexed exactly when it is in the  *)
(* heap, at its place there, and its timer is kept with the same           *)
(* expiration, so cancel() never erases another timer's entry.             *)
IndexExact ==
    /\ DOMAIN heap = 0 .. Size(heap) - 1
    /\ DOMAIN index = HeapIds
    /\ DOMAIN timers = HeapIds
    /\ \A i \in DOMAIN heap :
           /\ index[heap[i].id] = i
           /\ timers[heap[i].id].expiration = heap[i].expiration

(* Whenever the loop may go to sleep, the timerfd expires no later than    *)
(* the earliest timer: cancelling, adding from inside a callback, or a     *)
(* clock that moves during handleRead() never leaves a timer without an    *)
(* alarm.  Only a callback that throws does.                               *)
FrontArmed ==
    pc = "idle" /\ ~Empty(heap) /\ ~thrown => armed # 0 /\ armed <= heap[0].expiration

(* Timers that are due are collected or cancelled, unless a callback       *)
(* throws: a moment comes when none is overdue, so each of them, its       *)
(* expiration being fixed, has left the heap.                              *)
Overdue == {i \in DOMAIN heap : heap[i].expiration <= now}
DueTimersRun == Overdue # {} ~> Overdue = {} \/ thrown

(* The queue implements the service: each reading of the clock takes all   *)
(* the timers that are due and only those, in order, and a repeating timer *)
(* is neither lost nor doubled, but for what a throw abandons.             *)
Service == INSTANCE TimerService WITH
    pending <- {timers[heap[i].id] : i \in DOMAIN heap},
    taken <- expired,
    takenAt <- IF expired = <<>> THEN 0 ELSE runNow

ImplementsTimerService == Service!Spec
=============================================================================
