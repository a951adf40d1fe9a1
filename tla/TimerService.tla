---------------------------- MODULE TimerService ----------------------------
(***************************************************************************)
(* What the timer queue promises to its users: a timer that is pending     *)
(* when the queue looks at the clock, and due, is taken; timers are taken  *)
(* together and run in the order of their expirations; one that repeats is *)
(* pending again after it ran, an interval from the time it was taken.     *)
(* Nothing else removes one but cancel() and, for those taken together, a  *)
(* callback that throws.  TimerQueue.tla implements it with a heap, an     *)
(* index and one timerfd.                                                  *)
(***************************************************************************)
EXTENDS Integers, Sequences, FiniteSets, SequencesExt

CONSTANT PerTick     \* units of an interval in a tick of the clock

VARIABLES now,       \* the clock
          pending,   \* the timers waiting: records [id, expiration, interval]
          taken,     \* those being run, the first is in its callback
          takenAt    \* the time they were taken, 0 when there are none

vars == <<now, pending, taken, takenAt>>

Init == /\ now = 1
        /\ pending = {}
        /\ taken = <<>>
        /\ takenAt = 0

Tick == /\ now' = now + 1
        /\ UNCHANGED <<pending, taken, takenAt>>

Ids(S) == {t.id : t \in S}

Add == /\ \E t \in pending' :
              /\ t.id \notin Ids(pending) \cup Ids(ToSet(taken))
              /\ pending' = pending \cup {t}
       /\ UNCHANGED <<now, taken, takenAt>>

Cancel == /\ \E t \in pending : pending' = pending \ {t}
          /\ UNCHANGED <<now, taken, takenAt>>

Due == {t \in pending : t.expiration <= now}

InOrder(s) == \A i, j \in DOMAIN s : i < j => s[i].expiration <= s[j].expiration

Take == /\ taken = <<>>
        /\ Due # {}
        /\ pending' = pending \ Due
        /\ ToSet(taken') = Due
        /\ IsInjective(taken')
        /\ InOrder(taken')
        /\ takenAt' = now
        /\ UNCHANGED now

Restarted(t) == [t EXCEPT !.expiration = takenAt + t.interval \div PerTick]

Run == /\ taken # <<>>
       /\ LET t == Head(taken) IN
          pending' = IF t.interval > 0 THEN pending \cup {Restarted(t)} ELSE pending
       /\ taken' = Tail(taken)
       /\ takenAt' = IF taken' = <<>> THEN 0 ELSE takenAt
       /\ UNCHANGED now

Abandon == /\ taken # <<>>
           /\ taken' = <<>>
           /\ takenAt' = 0
           /\ UNCHANGED <<now, pending>>

Next == Tick \/ Add \/ Cancel \/ Take \/ Run \/ Abandon

Spec == Init /\ [][Next]_vars
=============================================================================
