--------------------------- MODULE EventLoopProofs ---------------------------
(***************************************************************************)
(* For every set of threads, functors and quitters: EventLoop is type      *)
(* correct, loses no wake-up and no quit() when only its own thread is     *)
(* recorded in threadId_, and implements the FIFO executor.                *)
(***************************************************************************)
EXTENDS EventLoop, SequenceTheorems, TLAPS

(* Where the loop is certain to look at pendingFunctors_ before it blocks. *)
WillDrain == lpc \in {"dispatch", "drain", "run", "functor"}

(* No thread but Runner is the one recorded in threadId_.                  *)
OwnThreadId == ThreadId \notin Threads \ {Runner}

(* wakeupPending_ stands for a wake-up that somebody still owes the loop,  *)
(* or for a drain that is still to come; queued work is covered by it or   *)
(* by a caller that has yet to reach its exchange.                         *)
WakeupInv ==
    /\ wakeBatch => lpc = "dispatch"
    /\ EdgeNotSwallowed
    /\ wakeupPending => \/ ready
                        \/ \E t \in Threads : pc[t] = "write"
                        \/ WillDrain
    /\ pendingFunctors # <<>> => \/ wakeupPending
                                 \/ \E t \in Threads : pc[t] = "exchange"
                                 \/ WillDrain

QuitInv ==
    /\ wakeBatch => lpc = "dispatch"
    /\ EdgeNotSwallowed
    /\ NoLostQuit

USE DEF LoopPcs, CallPcs, AfterStop, CounterLeft, FlagLeft, PendingLeft,
        CallingAfterBatch

-----------------------------------------------------------------------------
(* EventLoop's state keeps its types, whoever calls it and in which order. *)
THEOREM TypeCorrect == Spec => []TypeOK
<1>1. Init => TypeOK
  <2> SUFFICES ASSUME Init PROVE TypeOK
    OBVIOUS
  <2>1. <<>> \in Seq(Functors)
    OBVIOUS
  <2>2. pc \in [Threads -> CallPcs] /\ by \in [Functors -> Threads \cup {None}]
    BY DEF Init
  <2> QED
    BY <2>1, <2>2 DEF Init, TypeOK
<1>2. TypeOK /\ [Next]_vars => TypeOK'
  <2> SUFFICES ASSUME TypeOK, [Next]_vars PROVE TypeOK'
    OBVIOUS
  <2> USE DEF TypeOK
  <2>1. ASSUME NEW t \in Threads, NEW f \in Functors, Push(t, f) PROVE TypeOK'
    BY <2>1 DEF Push, loopVars, wakeVars
  <2>2. ASSUME NEW t \in Threads, Exchange(t) PROVE TypeOK'
    BY <2>2 DEF Exchange, loopVars
  <2>3. ASSUME NEW t \in Threads, Write(t) PROVE TypeOK'
    BY <2>3 DEF Write, loopVars
  <2>4. ASSUME NEW t \in Threads, Quit(t) PROVE TypeOK'
    BY <2>4 DEF Quit, wakeVars
  <2>5. CASE Start
    BY <2>5 DEF Start, wakeVars
  <2>6. CASE Check
    BY <2>6 DEF Check, wakeVars
  <2>7. CASE EpollReturn
    BY <2>7 DEF EpollReturn
  <2>8. CASE EpollTimeout
    BY <2>8 DEF EpollTimeout, wakeVars
  <2>9. CASE EpollInterrupted
    BY <2>9 DEF EpollInterrupted, wakeVars
  <2>10. CASE HandleWakeup
    BY <2>10 DEF HandleWakeup
  <2>11. CASE EndDispatch
    BY <2>11 DEF EndDispatch, wakeVars
  <2>12. CASE Disarm
    BY <2>12 DEF Disarm
  <2>13. CASE TakeBatch
    BY <2>13 DEF TakeBatch, wakeVars
  <2>14. CASE RunFunctor
    BY <2>14 DEF RunFunctor, wakeVars
  <2>15. CASE EndFunctor
    BY <2>15 DEF EndFunctor, wakeVars
  <2>16. CASE EndBatch
    BY <2>16 DEF EndBatch, wakeVars
  <2>17. CASE UNCHANGED vars
    BY <2>17 DEF vars, loopVars, wakeVars
  <2> QED
    BY <2>1, <2>2, <2>3, <2>4, <2>5, <2>6, <2>7, <2>8, <2>9, <2>10, <2>11,
       <2>12, <2>13, <2>14, <2>15, <2>16, <2>17 DEF Next, Loop, Call
<1> QED
  BY <1>1, <1>2, PTL DEF Spec

-----------------------------------------------------------------------------
(* One step keeps the wake-up invariant.  The push relies on OwnThreadId:  *)
(* a thread that may skip the exchange is inside a callback of this loop.  *)
LEMMA WakeupStep ==
    ASSUME OwnThreadId, TypeOK, WakeupInv, [Next]_vars
    PROVE  WakeupInv'
<1> USE DEF WakeupInv, WillDrain, EdgeNotSwallowed, TypeOK
<1>1. ASSUME NEW t \in Threads, NEW f \in Functors, Push(t, f)
      PROVE WakeupInv'
  <2>1. pc' = [pc EXCEPT ![t] = "exchange"] \/ WillDrain
    BY <1>1 DEF Push, CanCall, InCallback, OwnThreadId
  <2>2. \A u \in Threads : pc[u] = "write" => pc'[u] = "write"
    BY <1>1 DEF Push, CanCall
  <2>3. UNCHANGED <<loopVars, wakeVars>>
    BY <1>1 DEF Push
  <2> QED
    BY <2>1, <2>2, <2>3 DEF loopVars, wakeVars
<1>2. ASSUME NEW t \in Threads, Exchange(t) PROVE WakeupInv'
  <2>1. \A u \in Threads : pc[u] = "write" => pc'[u] = "write"
    BY <1>2 DEF Exchange
  <2>2. wakeupPending \/ pc'[t] = "write"
    BY <1>2 DEF Exchange
  <2> QED
    BY <1>2, <2>1, <2>2 DEF Exchange, loopVars
<1>3. ASSUME NEW t \in Threads, Write(t) PROVE WakeupInv'
  <2>1. \A u \in Threads : pc[u] = "exchange" => pc'[u] = "exchange"
    BY <1>3 DEF Write
  <2>2. ready' \/ WillDrain
    BY <1>3 DEF Write
  <2> QED
    BY <1>3, <2>1, <2>2 DEF Write, loopVars
<1>4. ASSUME NEW t \in Threads, Quit(t) PROVE WakeupInv'
  <2>1. \A u \in Threads : pc[u] \in {"exchange", "write"} => pc'[u] = pc[u]
    BY <1>4 DEF Quit, CanCall
  <2> QED
    BY <1>4, <2>1 DEF Quit, wakeVars
<1>5. CASE Start \/ Check
  BY <1>5 DEF Start, Check, wakeVars
<1>6. CASE EpollReturn \/ EpollTimeout \/ EpollInterrupted
  BY <1>6 DEF EpollReturn, EpollTimeout, EpollInterrupted, wakeVars
<1>7. CASE HandleWakeup \/ EndDispatch
  BY <1>7 DEF HandleWakeup, EndDispatch, wakeVars
<1>8. CASE Disarm
  BY <1>8 DEF Disarm
<1>9. CASE TakeBatch
  BY <1>9 DEF TakeBatch, wakeVars
<1>10. CASE RunFunctor \/ EndFunctor \/ EndBatch
  BY <1>10 DEF RunFunctor, EndFunctor, EndBatch, wakeVars
<1>11. CASE UNCHANGED vars
  BY <1>11 DEF vars, loopVars, wakeVars
<1> QED
  BY <1>1, <1>2, <1>3, <1>4, <1>5, <1>6, <1>7, <1>8, <1>9, <1>10, <1>11
     DEF Next, Loop, Call

(* The loop does not block on queued work that nobody will announce, as    *)
(* long as no other thread is the one recorded in threadId_.               *)
THEOREM WakeupNotLost ==
    ASSUME OwnThreadId PROVE Spec => []NoLostWakeup
<1>1. Init => WakeupInv
  BY DEF Init, WakeupInv, EdgeNotSwallowed
<1>2. TypeOK /\ WakeupInv /\ [Next]_vars => WakeupInv'
  BY OwnThreadId, WakeupStep
<1>3. WakeupInv => NoLostWakeup
  BY DEF WakeupInv, NoLostWakeup, WillDrain
<1> QED
  BY <1>1, <1>2, <1>3, TypeCorrect, PTL DEF Spec

-----------------------------------------------------------------------------
(* A quit() of a loop that runs reaches it although it blocks, whoever     *)
(* called it.                                                              *)
THEOREM QuitNotLost == Spec => []NoLostQuit
<1>1. Init => QuitInv
  BY DEF Init, QuitInv, EdgeNotSwallowed, NoLostQuit
<1>2. TypeOK /\ QuitInv /\ [Next]_vars => QuitInv'
  <2> SUFFICES ASSUME TypeOK, QuitInv, [Next]_vars PROVE QuitInv'
    OBVIOUS
  <2> USE DEF QuitInv, EdgeNotSwallowed, NoLostQuit, TypeOK
  <2>1. ASSUME NEW t \in Threads, NEW f \in Functors, Push(t, f) PROVE QuitInv'
    <3>1. \A u \in Threads : pc[u] = "write" => pc'[u] = "write"
      BY <2>1 DEF Push, CanCall
    <3> QED
      BY <2>1, <3>1 DEF Push, loopVars, wakeVars
  <2>2. ASSUME NEW t \in Threads, Exchange(t) PROVE QuitInv'
    <3>1. \A u \in Threads : pc[u] = "write" => pc'[u] = "write"
      BY <2>2 DEF Exchange
    <3> QED
      BY <2>2, <3>1 DEF Exchange, loopVars
  <2>3. ASSUME NEW t \in Threads, Write(t) PROVE QuitInv'
    <3>1. ready' \/ lpc = "dispatch"
      BY <2>3 DEF Write
    <3> QED
      BY <2>3, <3>1 DEF Write, loopVars
  <2>4. ASSUME NEW t \in Threads, Quit(t) PROVE QuitInv'
    <3>1. pc'[t] = "write"
      BY <2>4 DEF Quit
    <3> QED
      BY <2>4, <3>1 DEF Quit, wakeVars
  <2>5. CASE Start \/ Check
    BY <2>5 DEF Start, Check, wakeVars
  <2>6. CASE EpollReturn \/ EpollTimeout \/ EpollInterrupted
    BY <2>6 DEF EpollReturn, EpollTimeout, EpollInterrupted, wakeVars
  <2>7. CASE HandleWakeup \/ EndDispatch
    BY <2>7 DEF HandleWakeup, EndDispatch, wakeVars
  <2>8. CASE Disarm \/ TakeBatch \/ RunFunctor \/ EndFunctor \/ EndBatch
    BY <2>8 DEF Disarm, TakeBatch, RunFunctor, EndFunctor, EndBatch, wakeVars
  <2>9. CASE UNCHANGED vars
    BY <2>9 DEF vars, loopVars, wakeVars
  <2> QED
    BY <2>1, <2>2, <2>3, <2>4, <2>5, <2>6, <2>7, <2>8, <2>9
       DEF Next, Loop, Call
<1>3. QuitInv => NoLostQuit
  BY DEF QuitInv
<1> QED
  BY <1>1, <1>2, <1>3, TypeCorrect, PTL DEF Spec

-----------------------------------------------------------------------------
(* Two facts about concatenation that the swap of a batch and the start of *)
(* its first functor rest on.                                              *)
LEMMA ConcatAppend ==
    ASSUME NEW S, NEW s \in Seq(S), NEW t \in Seq(S), NEW e \in S
    PROVE  s \o Append(t, e) = Append(s \o t, e)
<1>1. /\ Append(t, e) = t \o <<e>>
      /\ s \o t \in Seq(S)
      /\ <<e>> \in Seq(S)
  BY AppendIsConcat, ConcatProperties
<1>2. Append(s \o t, e) = (s \o t) \o <<e>>
  BY <1>1, AppendIsConcat
<1> QED
  BY <1>1, <1>2, ConcatAssociative

LEMMA ConcatTail ==
    ASSUME NEW S, NEW s \in Seq(S), NEW t \in Seq(S), s # <<>>
    PROVE  /\ s \o t # <<>>
           /\ Head(s \o t) = Head(s)
           /\ Tail(s \o t) = Tail(s) \o t
<1>1. /\ Len(s) \in Nat \ {0}
      /\ Len(t) \in Nat
      /\ Tail(s) \in Seq(S)
      /\ Len(Tail(s)) = Len(s) - 1
      /\ \A i \in 1 .. Len(s) - 1 : Tail(s)[i] = s[i + 1]
  BY EmptySeq, HeadTailProperties, LenProperties
<1>2. /\ s \o t \in Seq(S)
      /\ Len(s \o t) = Len(s) + Len(t)
      /\ \A i \in 1 .. Len(s) + Len(t) :
             (s \o t)[i] = IF i <= Len(s) THEN s[i] ELSE t[i - Len(s)]
  BY ConcatProperties
<1>3. s \o t # <<>>
  BY <1>1, <1>2, EmptySeq
<1>4. /\ Tail(s \o t) \in Seq(S)
      /\ Len(Tail(s \o t)) = Len(s) + Len(t) - 1
      /\ \A i \in 1 .. Len(s) + Len(t) - 1 : Tail(s \o t)[i] = (s \o t)[i + 1]
  BY <1>1, <1>2, <1>3, HeadTailProperties
<1>5. /\ Tail(s) \o t \in Seq(S)
      /\ Len(Tail(s) \o t) = Len(s) - 1 + Len(t)
      /\ \A i \in 1 .. Len(s) - 1 + Len(t) :
             (Tail(s) \o t)[i] = IF i <= Len(s) - 1
                                 THEN Tail(s)[i] ELSE t[i - (Len(s) - 1)]
  BY <1>1, ConcatProperties
<1>6. \A i \in 1 .. Len(s) + Len(t) - 1 : Tail(s \o t)[i] = (Tail(s) \o t)[i]
  BY <1>1, <1>2, <1>4, <1>5
<1>7. Tail(s \o t) = Tail(s) \o t
  BY <1>1, <1>4, <1>5, <1>6, SeqEqual
<1>8. Head(s \o t) = Head(s)
  BY <1>1, <1>2
<1> QED
  BY <1>3, <1>7, <1>8

(* A batch exists only while it is run, and whatever is queued or executed *)
(* has been queued by somebody, so that it cannot be queued again.         *)
QueueInv ==
    /\ lpc \notin {"run", "functor"} => temp = <<>>
    /\ \A i \in DOMAIN pendingFunctors : by[pendingFunctors[i]] # None
    /\ \A i \in DOMAIN temp : by[temp[i]] # None
    /\ \A i \in DOMAIN executed : by[executed[i]] # None

LEMMA QueueStep ==
    ASSUME TypeOK, QueueInv, [Next]_vars PROVE QueueInv'
<1> USE DEF QueueInv, TypeOK
<1>1. ASSUME NEW t \in Threads, NEW f \in Functors, Push(t, f)
      PROVE QueueInv'
  <2>1. \A g \in Functors : by[g] # None => by'[g] # None
    BY <1>1, ThreadsAssumption DEF Push
  <2>2. by'[f] # None
    BY <1>1, ThreadsAssumption DEF Push
  <2>3. \A i \in DOMAIN pendingFunctors' :
            \/ i \in DOMAIN pendingFunctors
               /\ pendingFunctors'[i] = pendingFunctors[i]
            \/ pendingFunctors'[i] = f
    BY <1>1, AppendProperties, LenProperties DEF Push
  <2>4. \A i \in DOMAIN pendingFunctors : pendingFunctors[i] \in Functors
    BY ElementOfSeq, LenProperties
  <2>5. \A i \in DOMAIN temp : temp[i] \in Functors
    BY ElementOfSeq, LenProperties
  <2>6. \A i \in DOMAIN executed : executed[i] \in Functors
    BY ElementOfSeq, LenProperties
  <2>7. UNCHANGED <<lpc, temp, executed>>
    BY <1>1 DEF Push, loopVars
  <2> QED
    BY <2>1, <2>2, <2>3, <2>4, <2>5, <2>6, <2>7
<1>2. ASSUME NEW t \in Threads, Exchange(t) \/ Write(t) \/ Quit(t)
      PROVE QueueInv'
  BY <1>2 DEF Exchange, Write, Quit, loopVars
<1>3. CASE RunFunctor
  <2>1. /\ temp' = Tail(temp)
        /\ executed' = Append(executed, Head(temp))
        /\ lpc' = "functor"
        /\ UNCHANGED <<pendingFunctors, by>>
    BY <1>3 DEF RunFunctor
  <2>2. \A i \in DOMAIN Tail(temp) :
            i + 1 \in DOMAIN temp /\ Tail(temp)[i] = temp[i + 1]
    BY <1>3, HeadTailProperties, LenProperties DEF RunFunctor
  <2>3. 1 \in DOMAIN temp /\ Head(temp) = temp[1] /\ Head(temp) \in Functors
    BY <1>3, EmptySeq, LenProperties, HeadTailProperties DEF RunFunctor
  <2>4. \A i \in DOMAIN executed' :
            \/ i \in DOMAIN executed /\ executed'[i] = executed[i]
            \/ executed'[i] = temp[1]
    BY <2>1, <2>3, AppendProperties, LenProperties
  <2> QED
    BY <2>1, <2>2, <2>3, <2>4
<1>4. CASE Start \/ Check \/ EpollReturn \/ EpollTimeout \/ EpollInterrupted
           \/ HandleWakeup \/ EndDispatch
  BY <1>4 DEF Start, Check, EpollReturn, EpollTimeout, EpollInterrupted,
              HandleWakeup, EndDispatch
<1>5. CASE TakeBatch
  BY <1>5 DEF TakeBatch
<1>6. CASE Disarm \/ EndFunctor \/ EndBatch
  BY <1>6 DEF Disarm, EndFunctor, EndBatch
<1>7. CASE UNCHANGED vars
  BY <1>7 DEF vars, loopVars
<1> QED
  BY <1>1, <1>2, <1>3, <1>4, <1>5, <1>6, <1>7 DEF Next, Loop, Call

(* One step of the loop or of a caller is one step of the executor or      *)
(* changes nothing it can see.                                             *)
LEMMA ExecutorStep ==
    ASSUME TypeOK, QueueInv, [Next]_vars
    PROVE  [Executor!Next]_(Executor!vars)
<1> USE DEF TypeOK, Executor!vars
<1>1. ASSUME NEW t \in Threads, NEW f \in Functors, Push(t, f)
      PROVE Executor!Submit(f)
  <2>1. /\ pendingFunctors' = Append(pendingFunctors, f)
        /\ by[f] = None
        /\ UNCHANGED <<temp, executed>>
    BY <1>1 DEF Push, loopVars
  <2>2. (temp \o pendingFunctors)' = Append(temp \o pendingFunctors, f)
    BY <2>1, ConcatAppend
  <2>3. \A i \in DOMAIN (temp \o pendingFunctors) :
            (temp \o pendingFunctors)[i] # f
    <3> SUFFICES ASSUME NEW i \in DOMAIN (temp \o pendingFunctors)
                 PROVE  (temp \o pendingFunctors)[i] # f
      OBVIOUS
    <3>1. /\ temp \o pendingFunctors \in Seq(Functors)
          /\ Len(temp \o pendingFunctors) = Len(temp) + Len(pendingFunctors)
          /\ Len(temp) \in Nat /\ DOMAIN temp = 1 .. Len(temp)
          /\ Len(pendingFunctors) \in Nat
          /\ DOMAIN pendingFunctors = 1 .. Len(pendingFunctors)
      BY ConcatProperties, LenProperties
    <3>2. i \in 1 .. Len(temp) + Len(pendingFunctors)
      BY <3>1, LenProperties
    <3>3. CASE i <= Len(temp)
      <4>1. i \in DOMAIN temp /\ (temp \o pendingFunctors)[i] = temp[i]
        BY <3>1, <3>2, <3>3, ConcatProperties
      <4> QED
        BY <2>1, <4>1 DEF QueueInv
    <3>4. CASE ~(i <= Len(temp))
      <4> DEFINE k == i - Len(temp)
      <4>1. /\ k \in DOMAIN pendingFunctors
            /\ (temp \o pendingFunctors)[i] = pendingFunctors[k]
        BY <3>1, <3>2, <3>4, ConcatProperties
      <4> QED
        BY <2>1, <4>1 DEF QueueInv
    <3> QED
      BY <3>3, <3>4
  <2>4. \A i \in DOMAIN executed : executed[i] # f
    BY <2>1 DEF QueueInv
  <2> QED
    BY <2>1, <2>2, <2>3, <2>4 DEF Executor!Submit
<1>2. ASSUME NEW t \in Threads, Exchange(t) \/ Write(t) \/ Quit(t)
      PROVE UNCHANGED Executor!vars
  BY <1>2 DEF Exchange, Write, Quit, loopVars
<1>3. CASE RunFunctor
  <2>1. /\ temp # <<>>
        /\ temp' = Tail(temp)
        /\ executed' = Append(executed, Head(temp))
        /\ UNCHANGED pendingFunctors
    BY <1>3 DEF RunFunctor
  <2>2. Executor!Execute
    BY <2>1, ConcatTail DEF Executor!Execute
  <2> QED
    BY <2>2 DEF Executor!Next
<1>4. CASE TakeBatch
  <2>1. /\ temp = <<>>
        /\ temp' = pendingFunctors
        /\ pendingFunctors' = <<>>
        /\ UNCHANGED executed
    BY <1>4 DEF TakeBatch, QueueInv
  <2> QED
    BY <2>1, ConcatEmptySeq
<1>5. CASE Start \/ Check \/ EpollReturn \/ EpollTimeout \/ EpollInterrupted
           \/ HandleWakeup \/ EndDispatch
  BY <1>5 DEF Start, Check, EpollReturn, EpollTimeout, EpollInterrupted,
              HandleWakeup, EndDispatch
<1>6. CASE Disarm \/ EndFunctor \/ EndBatch
  BY <1>6 DEF Disarm, EndFunctor, EndBatch
<1>7. CASE UNCHANGED vars
  BY <1>7 DEF vars, loopVars
<1> QED
  BY <1>1, <1>2, <1>3, <1>4, <1>5, <1>6, <1>7
     DEF Next, Loop, Call, Executor!Next

(* The loop is the FIFO executor its callers see, whatever the threads do. *)
THEOREM RefinesExecutor == Spec => ImplementsExecutor
<1>1. Init => QueueInv /\ Executor!Init
  <2> SUFFICES ASSUME Init PROVE QueueInv /\ Executor!Init
    OBVIOUS
  <2>1. temp = <<>> /\ pendingFunctors = <<>> /\ executed = <<>>
    BY DEF Init
  <2>2. <<>> \in Seq(Functors) /\ <<>> \o <<>> = <<>> /\ DOMAIN <<>> = {}
    BY ConcatEmptySeq
  <2> QED
    BY <2>1, <2>2 DEF QueueInv, Executor!Init
<1>2. TypeOK /\ QueueInv /\ [Next]_vars => QueueInv'
  BY QueueStep
<1>3. TypeOK /\ QueueInv /\ [Next]_vars => [Executor!Next]_(Executor!vars)
  BY ExecutorStep
<1> QED
  BY <1>1, <1>2, <1>3, TypeCorrect, PTL DEF Spec, ImplementsExecutor, Executor!Spec
=============================================================================
