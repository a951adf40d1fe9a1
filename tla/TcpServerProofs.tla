--------------------------- MODULE TcpServerProofs ---------------------------
(* Proofs about TcpServer.tla, for every value of its constants.           *)
(*                                                                         *)
(* The order: the inductive invariant, part by part; what one step may do  *)
(* to a connection, and with it the counters; what it may put into the     *)
(* queues of the loops; the acceptor and the drain; the threads, from      *)
(* start() to the end of main(); then the invariant as a whole and the     *)
(* properties that follow from it.                                         *)
EXTENDS TcpServer, FiniteSetTheorems, SequenceTheorems, TLAPS

(* The connections that were given to an IO loop.                          *)
Known == {c \in Conns : owner[c] # None}

(* Only finitely many connections were accepted, although there may be     *)
(* infinitely many clients; a connection has a loop from its acceptance    *)
(* on; only such a connection has requests; and a functor in the queue of  *)
(* a loop is about a connection of that loop, so one thread alone runs its *)
(* handlers.                                                               *)
OwnerInv ==
    /\ IsFiniteSet(Known)
    /\ \A c \in Conns :
          /\ owner[c] # None <=> conn[c].step \notin {"new", "refused"}
          /\ task[c] # "none" => owner[c] # None
    /\ \A l \in Loops : \A i \in DOMAIN functors[l] :
          owner[functors[l][i][1]] = l

(* BacklogHasEdge, and: the connections that wait were not accepted.       *)
BacklogInv ==
    /\ backlog # {} => listening /\ (edge \/ accepting \/ gaveUp)
    /\ \A c \in backlog : conn[c].step = "new"

(* There are no more chains of drain checks than signals were handled; a   *)
(* drain follows shutdown(), which has closed the listener; and a main     *)
(* loop that runs on after shutdown() is inside a check or has a timer of  *)
(* the drain to end it.                                                    *)
DrainInv ==
    /\ drains <= signals /\ (check # "none" => drains < signals)
    /\ drains > 0 \/ drained \/ check # "none" => isShutdown
    /\ isShutdown => ~listening /\ mpc \notin {"spawn", "await"}
    /\ mpc = "run" /\ isShutdown =>
           ~mainLooping \/ drains > 0 \/ check # "none"

(* Between its two reads the drain check has seen activeConnections at     *)
(* zero, where it stays: what is not open now gets no new request.         *)
CheckInv ==
    check = "pool" => \A c \in Conns : conn[c].step \notin {"open", "counted"}

(* start() waited for IO thread l, and ~EventLoopThread has not asked for  *)
(* its end: main may still use its loop_.                                  *)
Awaited(l) ==
    \/ mpc \in {"spawn", "await"} /\ l < mi
    \/ mpc \in {"run", "stop", "shut", "quit", "wake"}
    \/ mpc = "clear" /\ l >= mi
    \/ mpc = "reap" /\ l > mi

(* The quit() of loop l is done, by stop() or by the destructor.           *)
Told(l) ==
    \/ mpc = "quit" /\ l < mi
    \/ mpc = "wake" /\ l <= mi
    \/ mpc \in {"clear", "reap", "returned", "crashed"}

(* One IO thread and main: loop_ holds the loop only between its           *)
(* publication and the return of loop(); a thread has left, or will, only  *)
(* after main asked it to, and then the pool had been joined; what main    *)
(* waited for is there; and threads are born in order.  That a thread has  *)
(* published its loop does not say that it has entered it.                 *)
ThreadOK(l) ==
    /\ loopPtr[l] = "loop" => iopc[l] \in {"entering", "run", "test"}
    /\ iopc[l] \in {"left", "freed"} => ~looping[l] /\ loopPtr[l] = "null"
    /\ iopc[l] \in {"run", "test", "left", "freed"} /\ ~looping[l] =>
           joined /\ Told(l)
    /\ Awaited(l) /\ loopPtr[l] = "null" => iopc[l] \in {"left", "freed"}
    /\ (mpc = "spawn" /\ l >= mi) \/ (mpc = "await" /\ l > mi) =>
           iopc[l] = "unborn"

(* ThreadOK for every IO thread.                                           *)
ThreadInv == \A l \in Loops : ThreadOK(l)

(* Main's own side: the thread it waits for was started, the pool is       *)
(* joined before the loops are shut down, join() is called on a thread     *)
(* that was told to quit, unless it entered loop() only then, and only an  *)
(* uninitialised loop_ can crash it.                                       *)
MainInv ==
    /\ mpc = "await" => iopc[mi] # "unborn"
    /\ mpc \in {"shut", "quit", "wake", "clear", "reap", "returned"} => joined
    /\ mpc = "reap" => /\ iopc[mi] \notin {"unborn", "born"}
                       /\ loopPtr[mi] = "null"
                       /\ ~looping[mi] \/ mi \in deaf
    /\ mpc = "crashed" => \E l \in Loops : loopPtr[l] = "garbage"

(* threadPool.stop() returns when no task is queued or running.            *)
PoolInv == joined => \A c \in Conns : task[c] \notin {"running", "posted"}

(* The inductive invariant.  Its parts need each other: the counters need  *)
(* the owners (a connection without one is not counted), DrainOwesNothing  *)
(* needs the counters and DrainInv, the threads need what main has done.   *)
IInv == /\ TypeOK /\ OwnerInv /\ CountsAgree /\ BacklogInv /\ DrainInv
        /\ CheckInv /\ DrainOwesNothing /\ ThreadInv /\ MainInv /\ PoolInv

USE SettingsAssumption
-----------------------------------------------------------------------------
(* What one handler may make of a connection: it stays at its step, or a   *)
(* handler that closes it has counted it out of connectionCount_.          *)
MayLeave(k, j) ==
    /\ j \in ConnRecords
    /\ j.step = k.step \/ (k.step = "open" /\ j.step = "counted")

(* handleClose() leaves the step "open" and touches no other.              *)
LEMMA ClosedLeaves ==
  ASSUME NEW k \in ConnRecords
  PROVE  MayLeave(k, k) /\ MayLeave(k, Closed(k)) /\ MayLeave(k, Settled(k))
<1>1. MayLeave(k, k)
  BY DEF MayLeave
<1>2. MayLeave(k, Closed(k))
  <2>1. CASE k.step = "open"
    <3> DEFINE j == [Fresh EXCEPT !.step = "counted", !.added = k.added]
    <3>1. Fresh \in ConnRecords
      BY DEF Fresh, ConnRecords, Steps
    <3>2. j \in ConnRecords /\ j.step = "counted"
      BY <3>1 DEF ConnRecords, Steps
    <3> QED
      BY <2>1, <3>2 DEF Closed, Closes, MayLeave
  <2> QED
    BY <1>1, <2>1 DEF Closed, Closes
<1> QED
  BY <1>1, <1>2 DEF Settled

(* Two such changes in one handler are one.                                *)
LEMMA LeavesOn ==
  ASSUME NEW k \in ConnRecords, NEW j, MayLeave(k, j), NEW i, MayLeave(j, i)
  PROVE  MayLeave(k, i)
BY DEF MayLeave, ConnRecords, Steps

(* A send(), on each of its paths.                                         *)
LEMMA SentLeaves ==
  ASSUME NEW k \in ConnRecords, NEW j \in Sent(k)
  PROVE  MayLeave(k, j) /\ MayLeave(k, Settled(j))
<1>1. MayLeave(k, [k EXCEPT !.blocked = TRUE])
  BY DEF MayLeave, ConnRecords
<1>2. MayLeave(k, j)
  BY <1>1, ClosedLeaves DEF Sent
<1> QED
  BY <1>2, ClosedLeaves, LeavesOn DEF MayLeave

(* TcpConnection::shutdown().                                              *)
LEMMA ShutDownLeaves ==
  ASSUME NEW k \in ConnRecords
  PROVE  MayLeave(k, ShutDown(k))
<1> DEFINE j == [k EXCEPT !.reading = FALSE, !.closing = TRUE]
<1>1. MayLeave(k, j)
  BY DEF MayLeave, ConnRecords
<1>2. MayLeave(j, Settled(j))
  BY <1>1, ClosedLeaves DEF MayLeave
<1> HIDE DEF j
<1>3. MayLeave(k, Settled(j))
  BY <1>1, <1>2, LeavesOn
<1> QED
  BY <1>3, ClosedLeaves DEF ShutDown, j

(* deliverResponse(), on each of its paths.                                *)
LEMMA DeliveredLeaves ==
  ASSUME NEW k \in ConnRecords, NEW close \in BOOLEAN, NEW j \in Delivered(k, close)
  PROVE  MayLeave(k, j)
<1> DEFINE n == [k EXCEPT !.inflight = FALSE, !.closing = @ \/ close]
<1>1. MayLeave(k, n)
  BY DEF MayLeave, ConnRecords
<1>2. n \in ConnRecords
  BY <1>1 DEF MayLeave
<1>3. CASE k.step = "open"
  <2>1. PICK s \in Sent(n) : j = Settled(s)
    BY <1>3 DEF Delivered
  <2> HIDE DEF n
  <2>2. MayLeave(n, j)
    BY <1>2, <2>1, SentLeaves
  <2> QED
    BY <1>1, <2>2, LeavesOn
<1> QED
  BY <1>3, ClosedLeaves DEF Delivered

(* Every functor a loop can run.                                           *)
LEMMA AfterLeaves ==
  ASSUME NEW k \in ConnRecords, NEW kind \in Kinds, NEW j \in After(k, kind)
  PROVE  MayLeave(k, j)
<1>1. MayLeave(k, [k EXCEPT !.added = TRUE, !.reading = TRUE])
  BY DEF MayLeave, ConnRecords
<1>2. CASE kind \in {"deliver", "deliverAndClose"}
  BY <1>2, DeliveredLeaves DEF After
<1> QED
  BY <1>1, <1>2, ClosedLeaves, ShutDownLeaves DEF After, Kinds

-----------------------------------------------------------------------------
(* The step of a handler on connection c: it has an owner, is not in the   *)
(* middle of handleClose, and its owner and activeConnections stay.        *)
Handled(c) ==
    /\ owner[c] # None /\ conn[c].step # "counted"
    /\ \E k \in ConnRecords : MayLeave(conn[c], k) /\ Becomes(c, k)
    /\ UNCHANGED <<active, owner>>

(* The step of an accept() that found room: the connection is counted, in  *)
(* both counters, and given to a loop.                                     *)
Admitted(c) ==
    /\ HasRoom
    /\ count' = count + 1 /\ active' = active + 1
    /\ conn' = [conn EXCEPT ![c].step = "open"]
    /\ \E l \in Loops : owner' = [owner EXCEPT ![c] = l]

(* The functor at the head of a queue is about a connection of that loop.  *)
LEMMA FunctorTyped ==
  ASSUME TypeOK, OwnerInv, NEW l \in Loops, functors[l] # <<>>
  PROVE  /\ Head(functors[l])[1] \in Conns /\ Head(functors[l])[2] \in Kinds
         /\ owner[Head(functors[l])[1]] = l
<1> DEFINE f == functors[l]
<1>1. f \in Seq(Conns \X Kinds) /\ f # <<>>
  BY DEF TypeOK, LoopType
<1>2. Head(f) = f[1] /\ 1 \in DOMAIN f /\ Head(f) \in Conns \X Kinds
  <2> HIDE DEF f
  <2> QED
    BY <1>1, HeadTailProperties, LenProperties
<1> QED
  BY <1>2 DEF OwnerInv

(* The four handlers epoll calls are Handled steps.                        *)
LEMMA HandlersMove ==
  ASSUME TypeOK, OwnerInv, NEW c \in Conns,
         RequestArrives(c) \/ PeerFinishes(c) \/ PeerResets(c) \/ PeerReads(c)
  PROVE  Handled(c)
<1> DEFINE k == conn[c]
<1>1. /\ k \in ConnRecords /\ owner[c] # None /\ k.step = "open"
  BY DEF TypeOK, ConnType, RequestArrives, PeerFinishes, PeerResets, PeerReads, CanHear
<1>2. UNCHANGED <<active, owner>>
  BY DEF RequestArrives, PeerFinishes, PeerResets, PeerReads
<1>3. CASE RequestArrives(c)
  <2> DEFINE m == [conn[c] EXCEPT !.closing = @ \/ isShutdown]
  <2>1. MayLeave(k, m)
    BY <1>1 DEF TypeOK, DrainType, MayLeave, ConnRecords
  <2>2. m \in ConnRecords
    BY <2>1 DEF MayLeave
  <2>3. CASE Becomes(c, [m EXCEPT !.inflight = TRUE])
    <3>1. MayLeave(k, [m EXCEPT !.inflight = TRUE])
      BY <2>1 DEF MayLeave, ConnRecords
    <3> QED
      BY <1>1, <1>2, <2>3, <3>1 DEF Handled, MayLeave
  <2>4. CASE \E s \in Sent(m) : Becomes(c, Settled(s))
    <3>1. PICK s \in Sent(m) : Becomes(c, Settled(s))
      BY <2>4
    <3> HIDE DEF m
    <3>2. MayLeave(m, Settled(s))
      BY <2>2, SentLeaves
    <3>3. MayLeave(k, Settled(s))
      BY <1>1, <2>1, <3>2, LeavesOn
    <3> QED
      BY <1>1, <1>2, <3>1, <3>3 DEF Handled, MayLeave
  <2> QED
    BY <1>3, <2>3, <2>4 DEF RequestArrives
<1>4. CASE PeerFinishes(c)
  <2>1. MayLeave(k, ShutDown(k)) /\ Becomes(c, ShutDown(k))
    BY <1>1, <1>4, ShutDownLeaves DEF PeerFinishes
  <2> QED
    BY <1>1, <1>2, <2>1 DEF Handled, MayLeave
<1>5. CASE PeerResets(c)
  <2>1. MayLeave(k, Closed(k)) /\ Becomes(c, Closed(k))
    BY <1>1, <1>5, ClosedLeaves DEF PeerResets
  <2> QED
    BY <1>1, <1>2, <2>1 DEF Handled, MayLeave
<1>6. CASE PeerReads(c)
  <2> DEFINE m == [conn[c] EXCEPT !.blocked = FALSE]
  <2>1. MayLeave(k, m)
    BY <1>1 DEF MayLeave, ConnRecords
  <2>2. m \in ConnRecords /\ Becomes(c, Settled(m))
    BY <1>6, <2>1 DEF MayLeave, PeerReads
  <2> HIDE DEF m
  <2>3. MayLeave(m, Settled(m))
    BY <2>2, ClosedLeaves
  <2>4. MayLeave(k, Settled(m))
    BY <1>1, <2>1, <2>3, LeavesOn
  <2> QED
    BY <1>1, <1>2, <2>2, <2>4 DEF Handled, MayLeave
<1> QED
  BY <1>3, <1>4, <1>5, <1>6

(* The run of a functor is a Handled step.                                 *)
LEMMA FunctorMoves ==
  ASSUME TypeOK, OwnerInv, NEW l \in Loops, RunFunctor(l)
  PROVE  Handled(Head(functors[l])[1])
<1> DEFINE c == Head(functors[l])[1]
           kind == Head(functors[l])[2]
<1>1. c \in Conns /\ kind \in Kinds /\ owner[c] = l
  BY FunctorTyped DEF RunFunctor
<1>2. PICK k \in After(conn[c], kind) : Becomes(c, k)
  BY DEF RunFunctor
<1>3. conn[c] \in ConnRecords
  BY <1>1 DEF TypeOK, ConnType
<1> HIDE DEF kind
<1>4. MayLeave(conn[c], k)
  BY <1>1, <1>2, <1>3, AfterLeaves
<1>5. conn[c].step # "counted"
  BY <1>1 DEF RunFunctor, At, Busy
<1>6. owner[c] # None
  BY <1>1 DEF Loops
<1> QED
  BY <1>2, <1>4, <1>5, <1>6 DEF Handled, RunFunctor, MayLeave

(* The round robin picks one of subLoops_.                                 *)
LEMMA LoopOfTurn ==
  TypeOK => 1 + (next % setting.loops) \in Loops
BY DEF TypeOK, MainType, ListenType, Loops

(* Every step, by what it does to the connections and their counters.      *)
LEMMA ConnMoves ==
  ASSUME TypeOK, OwnerInv, [Next]_vars
  PROVE  \/ UNCHANGED <<conn, count, active, owner>>
         \/ \E c \in backlog : AcceptOne(c) /\ Admitted(c)
         \/ /\ \E c \in backlog : Refuse(c) /\ backlog' = backlog \ {c}
         \/ \E c \in Conns : Handled(c)
         \/ \E c \in Conns : CloseMetric(c) \/ CloseErase(c)
<1>0. CASE UNCHANGED vars
  BY <1>0 DEF vars, connVars
<1>1. CASE MainStep /\ ~\E c \in Conns : AcceptOne(c)
  BY <1>1 DEF MainStep, Spawn, Await, AcceptBegins, AcceptEnds, ShutdownCallback,
     CheckActive, CheckPool, CheckVars,
     LeaveMainLoop, PostShutdowns, QuitLoop, WakeLoop, DestroyThread, JoinThread, connVars
<1>2. ASSUME NEW c \in Conns, AcceptOne(c)
      PROVE  \/ UNCHANGED <<conn, count, active, owner>>
             \/ AcceptOne(c) /\ Admitted(c)
             \/ Refuse(c) /\ backlog' = backlog \ {c}
  <2>1. CASE HasRoom
    BY <1>2, <2>1, LoopOfTurn DEF AcceptOne, Admit, Admitted, connVars
  <2>2. CASE ~HasRoom
    BY <1>2, <2>2 DEF AcceptOne
  <2> QED
    BY <2>1, <2>2
<1>3. CASE StopPool \/ DrainTimer \/ AcceptFails
  BY <1>3 DEF StopPool, DrainTimer, CheckVars, AcceptFails, connVars
<1>4. ASSUME NEW l \in Loops, IoStep(l)
      PROVE  \/ UNCHANGED <<conn, count, active, owner>>
             \/ \E c \in Conns : Handled(c)
             \/ \E c \in Conns : CloseMetric(c) \/ CloseErase(c)
  <2>1. CASE RunFunctor(l)
    BY <2>1, FunctorMoves, FunctorTyped DEF RunFunctor
  <2> QED
    BY <1>4, <2>1 DEF IoStep, Publish, EnterLoop, DrainEnds, Test, FreeLoop, connVars
<1>5. ASSUME NEW c \in Conns, WorkerStep(c) \/ Heartbeat(c) \/ Connect(c)
      PROVE  UNCHANGED <<conn, count, active, owner>>
  BY <1>5 DEF WorkerStep, Take, Answer, TaskDone, Heartbeat, Connect, WorkerVars, connVars
<1>6. ASSUME NEW c \in Conns, PeerStep(c), ~Connect(c)
      PROVE  Handled(c)
  BY <1>6, HandlersMove DEF PeerStep
<1>7. ASSUME NEW c \in Conns, AcceptLoses(c)
      PROVE  c \in backlog /\ Refuse(c) /\ backlog' = backlog \ {c}
  BY <1>7 DEF AcceptLoses
<1>8. \A c \in Conns : AcceptOne(c) => c \in backlog
  BY DEF AcceptOne
<1> QED
  BY <1>0, <1>1, <1>2, <1>3, <1>4, <1>5, <1>6, <1>7, <1>8 DEF Next, MainStep

-----------------------------------------------------------------------------
(* The connections connectionCount_ counts.                                *)
Listed == {c \in Conns : conn[c].step = "open"}

(* The connections activeConnections counts.                               *)
Metered == {c \in Conns : conn[c].step \in {"open", "counted"}}

(* Both sets are finite, so that their cardinalities are numbers.          *)
LEMMA CountersFinite ==
  ASSUME TypeOK, OwnerInv
  PROVE  /\ IsFiniteSet(Listed) /\ Cardinality(Listed) \in Nat
         /\ IsFiniteSet(Metered) /\ Cardinality(Metered) \in Nat
<1>1. Listed \in SUBSET Known /\ Metered \in SUBSET Known
  BY DEF Listed, Metered, Known, OwnerInv
<1> QED
  BY <1>1, FS_Subset, FS_CardinalityType DEF OwnerInv

(* The configuration is read once.                                         *)
LEMMA SettingKept == [Next]_vars => setting' = setting
<1> SUFFICES ASSUME [Next]_vars PROVE setting' = setting
  OBVIOUS
<1>1. CASE MainStep
  BY <1>1 DEF MainStep, Spawn, Await, AcceptBegins, AcceptEnds, ShutdownCallback,
     CheckActive, CheckPool, CheckVars,
     LeaveMainLoop, PostShutdowns, QuitLoop, WakeLoop, DestroyThread, JoinThread,
     AcceptOne, Admit, Refuse
<1>2. CASE StopPool \/ DrainTimer \/ AcceptFails \/ UNCHANGED vars
  BY <1>2 DEF StopPool, DrainTimer, CheckVars, AcceptFails, vars
<1>3. ASSUME NEW l \in Loops, IoStep(l) PROVE setting' = setting
  BY <1>3 DEF IoStep, Publish, EnterLoop, RunFunctor, DrainEnds, Test, FreeLoop, CloseMetric,
     CloseErase, IoVars
<1>4. ASSUME NEW c \in Conns,
             WorkerStep(c) \/ PeerStep(c) \/ AcceptLoses(c) \/ Heartbeat(c)
      PROVE  setting' = setting
  BY <1>4 DEF WorkerStep, Take, Answer, TaskDone, PeerStep, Connect, RequestArrives,
     PeerFinishes, PeerResets, PeerReads, AcceptLoses, Refuse, Heartbeat,
     WorkerVars, IoVars
<1> QED
  BY <1>1, <1>2, <1>3, <1>4 DEF Next

(* Every step keeps both counters exact: accept() adds one connection to   *)
(* each, the first handler that closes it takes it out of                  *)
(* connectionCount_, and the last step of handleClose() out of             *)
(* activeConnections.  connectionCount_ stays within maxConnections_ since *)
(* the test and the increment are both main's.                             *)
LEMMA CountStep ==
  ASSUME TypeOK, OwnerInv, BacklogInv, CountsAgree, [Next]_vars
  PROVE  ConnType' /\ CountsAgree'
<1> USE DEF ConnType, CountsAgree
<1> DEFINE Counts == /\ count' = Cardinality(Listed') /\ active' = Cardinality(Metered')
                     /\ count' <= setting.max
<1>0. /\ count = Cardinality(Listed) /\ active = Cardinality(Metered)
      /\ count <= setting.max /\ setting.max \in Nat
  BY DEF Listed, Metered, TypeOK, MainType
<1>1. SUFFICES ConnType' /\ Counts
  BY <1>1, SettingKept DEF Listed, Metered
<1>2. CASE UNCHANGED <<conn, count, active, owner>>
  BY <1>0, <1>2, SettingKept DEF TypeOK, Listed, Metered, Loops
<1>3. ASSUME NEW c \in backlog, Admitted(c) PROVE ConnType' /\ Counts
  <2>1. c \in Conns /\ conn[c] \in ConnRecords /\ conn[c].step = "new"
    BY DEF TypeOK, ListenType, BacklogInv
  <2>2. conn' \in [Conns -> ConnRecords]
    BY <1>3, <2>1 DEF Admitted, TypeOK, ConnRecords, Steps
  <2>3. Listed' = Listed \cup {c} /\ c \notin Listed
    BY <1>3, <2>1 DEF Admitted, TypeOK, Listed
  <2>4. Metered' = Metered \cup {c} /\ c \notin Metered
    BY <1>3, <2>1 DEF Admitted, TypeOK, Metered
  <2>5. /\ Cardinality(Listed') = Cardinality(Listed) + 1
        /\ Cardinality(Metered') = Cardinality(Metered) + 1
    BY <2>3, <2>4, CountersFinite, FS_AddElement
  <2>6. owner' \in [Conns -> Loops' \union {None}]
    BY <1>3, SettingKept DEF Admitted, TypeOK, Loops
  <2> QED
    BY <1>0, <1>3, <2>2, <2>5, <2>6, CountersFinite, SettingKept DEF Admitted, HasRoom
<1>4. ASSUME NEW c \in backlog, Refuse(c) PROVE ConnType' /\ Counts
  <2>1. c \in Conns /\ conn[c] \in ConnRecords /\ conn[c].step = "new"
    BY DEF TypeOK, ListenType, BacklogInv
  <2>2. conn' \in [Conns -> ConnRecords] /\ Listed' = Listed /\ Metered' = Metered
    BY <1>4, <2>1 DEF Refuse, TypeOK, ConnRecords, Steps, Listed, Metered
  <2> QED
    BY <1>0, <1>4, <2>2, SettingKept DEF Refuse, TypeOK, Loops
<1>5. ASSUME NEW c \in Conns, Handled(c) PROVE ConnType' /\ Counts
  <2>1. PICK k \in ConnRecords : MayLeave(conn[c], k) /\ Becomes(c, k)
    BY <1>5 DEF Handled
  <2>2. /\ conn' \in [Conns -> ConnRecords] /\ owner' = owner /\ active' = active
        /\ conn[c].step # "counted"
    BY <1>5, <2>1 DEF Handled, Becomes, TypeOK
  <2>3. Metered' = Metered
    BY <2>1, <2>2 DEF Becomes, MayLeave, TypeOK, Metered
  <2>4. CASE k.step = "counted"
    <3>1. c \in Listed /\ Listed' = Listed \ {c}
      BY <2>1, <2>2, <2>4 DEF Becomes, MayLeave, TypeOK, Listed
    <3>2. Cardinality(Listed') = Cardinality(Listed) - 1 /\ Cardinality(Listed') \in Nat
      BY <3>1, CountersFinite, FS_RemoveElement, FS_CardinalityType
    <3>3. count' = count - 1
      BY <2>1, <2>4 DEF Becomes
    <3> QED
      BY <1>0, <2>2, <2>3, <3>2, <3>3, SettingKept, CountersFinite DEF TypeOK, Loops
  <2>5. CASE k.step # "counted"
    <3>1. Listed' = Listed
      BY <2>1, <2>2, <2>5 DEF Becomes, MayLeave, TypeOK, Listed
    <3> QED
      BY <1>0, <2>1, <2>2, <2>3, <2>5, <3>1, SettingKept DEF Becomes, TypeOK, Loops
  <2> QED
    BY <2>4, <2>5
<1>6. ASSUME NEW c \in Conns, CloseMetric(c) PROVE ConnType' /\ Counts
  <2>1. /\ conn' = [conn EXCEPT ![c].step = "left"] /\ conn[c].step = "counted"
        /\ count' = count /\ owner' = owner /\ active' = active - 1
    BY <1>6 DEF CloseMetric
  <2>2. conn' \in [Conns -> ConnRecords] /\ Listed' = Listed
    BY <2>1 DEF TypeOK, ConnRecords, Steps, Listed
  <2>3. c \in Metered /\ Metered' = Metered \ {c}
    BY <2>1 DEF TypeOK, Metered
  <2>4. Cardinality(Metered') = Cardinality(Metered) - 1 /\ Cardinality(Metered') \in Nat
    BY <2>3, CountersFinite, FS_RemoveElement, FS_CardinalityType
  <2> QED
    BY <1>0, <2>1, <2>2, <2>4, SettingKept, CountersFinite DEF TypeOK, Loops
<1>7. ASSUME NEW c \in Conns, CloseErase(c) PROVE ConnType' /\ Counts
  <2>1. /\ conn' = [conn EXCEPT ![c] = [Fresh EXCEPT !.step = "gone"]]
        /\ conn[c].step = "left"
        /\ UNCHANGED <<count, owner, active>>
    BY <1>7 DEF CloseErase
  <2>2. Fresh \in ConnRecords
    BY DEF Fresh, ConnRecords, Steps
  <2>3. [Fresh EXCEPT !.step = "gone"] \in ConnRecords /\ [Fresh EXCEPT !.step = "gone"].step = "gone"
    BY <2>2 DEF ConnRecords, Steps
  <2>4. conn' \in [Conns -> ConnRecords] /\ Listed' = Listed /\ Metered' = Metered
    BY <2>1, <2>3 DEF TypeOK, Listed, Metered
  <2> QED
    BY <1>0, <2>1, <2>4, SettingKept DEF TypeOK, Loops
<1> QED
  BY <1>2, <1>3, <1>4, <1>5, <1>6, <1>7, ConnMoves

(* Every step, by what it does to one connection: nothing, the acceptance  *)
(* or the refusal of one that waits, or a move within its life.            *)
LEMMA StepsFollow ==
  ASSUME TypeOK, OwnerInv, BacklogInv, [Next]_vars, NEW d \in Conns
  PROVE  \/ conn'[d].step = conn[d].step /\ owner'[d] = owner[d]
         \/ /\ d \in backlog /\ conn[d].step = "new" /\ conn'[d].step = "open"
            /\ AcceptOne(d) /\ \E l \in Loops : owner' = [owner EXCEPT ![d] = l]
         \/ /\ d \in backlog /\ conn[d].step = "new" /\ conn'[d].step = "refused"
            /\ backlog' = backlog \ {d} /\ owner' = owner
         \/ /\ owner'[d] = owner[d]
            /\ <<conn[d].step, conn'[d].step>> \in
                  {<<"open", "counted">>, <<"counted", "left">>, <<"left", "gone">>}
<1>0. conn[d] \in ConnRecords /\ conn \in [Conns -> ConnRecords]
      /\ owner \in [Conns -> Loops \union {None}]
  BY DEF TypeOK, ConnType
<1>1. CASE UNCHANGED <<conn, count, active, owner>>
  BY <1>1

<1>2. CASE \E c \in backlog : AcceptOne(c) /\ Admitted(c)
  <2>1. PICK c \in backlog : AcceptOne(c) /\ Admitted(c)
    BY <1>2
  <2>2. c \in Conns /\ conn[c].step = "new"
    BY DEF TypeOK, ListenType, BacklogInv
  <2> QED
    BY <1>0, <2>1, <2>2 DEF Admitted, ConnRecords
<1>3. CASE \E c \in backlog : Refuse(c) /\ backlog' = backlog \ {c}
  <2>1. PICK c \in backlog : Refuse(c) /\ backlog' = backlog \ {c}
    BY <1>3
  <2>2. c \in Conns /\ conn[c].step = "new"
    BY DEF TypeOK, ListenType, BacklogInv
  <2> QED
    BY <1>0, <2>1, <2>2 DEF Refuse, ConnRecords
<1>4. CASE \E c \in Conns : Handled(c)
  <2>1. PICK c \in Conns : Handled(c)
    BY <1>4
  <2>2. PICK k \in ConnRecords : MayLeave(conn[c], k) /\ Becomes(c, k)
    BY <2>1 DEF Handled
  <2>3. conn' = [conn EXCEPT ![c] = k] /\ owner' = owner
    BY <2>1, <2>2 DEF Handled, Becomes
  <2> QED
    BY <1>0, <2>2, <2>3 DEF MayLeave
<1>5. CASE \E c \in Conns : CloseMetric(c)
  BY <1>0, <1>5 DEF CloseMetric, ConnRecords
<1>6. CASE \E c \in Conns : CloseErase(c)
  <2>1. [Fresh EXCEPT !.step = "gone"].step = "gone"
    BY DEF Fresh
  <2> QED
    BY <1>0, <1>6, <2>1 DEF CloseErase
<1> QED
  BY <1>1, <1>2, <1>3, <1>4, <1>5, <1>6, ConnMoves

-----------------------------------------------------------------------------
(* A queue whose functors are about connections of loop l.                 *)
Holds(q, l) ==
    /\ q \in Seq(Conns \X Kinds)
    /\ \A i \in DOMAIN q : owner[q[i][1]] = l

(* The empty queue does.                                                   *)
LEMMA HoldsEmpty == \A l : Holds(<<>>, l)
BY EmptySeq DEF Holds

(* queueInLoop() of a functor of one of the loop's own connections.        *)
LEMMA HoldsAppend ==
  ASSUME NEW l, NEW q, Holds(q, l), NEW c \in Conns, NEW kind \in Kinds, owner[c] = l
  PROVE  Holds(Append(q, <<c, kind>>), l)
<1>1. <<c, kind>> \in Conns \X Kinds /\ <<c, kind>>[1] = c
  OBVIOUS
<1>2. /\ Append(q, <<c, kind>>) \in Seq(Conns \X Kinds)
      /\ Len(q) \in Nat /\ DOMAIN q = 1 .. Len(q)
      /\ DOMAIN Append(q, <<c, kind>>) = 1 .. Len(q) + 1
      /\ \A i \in 1 .. Len(q) : Append(q, <<c, kind>>)[i] = q[i]
      /\ Append(q, <<c, kind>>)[Len(q) + 1] = <<c, kind>>
  BY <1>1, AppendProperties, LenProperties DEF Holds
<1> QED
  BY <1>1, <1>2 DEF Holds

(* What is left when the first functor has run.                            *)
LEMMA HoldsTail ==
  ASSUME NEW l, NEW q, Holds(q, l), q # <<>>
  PROVE  Holds(Tail(q), l)
<1>1. /\ Tail(q) \in Seq(Conns \X Kinds)
      /\ Len(q) \in Nat /\ DOMAIN q = 1 .. Len(q)
      /\ DOMAIN Tail(q) = 1 .. Len(q) - 1
      /\ \A i \in 1 .. Len(q) - 1 : Tail(q)[i] = q[i + 1]
  BY HeadTailProperties, LenProperties DEF Holds
<1> QED
  BY <1>1 DEF Holds

(* Two such queues, one after the other.                                   *)
LEMMA HoldsConcat ==
  ASSUME NEW l, NEW q, Holds(q, l), NEW r, Holds(r, l)
  PROVE  Holds(q \o r, l)
<1>1. /\ q \o r \in Seq(Conns \X Kinds)
      /\ Len(q) \in Nat /\ DOMAIN q = 1 .. Len(q)
      /\ Len(r) \in Nat /\ DOMAIN r = 1 .. Len(r)
      /\ DOMAIN (q \o r) = 1 .. Len(q) + Len(r)
      /\ \A i \in 1 .. Len(q) + Len(r) :
            (q \o r)[i] = IF i <= Len(q) THEN q[i] ELSE r[i - Len(q)]
  BY ConcatProperties, LenProperties DEF Holds
<1> QED
  BY <1>1 DEF Holds

(* The shutdown functors stop() posts to a loop are those of its own       *)
(* connections, in any order connections_ lists them.                      *)
LEMMA ShutdownsHold ==
  ASSUME NEW l, NEW q \in ShutdownsFor(l), IsFiniteSet(Known),
         \A c \in Connections : owner[c] # None
  PROVE  Holds(q, l)
<1> DEFINE Here == {c \in Connections : owner[c] = l}
<1>1. PICK order \in SetToSeqs(Here) : q = [i \in DOMAIN order |-> <<order[i], "shutdown">>]
  BY DEF ShutdownsFor
<1>2. IsFiniteSet(Here) /\ Cardinality(Here) \in Nat
  <2>1. Here \in SUBSET Known
    BY DEF Known, Connections
  <2> QED
    BY <2>1, FS_Subset, FS_CardinalityType
<1>3. order \in [1 .. Cardinality(Here) -> Here]
  BY <1>1 DEF SetToSeqs
<1>4. q \in [1 .. Cardinality(Here) -> Conns \X Kinds]
  BY <1>1, <1>3 DEF Connections, Kinds
<1>5. q \in Seq(Conns \X Kinds)
  <2> DEFINE n == Cardinality(Here)
  <2>1. n \in Nat /\ q \in [1 .. n -> Conns \X Kinds]
    BY <1>2, <1>4
  <2> HIDE DEF n
  <2> QED
    BY ONLY <2>1, SeqDef
<1>6. \A i \in DOMAIN q : owner[q[i][1]] = l
  BY <1>1, <1>3
<1> QED
  BY <1>5, <1>6 DEF Holds

(* Every loop's queue is such a queue.                                     *)
Queues(f) == /\ f = [l \in Loops |-> f[l]]
             /\ \A l \in Loops : Holds(f[l], l)

(* OwnerInv says so before a step.                                         *)
LEMMA QueuesHold == TypeOK /\ OwnerInv => Queues(functors)
BY DEF TypeOK, LoopType, OwnerInv, Holds, Queues

(* A functor posted to the owner of its connection.                        *)
LEMMA QueueOne ==
  ASSUME TypeOK, OwnerInv, NEW c \in Conns, owner[c] # None, NEW kind \in Kinds,
         Queue(owner[c], <<c, kind>>)
  PROVE  Queues(functors')
<1>1. owner[c] \in Loops
  BY DEF TypeOK, ConnType
<1>2. Holds(Append(functors[owner[c]], <<c, kind>>), owner[c])
  BY <1>1, QueuesHold, HoldsAppend DEF Queues
<1> QED
  BY <1>1, <1>2, QueuesHold DEF Queue, Queues

(* Every step that accepts nothing leaves the queues so.                   *)
LEMMA QueueSteps ==
  ASSUME TypeOK, OwnerInv, [Next]_vars, ~\E c \in Conns : AcceptOne(c)
  PROVE  Queues(functors')
<1>1. CASE UNCHANGED functors
  BY <1>1, QueuesHold DEF Queues
<1>2. CASE MainStep /\ ~PostShutdowns
  <2>1. UNCHANGED functors
    BY <1>2 DEF MainStep, Spawn, Await, AcceptBegins, AcceptEnds, ShutdownCallback,
       CheckActive, CheckPool, CheckVars,
     CheckActive, CheckPool, CheckVars,
       LeaveMainLoop, QuitLoop, WakeLoop, DestroyThread, JoinThread, loopVars
  <2> QED
    BY <1>1, <2>1
<1>3. CASE PostShutdowns
  <2>1. PICK posted \in [Loops -> UNION {ShutdownsFor(l) : l \in Loops}] :
          /\ \A l \in Loops : posted[l] \in ShutdownsFor(l)
          /\ functors' = [l \in Loops |-> functors[l] \o posted[l]]
    BY <1>3 DEF PostShutdowns
  <2>2. \A c \in Connections : owner[c] # None
    BY DEF Connections, OwnerInv
  <2>3. ASSUME NEW l \in Loops PROVE Holds(functors[l] \o posted[l], l)
    BY <2>1, <2>2, QueuesHold, ShutdownsHold, HoldsConcat DEF Queues, OwnerInv
  <2> QED
    BY <2>1, <2>3 DEF Queues
<1>4. CASE StopPool \/ DrainTimer \/ AcceptFails
  BY <1>1, <1>4 DEF StopPool, DrainTimer, CheckVars, AcceptFails, loopVars
<1>5. ASSUME NEW l \in Loops, RunFunctor(l) PROVE Queues(functors')
  <2>1. functors' = [functors EXCEPT ![l] = Tail(functors[l])] /\ functors[l] # <<>>
    BY <1>5 DEF RunFunctor
  <2>2. Holds(Tail(functors[l]), l)
    BY <2>1, QueuesHold, HoldsTail DEF Queues
  <2> QED
    BY <2>1, <2>2, QueuesHold DEF Queues
<1>6. ASSUME NEW l \in Loops, FreeLoop(l) PROVE Queues(functors')
  BY <1>6, QueuesHold, HoldsEmpty DEF Queues, FreeLoop
<1>7. ASSUME NEW l \in Loops, IoStep(l), ~RunFunctor(l), ~FreeLoop(l)
      PROVE  Queues(functors')
  BY <1>1, <1>7 DEF IoStep, Publish, EnterLoop, DrainEnds, Test, CloseMetric, CloseErase, loopVars
<1>8. ASSUME NEW c \in Conns, Heartbeat(c) PROVE Queues(functors')
  BY <1>8, QueueOne DEF Heartbeat, Connections, OwnerInv, Kinds
<1>9. ASSUME NEW c \in Conns, Answer(c) PROVE Queues(functors')
  <2>1. owner[c] # None
    BY <1>9 DEF Answer, OwnerInv
  <2> QED
    BY <1>9, <2>1, QueueOne DEF Answer, Kinds
<1>10. ASSUME NEW c \in Conns, Take(c) \/ TaskDone(c) \/ PeerStep(c) \/ AcceptLoses(c)
       PROVE  Queues(functors')
  <2>1. UNCHANGED functors
    BY <1>10 DEF Take, TaskDone, PeerStep, Connect, RequestArrives, PeerFinishes,
       PeerResets, PeerReads, AcceptLoses, Refuse, loopVars
  <2> QED
    BY <1>1, <2>1
<1>11. UNCHANGED vars => UNCHANGED functors
  BY DEF vars, loopVars
<1> QED
  BY <1>1, <1>2, <1>3, <1>4, <1>5, <1>6, <1>7, <1>8, <1>9, <1>10, <1>11
  DEF Next, WorkerStep

(* What an accept() does to owners and queues.                             *)
LEMMA Accepted ==
  ASSUME TypeOK, OwnerInv, BacklogInv, NEW c \in Conns, AcceptOne(c)
  PROVE  /\ owner[c] = None
         /\ \/ owner' = owner /\ functors' = functors
            \/ \E l \in Loops :
                  /\ owner' = [owner EXCEPT ![c] = l]
                  /\ functors' = [functors EXCEPT ![l] = Append(@, <<c, "establish">>)]
<1>1. conn[c].step = "new" /\ owner[c] = None
  BY DEF AcceptOne, BacklogInv, OwnerInv
<1>2. CASE HasRoom
  BY <1>1, <1>2, LoopOfTurn DEF AcceptOne, Admit, Queue, loopVars, connVars
<1>3. CASE ~HasRoom
  BY <1>1, <1>3 DEF AcceptOne, Refuse, loopVars
<1> QED
  BY <1>1, <1>2, <1>3

(* Every step: the functors in a queue belong to that loop, also when the  *)
(* step has given a connection its loop.                                   *)
LEMMA QueueStep ==
  ASSUME TypeOK, OwnerInv, BacklogInv, [Next]_vars
  PROVE  /\ functors' \in [Loops -> Seq(Conns \X Kinds)]
         /\ \A l \in Loops : \A i \in DOMAIN functors'[l] :
               owner'[functors'[l][i][1]] = l
<1>1. CASE ~\E c \in Conns : AcceptOne(c)
  <2>1. \A d \in Conns : owner'[d] = owner[d]
    BY <1>1, StepsFollow DEF TypeOK, ListenType
  <2>2. Queues(functors')
    BY <1>1, QueueSteps
  <2>3. functors' \in [Loops -> Seq(Conns \X Kinds)]
    BY <2>2 DEF Queues, Holds
  <2>4. ASSUME NEW l \in Loops, NEW i \in DOMAIN functors'[l]
        PROVE  owner'[functors'[l][i][1]] = l
    <3>1. functors'[l] \in Seq(Conns \X Kinds) /\ owner[functors'[l][i][1]] = l
      BY <2>2 DEF Queues, Holds
    <3>2. functors'[l][i] \in Conns \X Kinds
      BY <3>1, LenProperties
    <3> QED
      BY <2>1, <3>1, <3>2
  <2> QED
    BY <2>3, <2>4
<1>2. CASE \E c \in Conns : AcceptOne(c)
  <2>1. PICK c \in Conns : AcceptOne(c)
    BY <1>2
  <2>2. CASE owner' = owner /\ functors' = functors
    BY <2>2 DEF TypeOK, LoopType, OwnerInv
  <2>3. ASSUME NEW l \in Loops, owner' = [owner EXCEPT ![c] = l],
               functors' = [functors EXCEPT ![l] = Append(@, <<c, "establish">>)]
        PROVE  /\ functors' \in [Loops -> Seq(Conns \X Kinds)]
               /\ \A m \in Loops : \A i \in DOMAIN functors'[m] :
                     owner'[functors'[m][i][1]] = m
    <3> DEFINE q == functors[l]
               f == <<c, "establish">>
    <3>1. f \in Conns \X Kinds /\ f[1] = c
      BY DEF Kinds
    <3>2. \A m \in Loops : functors[m] \in Seq(Conns \X Kinds)
      BY DEF TypeOK, LoopType
    <3>3. /\ Append(q, f) \in Seq(Conns \X Kinds)
          /\ Len(q) \in Nat /\ DOMAIN q = 1 .. Len(q)
          /\ DOMAIN Append(q, f) = 1 .. Len(q) + 1
          /\ \A i \in 1 .. Len(q) : Append(q, f)[i] = q[i]
          /\ Append(q, f)[Len(q) + 1] = f
      BY <3>1, <3>2, AppendProperties, LenProperties
    <3>4. functors' \in [Loops -> Seq(Conns \X Kinds)]
      BY <2>3, <3>3 DEF TypeOK, LoopType
    <3>5. ASSUME NEW m \in Loops, NEW i \in DOMAIN functors[m]
          PROVE  owner'[functors[m][i][1]] = m
      <4>1. functors[m][i] \in Conns \X Kinds /\ owner[functors[m][i][1]] = m
        BY <3>2, LenProperties DEF OwnerInv
      <4>2. owner[c] = None /\ m # None
        BY <2>1, Accepted DEF Loops
      <4> QED
        BY <2>3, <4>1, <4>2 DEF TypeOK, ConnType
    <3>6. owner'[c] = l
      BY <2>3 DEF TypeOK, ConnType
    <3>7. functors'[l] = Append(q, f) /\ \A m \in Loops \ {l} : functors'[m] = functors[m]
      BY <2>3 DEF TypeOK, LoopType
    <3>8. ASSUME NEW i \in DOMAIN functors'[l] PROVE owner'[functors'[l][i][1]] = l
      <4> HIDE DEF q, f
      <4>1. CASE i = Len(q) + 1
        BY <3>1, <3>3, <3>6, <3>7, <4>1
      <4>2. CASE i \in DOMAIN q
        BY <3>3, <3>5, <3>7, <4>2 DEF q
      <4> QED
        BY <3>3, <3>7, <4>1, <4>2
    <3> QED
      BY <3>4, <3>5, <3>7, <3>8
  <2> QED
    BY <2>1, <2>2, <2>3, Accepted
<1> QED
  BY <1>1, <1>2

(* A connection has a request at a worker only if it had one, or its       *)
(* client has just sent one.                                               *)
LEMMA TasksBegin ==
  ASSUME TypeOK, [Next]_vars, NEW d \in Conns, task'[d] # "none"
  PROVE  task[d] # "none" \/ RequestArrives(d)
<1>1. CASE MainStep \/ StopPool \/ DrainTimer \/ AcceptFails \/ UNCHANGED vars
  BY <1>1 DEF MainStep, Spawn, Await, AcceptBegins, AcceptEnds, ShutdownCallback,
     CheckActive, CheckPool, CheckVars,
     LeaveMainLoop, PostShutdowns, QuitLoop, WakeLoop, DestroyThread, JoinThread,
     AcceptOne, StopPool, DrainTimer, CheckVars, AcceptFails, vars, poolVars
<1>2. CASE \E l \in Loops : IoStep(l)
  BY <1>2 DEF IoStep, Publish, EnterLoop, RunFunctor, DrainEnds, Test, FreeLoop, CloseMetric,
     CloseErase, IoVars, poolVars
<1>3. ASSUME NEW c \in Conns, WorkerStep(c) PROVE task[d] # "none"
  BY <1>3 DEF WorkerStep, Take, Answer, TaskDone, TypeOK, PoolType
<1>4. ASSUME NEW c \in Conns, PeerStep(c) \/ AcceptLoses(c) \/ Heartbeat(c),
             ~RequestArrives(c)
      PROVE  task[d] # "none"
  BY <1>4 DEF PeerStep, Connect, PeerFinishes, PeerResets, PeerReads,
     AcceptLoses, Heartbeat, IoVars, poolVars
<1>5. ASSUME NEW c \in Conns, RequestArrives(c), c # d PROVE task[d] # "none"
  BY <1>5 DEF RequestArrives, TypeOK, PoolType
<1> QED
  BY <1>1, <1>2, <1>3, <1>4, <1>5 DEF Next, PeerStep

(* Every step keeps the owners.                                            *)
LEMMA OwnerStep ==
  ASSUME TypeOK, OwnerInv, BacklogInv, [Next]_vars
  PROVE  OwnerInv'
<1>1. IsFiniteSet(Known')
  <2>1. CASE \E c \in Conns : Known' = Known \cup {c}
    BY <2>1, FS_AddElement DEF OwnerInv
  <2>2. CASE Known' = Known
    BY <2>2 DEF OwnerInv
  <2>3. CASE \E c \in Conns, l \in Loops : owner' = [owner EXCEPT ![c] = l]
    <3>1. PICK c \in Conns, l \in Loops : owner' = [owner EXCEPT ![c] = l]
      BY <2>3
    <3>2. Known' = Known \cup {c}
      BY <3>1 DEF Known, Loops, TypeOK, ConnType
    <3> QED
      BY <2>1, <3>2
  <2>4. CASE \A d \in Conns : owner'[d] = owner[d]
    BY <2>2, <2>4 DEF Known
  <2> QED
    BY <2>3, <2>4, StepsFollow
<1>2. ASSUME NEW d \in Conns
      PROVE  /\ owner'[d] # None <=> conn'[d].step \notin {"new", "refused"}
             /\ owner[d] # None => owner'[d] # None
  <2>1. owner[d] # None <=> conn[d].step \notin {"new", "refused"}
    BY DEF OwnerInv
  <2>2. owner \in [Conns -> Loops \union {None}] /\ None \notin Loops
    BY DEF TypeOK, ConnType, Loops
  <2> QED
    BY <2>1, <2>2, StepsFollow
<1>3. ASSUME NEW d \in Conns, task'[d] # "none" PROVE owner'[d] # None
  <2>1. task[d] # "none" \/ RequestArrives(d)
    BY <1>3, TasksBegin
  <2>2. owner[d] # None
    BY <2>1 DEF OwnerInv, RequestArrives, CanHear
  <2> QED
    BY <1>2, <2>2
<1>4. \A l \in Loops' : \A i \in DOMAIN functors'[l] : owner'[functors'[l][i][1]] = l
  BY QueueStep, SettingKept DEF Loops
<1> QED
  BY <1>1, <1>2, <1>3, <1>4 DEF OwnerInv

-----------------------------------------------------------------------------
(* A step of an IO loop leaves the listener, the pool, the drain and main  *)
(* alone, but for what it names.                                           *)
LEMMA IoKeeps == \A l \in Loops : IoStep(l) => UNCHANGED IoVars
BY DEF IoStep, Publish, EnterLoop, RunFunctor, DrainEnds, Test, FreeLoop, CloseMetric, CloseErase,
   IoVars

(* Every step keeps the pool's part: nothing is submitted once it is       *)
(* joined.                                                                 *)
LEMMA PoolStep ==
  ASSUME TypeOK, PoolInv, [Next]_vars
  PROVE  PoolType' /\ PoolInv'
<1> USE DEF PoolType, PoolInv, TypeOK, Tasks
<1>1. CASE MainStep \/ DrainTimer \/ AcceptFails \/ UNCHANGED vars
  <2>1. UNCHANGED poolVars
    BY <1>1 DEF MainStep, Spawn, Await, AcceptBegins, AcceptEnds, ShutdownCallback,
     CheckActive, CheckPool, CheckVars,
       LeaveMainLoop, PostShutdowns, QuitLoop, WakeLoop, DestroyThread, JoinThread,
       AcceptOne, DrainTimer, AcceptFails, vars
  <2> QED
    BY <2>1 DEF poolVars
<1>2. CASE StopPool
  BY <1>2 DEF StopPool, WorkersIdle
<1>3. ASSUME NEW l \in Loops, IoStep(l) PROVE PoolType' /\ PoolInv'
  BY <1>3, IoKeeps DEF IoVars, poolVars
<1>4. ASSUME NEW c \in Conns, WorkerStep(c) PROVE PoolType' /\ PoolInv'
  BY <1>4 DEF WorkerStep, Take, Answer, TaskDone, WorkerVars
<1>5. ASSUME NEW c \in Conns, RequestArrives(c) PROVE PoolType' /\ PoolInv'
  BY <1>5 DEF RequestArrives
<1>6. ASSUME NEW c \in Conns, PeerStep(c) \/ AcceptLoses(c) \/ Heartbeat(c),
             ~RequestArrives(c)
      PROVE  PoolType' /\ PoolInv'
  BY <1>6 DEF PeerStep, Connect, PeerFinishes, PeerResets, PeerReads, AcceptLoses,
     Heartbeat, IoVars, poolVars
<1> QED
  BY <1>1, <1>2, <1>3, <1>4, <1>5, <1>6 DEF Next

(* Every step keeps an edge, or a pass of the acceptor that is going to    *)
(* look, for the connections that wait.                                    *)
LEMMA ListenStep ==
  ASSUME TypeOK, OwnerInv, BacklogInv, [Next]_vars
  PROVE  /\ ListenType' /\ BacklogInv'
         /\ \A d \in backlog' : d \in backlog \/ Connect(d)
<1> DEFINE Edges == /\ next' \in 0 .. setting.loops - 1 /\ backlog' \subseteq Conns
                    /\ listening' \in BOOLEAN /\ edge' \in BOOLEAN
                    /\ accepting' \in BOOLEAN /\ gaveUp' \in BOOLEAN
                    /\ backlog' # {} => listening' /\ (edge' \/ accepting' \/ gaveUp')
           Newcomers == \A d \in backlog' :
                            d \in backlog \/ (Connect(d) /\ conn'[d].step = "new")
<1> USE DEF ListenType, BacklogInv, TypeOK
<1>1. ASSUME UNCHANGED listenVars PROVE Edges /\ Newcomers
  BY <1>1 DEF listenVars
<1>2. ASSUME MainStep, ~(\E c \in Conns : AcceptOne(c)) PROVE Edges /\ Newcomers
  <2>1. CASE UNCHANGED listenVars
    BY <1>1, <2>1
  <2>2. CASE Await
    BY <2>2 DEF Await
  <2>3. CASE AcceptBegins \/ AcceptEnds \/ ShutdownCallback
    BY <2>3 DEF AcceptBegins, AcceptEnds, ShutdownCallback, MainFree
  <2> QED
    BY <1>2, <2>1, <2>2, <2>3
    DEF MainStep, CheckActive, CheckPool, CheckVars, Spawn, LeaveMainLoop, PostShutdowns, QuitLoop, WakeLoop, DestroyThread,
    JoinThread
<1>3. ASSUME NEW c \in Conns, AcceptOne(c) PROVE Edges /\ Newcomers
  <2>1. next' \in 0 .. setting.loops - 1
    <3>1. (next + 1) % setting.loops \in 0 .. setting.loops - 1
      BY DEF MainType
    <3> QED
      BY <1>3, <3>1 DEF AcceptOne, Admit, NextLoop, Refuse
  <2> QED
    BY <1>3, <2>1 DEF AcceptOne, Accepting
<1>4. ASSUME StopPool \/ DrainTimer \/ UNCHANGED vars PROVE UNCHANGED listenVars
  BY <1>4 DEF StopPool, DrainTimer, CheckVars, vars
<1>9. ASSUME AcceptFails PROVE Edges /\ Newcomers
  BY <1>9 DEF AcceptFails
<1>5. ASSUME NEW l \in Loops, IoStep(l) PROVE UNCHANGED listenVars
  BY <1>5, IoKeeps DEF IoVars
<1>6. ASSUME NEW c \in Conns, WorkerStep(c) \/ Heartbeat(c) \/ (PeerStep(c) /\ ~Connect(c))
      PROVE  UNCHANGED listenVars
  BY <1>6 DEF WorkerStep, Take, Answer, TaskDone, WorkerVars, PeerStep, RequestArrives,
     PeerFinishes, PeerResets, PeerReads, Heartbeat, IoVars
<1>7. ASSUME NEW c \in Conns, AcceptLoses(c) PROVE Edges /\ Newcomers
  BY <1>7 DEF AcceptLoses, Refuse
<1>8. ASSUME NEW c \in Conns, Connect(c) PROVE Edges /\ Newcomers
  BY <1>8 DEF Connect, connVars
<1>10. Edges /\ Newcomers
  BY <1>1, <1>2, <1>3, <1>4, <1>5, <1>6, <1>7, <1>8, <1>9 DEF Next
<1>11. ASSUME NEW d \in backlog' PROVE conn'[d].step = "new"
  <2>1. CASE d \in backlog
    <3>1. d \in Conns /\ conn[d].step = "new" /\ ~AcceptOne(d)
      BY <2>1, <1>11 DEF AcceptOne
    <3> QED
      BY <1>11, <3>1, StepsFollow
  <2> QED
    BY <1>10, <1>11, <2>1
<1> QED
  BY <1>10, <1>11, SettingKept

(* A check ends by quitting the main loop or by arming its timer again.    *)
LEMMA CheckEnds ==
  ASSUME TypeOK, DrainInv, check # "none", check' = "none",
         LookAgain \/ QuitMain(TRUE) \/ QuitMain(FALSE)
  PROVE  /\ drains' \in Nat /\ drains' <= signals /\ drained' \in BOOLEAN
         /\ mainLooping' \in BOOLEAN /\ (~mainLooping' \/ drains' > 0)
<1>0. drains \in Nat /\ signals \in Nat /\ drains + 1 <= signals /\ drained \in BOOLEAN
      /\ mainLooping \in BOOLEAN
  BY DEF TypeOK, DrainType, MainType, DrainInv
<1>1. CASE LookAgain
  BY <1>0, <1>1 DEF LookAgain, Rearmed
<1>2. CASE QuitMain(TRUE) \/ QuitMain(FALSE)
  <2>1. drained' \in BOOLEAN
    BY <1>2, Zenon DEF QuitMain
  <2>2. drains' = drains /\ mainLooping' \in BOOLEAN /\ ~mainLooping'
    BY <1>2, Zenon DEF QuitMain
  <2>3. drains' \in Nat /\ drains' <= signals
    BY <1>0, <2>2
  <2> QED
    BY <2>1, <2>2, <2>3, Zenon
<1> QED
  BY <1>1, <1>2, Zenon

(* What the two steps of a check do to the drain's variables.              *)
LEMMA CheckMoves ==
  ASSUME TypeOK, CheckActive \/ CheckPool
  PROVE  /\ mpc = "run" /\ check # "none" /\ UNCHANGED CheckVars
         /\ \/ /\ CheckActive /\ active = 0 /\ check' = "pool"
               /\ UNCHANGED <<mainLooping, drains, drained>>
            \/ /\ check' = "none"
               /\ LookAgain \/ QuitMain(TRUE) \/ QuitMain(FALSE)
<1>1. CASE CheckActive
  BY <1>1 DEF CheckActive, DrainReads
<1>2. CASE CheckPool
  BY <1>2 DEF CheckPool
<1> QED
  BY <1>1, <1>2

(* Every step keeps the drain's part: a second signal starts a second      *)
(* chain of checks beside the first, and each chain goes on until the loop *)
(* ends.                                                                   *)
LEMMA DrainStep ==
  ASSUME TypeOK, DrainInv, [Next]_vars
  PROVE  DrainType' /\ DrainInv'
<1>0. /\ drains \in Nat /\ signals \in Nat /\ signals <= MaxSignals /\ MaxSignals \in Nat
      /\ check \in Checks /\ drained \in BOOLEAN /\ isShutdown \in BOOLEAN
  BY DEF TypeOK, DrainType
<1> USE DEF DrainType, DrainInv, Checks
<1>1. CASE ShutdownCallback
  <2>1. /\ check = "none" /\ check' = "active" /\ drains' = drains /\ drained' = drained
        /\ signals' = signals + 1 /\ signals < MaxSignals
        /\ mpc = "run" /\ mpc' = mpc /\ isShutdown' = TRUE /\ listening' = FALSE
    BY <1>1 DEF ShutdownCallback, MainFree, mainVars
  <2> QED
    BY <1>0, <2>1
<1>2. CASE DrainTimer
  <2>1. /\ check = "none" /\ check' = "active" /\ drains > 0 /\ drains' = drains - 1
        /\ UNCHANGED <<mpc, signals, isShutdown, listening, drained>>
    BY <1>2 DEF DrainTimer, MainFree, CheckVars, listenVars
  <2> QED
    BY <1>0, <2>1
<1>3. CASE CheckActive \/ CheckPool
  <2>1. /\ mpc = "run" /\ check # "none"
        /\ UNCHANGED <<mpc, signals, isShutdown, listening>>
    BY <1>3, CheckMoves DEF CheckVars, listenVars
  <2>2. CASE check' = "pool" /\ UNCHANGED <<drains, drained>>
    BY <1>0, <2>1, <2>2
  <2>3. CASE check' = "none" /\ (LookAgain \/ QuitMain(TRUE) \/ QuitMain(FALSE))
    <3>1. /\ drains' \in Nat /\ drains' <= signals /\ drained' \in BOOLEAN
          /\ ~mainLooping' \/ drains' > 0
      BY <2>1, <2>3, CheckEnds
    <3>2. DrainType'
      BY <1>0, <2>1, <2>3, <3>1
    <3>3. check' = "none" /\ signals' = signals /\ drains' <= signals
      BY <2>1, <2>3, <3>1, Zenon
    <3>4. isShutdown' /\ ~listening' /\ mpc' = "run"
      BY <2>1
    <3> QED
      BY <2>3, <3>1, <3>2, <3>3, <3>4, Zenon
  <2>4. \/ check' = "pool" /\ UNCHANGED <<drains, drained>>
        \/ check' = "none" /\ (LookAgain \/ QuitMain(TRUE) \/ QuitMain(FALSE))
    BY <1>3, CheckMoves, Zenon
  <2> QED
    BY <2>2, <2>3, <2>4, Zenon
<1>4. CASE UNCHANGED drainVars /\ UNCHANGED <<mpc, mainLooping, listening>>
  BY <1>0, <1>4 DEF drainVars
<1>5. CASE /\ UNCHANGED <<drainVars, listening>>
           /\ mpc' \notin {"spawn", "await", "run"}
  BY <1>0, <1>5 DEF drainVars
<1>6. ASSUME MainStep, ~ShutdownCallback, ~CheckActive, ~CheckPool
      PROVE  \/ UNCHANGED drainVars /\ UNCHANGED <<mpc, mainLooping, listening>>
             \/ /\ UNCHANGED <<drainVars, listening>>
                /\ mpc' \notin {"spawn", "await", "run"}
             \/ Spawn \/ Await
  <2>1. CASE AcceptBegins \/ AcceptEnds \/ \E c \in Conns : AcceptOne(c)
    BY <2>1 DEF AcceptBegins, AcceptEnds, AcceptOne, Admit, Refuse, Crash, mainVars
  <2>2. CASE LeaveMainLoop \/ PostShutdowns \/ QuitLoop \/ WakeLoop \/ DestroyThread \/ JoinThread
    BY <2>2 DEF LeaveMainLoop, PostShutdowns, QuitLoop, WakeLoop, DestroyThread, JoinThread,
       Crash, listenVars
  <2> QED
    BY <1>6, <2>1, <2>2 DEF MainStep
<1>7. CASE Spawn \/ Await
  <2>1. UNCHANGED <<drainVars, mainLooping>> /\ mpc \in {"spawn", "await"}
    BY <1>7 DEF Spawn, Await
  <2> QED
    BY <1>0, <2>1 DEF drainVars
<1>8. CASE StopPool \/ AcceptFails \/ UNCHANGED vars
  <2>1. \/ UNCHANGED drainVars /\ UNCHANGED <<mpc, mainLooping, listening>>
        \/ UNCHANGED <<drainVars, listening>> /\ mpc' \notin {"spawn", "await", "run"}
    BY <1>8 DEF StopPool, AcceptFails, vars, mainVars, listenVars
  <2> QED
    BY <1>4, <1>5, <2>1
<1>9. ASSUME NEW l \in Loops, IoStep(l)
      PROVE  UNCHANGED drainVars /\ UNCHANGED <<mpc, mainLooping, listening>>
  BY <1>9, IoKeeps DEF IoVars, mainVars, listenVars
<1>10. ASSUME NEW c \in Conns,
              WorkerStep(c) \/ PeerStep(c) \/ AcceptLoses(c) \/ Heartbeat(c)
       PROVE  UNCHANGED drainVars /\ UNCHANGED <<mpc, mainLooping, listening>>
  BY <1>10 DEF WorkerStep, Take, Answer, TaskDone, WorkerVars, PeerStep, Connect,
     RequestArrives, PeerFinishes, PeerResets, PeerReads, Heartbeat, AcceptLoses, Refuse,
     IoVars, mainVars, listenVars
<1> QED
  BY <1>1, <1>2, <1>3, <1>4, <1>5, <1>6, <1>7, <1>8, <1>9, <1>10 DEF Next

(* A drain ends where a check has read its second counter, and nowhere     *)
(* else; a check comes to its second read through the first.               *)
LEMMA DrainedBy ==
  ASSUME [Next]_vars
  PROVE  /\ drained' = drained \/ CheckActive \/ CheckPool
         /\ check' = "pool" => check = "pool" \/ CheckActive
<1>0. CASE CheckActive \/ CheckPool
  BY <1>0 DEF CheckPool
<1>1. CASE /\ MainStep \/ StopPool \/ DrainTimer \/ AcceptFails \/ UNCHANGED vars
           /\ ~CheckActive /\ ~CheckPool
  BY <1>1 DEF MainStep, Spawn, Await, AcceptBegins, AcceptEnds, AcceptOne, LeaveMainLoop,
     PostShutdowns, QuitLoop, WakeLoop, DestroyThread, JoinThread, StopPool, AcceptFails,
     ShutdownCallback, DrainTimer, vars, drainVars
<1>2. ASSUME NEW l \in Loops, IoStep(l) PROVE UNCHANGED drainVars
  BY <1>2, IoKeeps DEF IoVars
<1>3. ASSUME NEW c \in Conns,
             WorkerStep(c) \/ PeerStep(c) \/ AcceptLoses(c) \/ Heartbeat(c)
      PROVE  UNCHANGED drainVars
  BY <1>3 DEF WorkerStep, Take, Answer, TaskDone, PeerStep, Connect, RequestArrives,
     PeerFinishes, PeerResets, PeerReads, AcceptLoses, Heartbeat, WorkerVars, IoVars
<1>4. UNCHANGED drainVars => drained' = drained /\ check' = check
  BY DEF drainVars
<1> QED
  BY <1>0, <1>1, <1>2, <1>3, <1>4 DEF Next

(* activeConnections at zero: every connection is closed.                  *)
LEMMA NoneActive ==
  ASSUME TypeOK, OwnerInv, CountsAgree, active = 0
  PROVE  \A c \in Conns : conn[c].step \notin {"open", "counted"}
<1>1. Metered = {}
  BY CountersFinite, FS_EmptySet DEF CountsAgree, Metered
<1> QED
  BY <1>1 DEF Metered

(* inFlight() at zero: every task is done.                                 *)
LEMMA NoneInFlight ==
  ASSUME TypeOK, OwnerInv, InFlight = 0
  PROVE  \A c \in Conns : task[c] = "none"
<1> DEFINE T == {c \in Conns : task[c] # "none"}
<1>1. T \in SUBSET Known
  BY DEF Known, OwnerInv
<1>2. IsFiniteSet(T) /\ Cardinality(T) = 0
  BY <1>1, FS_Subset DEF OwnerInv, InFlight
<1> HIDE DEF T
<1>3. T = {}
  BY <1>2, FS_EmptySet
<1> QED
  BY <1>3 DEF T

(* Every step keeps what the first read has found: the listener is closed, *)
(* so no connection opens any more.                                        *)
LEMMA CheckStep ==
  ASSUME TypeOK, OwnerInv, CountsAgree, BacklogInv, DrainInv, CheckInv, [Next]_vars
  PROVE  CheckInv'
<1>1. CASE check = "pool"
  <2>1. backlog = {}
    BY <1>1 DEF DrainInv, BacklogInv
  <2>2. ASSUME NEW d \in Conns PROVE conn'[d].step \notin {"open", "counted"}
    BY <1>1, <2>1, StepsFollow DEF CheckInv
  <2> QED
    BY <2>2 DEF CheckInv
<1>2. CASE check # "pool" /\ check' = "pool"
  <2>1. CheckActive
    BY <1>2, DrainedBy
  <2>2. active = 0 /\ UNCHANGED conn
    BY <1>2, <2>1 DEF CheckActive, DrainReads, CheckVars, connVars
  <2> QED
    BY <2>2, NoneActive DEF CheckInv
<1>3. CASE check' # "pool"
  BY <1>3 DEF CheckInv
<1> QED
  BY <1>1, <1>2, <1>3

(* Every step after the drain ended leaves nothing owed: the listener is   *)
(* closed, and a connection that is not open gets no request. The step     *)
(* that ends it has read both counters at zero, at different times.        *)
LEMMA OwesStep ==
  ASSUME TypeOK, OwnerInv, CountsAgree, BacklogInv, DrainInv, CheckInv, DrainOwesNothing,
         [Next]_vars
  PROVE  DrainOwesNothing'
<1>1. CASE drained /\ drained'
  <2>1. ~listening
    BY <1>1 DEF DrainInv
  <2>2. ASSUME NEW d \in Conns
        PROVE  task'[d] = "none" /\ conn'[d].step \notin {"open", "counted"} /\ d \notin backlog'
    <3>1. task[d] = "none" /\ conn[d].step \notin {"open", "counted"} /\ d \notin backlog
      BY <1>1 DEF DrainOwesNothing
    <3>2. ~RequestArrives(d) /\ ~Connect(d)
      BY <2>1, <3>1 DEF RequestArrives, CanHear, Connect
    <3> QED
      BY <3>1, <3>2, TasksBegin, StepsFollow, ListenStep
  <2> QED
    BY <2>2 DEF DrainOwesNothing
<1>2. CASE ~drained /\ drained'
  <2>1. CheckPool
    <3>1. CASE CheckActive
      BY <1>2, <3>1 DEF CheckActive, QuitMain, LookAgain
    <3> QED
      BY <1>2, <3>1, DrainedBy DEF TypeOK, DrainType
  <2>2. InFlight = 0 /\ check = "pool" /\ UNCHANGED <<conn, task, backlog>>
    BY <1>2, <2>1 DEF CheckPool, QuitMain, LookAgain, DrainReads, CheckVars, connVars,
       poolVars, listenVars
  <2>3. backlog = {}
    BY <2>2 DEF DrainInv, BacklogInv
  <2> QED
    BY <2>2, <2>3, NoneInFlight DEF CheckInv, DrainOwesNothing
<1>3. CASE ~drained'
  BY <1>3 DEF DrainOwesNothing
<1> QED
  BY <1>1, <1>2, <1>3

-----------------------------------------------------------------------------
(* What the threads' part is about.                                        *)
threadVars == <<setting, mpc, mi, loopPtr, iopc, looping, deaf, joined>>

(* Every step, by what it does to the threads.                             *)
LEMMA ThreadMoves ==
  ASSUME [Next]_vars
  PROVE  \/ UNCHANGED threadVars
         \/ Spawn \/ Await \/ LeaveMainLoop \/ StopPool \/ PostShutdowns
         \/ QuitLoop \/ WakeLoop \/ DestroyThread \/ JoinThread
         \/ \E c \in Conns : AcceptOne(c) /\ Crash
         \/ \E l \in Loops : \/ Publish(l) \/ EnterLoop(l) \/ DrainEnds(l) \/ Test(l)
                            \/ FreeLoop(l)
<1>1. CASE \/ AcceptBegins \/ AcceptEnds \/ AcceptFails \/ ShutdownCallback
          \/ CheckActive \/ CheckPool \/ DrainTimer \/ UNCHANGED vars
  BY <1>1 DEF AcceptBegins, AcceptEnds, AcceptFails, ShutdownCallback, CheckActive,
     CheckPool, CheckVars, DrainTimer, vars, threadVars,
     mainVars, loopVars, poolVars
<1>2. ASSUME NEW c \in Conns, AcceptOne(c) PROVE UNCHANGED threadVars \/ Crash
  BY <1>2 DEF AcceptOne, Admit, Refuse, threadVars, mainVars, loopVars, poolVars
<1>3. ASSUME NEW l \in Loops, RunFunctor(l) PROVE UNCHANGED threadVars
  BY <1>3 DEF RunFunctor, IoVars, threadVars, mainVars, poolVars
<1>4. ASSUME NEW c \in Conns, CloseMetric(c) \/ CloseErase(c) PROVE UNCHANGED threadVars
  BY <1>4 DEF CloseMetric, CloseErase, IoVars, threadVars, mainVars, loopVars, poolVars
<1>5. ASSUME NEW c \in Conns,
             WorkerStep(c) \/ PeerStep(c) \/ AcceptLoses(c) \/ Heartbeat(c)
      PROVE  UNCHANGED threadVars
  BY <1>5 DEF WorkerStep, Take, Answer, TaskDone, PeerStep, Connect, RequestArrives,
     PeerFinishes, PeerResets, PeerReads, AcceptLoses, Refuse, Heartbeat, WorkerVars,
     IoVars, threadVars, mainVars, loopVars, poolVars
<1> QED
  BY <1>1, <1>2, <1>3, <1>4, <1>5 DEF Next, MainStep, IoStep

(* Every step keeps the types of the threads and of main.                  *)
LEMMA ThreadTypes ==
  ASSUME TypeOK, [Next]_vars
  PROVE  /\ MainType'
         /\ loopPtr' \in [Loops -> {"null", "garbage", "loop"}]
         /\ iopc' \in [Loops -> LoopPcs] /\ looping' \in [Loops -> BOOLEAN]
         /\ deaf' \subseteq Loops
<1> DEFINE Typed == /\ mpc' \in MainPcs /\ mi' \in Loops
                    /\ loopPtr' \in [Loops -> {"null", "garbage", "loop"}]
                    /\ iopc' \in [Loops -> LoopPcs] /\ looping' \in [Loops -> BOOLEAN]
                    /\ deaf' \subseteq Loops
<1>0. /\ 1 \in Loops /\ mi \in Loops /\ (mi # setting.loops => mi + 1 \in Loops)
      /\ mpc \in MainPcs
      /\ loopPtr \in [Loops -> {"null", "garbage", "loop"}]
      /\ iopc \in [Loops -> LoopPcs] /\ looping \in [Loops -> BOOLEAN]
      /\ deaf \subseteq Loops /\ mainLooping \in BOOLEAN
  BY DEF MainType, LoopType, TypeOK, Loops
<1>1. mainLooping' \in BOOLEAN
  <2>1. CASE UNCHANGED mainLooping
    BY <1>0, <2>1
  <2>2. CASE CheckActive \/ CheckPool
    BY <1>0, <2>2, CheckMoves DEF QuitMain, LookAgain
  <2>3. CASE MainStep /\ ~CheckActive /\ ~CheckPool
    BY <1>0, <2>3 DEF MainStep, Spawn, Await, AcceptBegins, AcceptEnds, ShutdownCallback,
       AcceptOne, Admit, Refuse,
       Crash, LeaveMainLoop, PostShutdowns, QuitLoop, WakeLoop, DestroyThread, JoinThread,
       mainVars
  <2>4. ASSUME NEW l \in Loops, IoStep(l) PROVE UNCHANGED mainLooping
    BY <2>4, IoKeeps DEF IoVars, mainVars
  <2>5. ASSUME NEW c \in Conns,
               WorkerStep(c) \/ PeerStep(c) \/ AcceptLoses(c) \/ Heartbeat(c)
        PROVE  UNCHANGED mainLooping
    BY <2>5 DEF WorkerStep, Take, Answer, TaskDone, PeerStep, Connect, RequestArrives,
       PeerFinishes, PeerResets, PeerReads, AcceptLoses, Refuse, Heartbeat, WorkerVars,
       IoVars, mainVars
  <2> QED
    BY <2>1, <2>2, <2>3, <2>4, <2>5 DEF Next, StopPool, DrainTimer, AcceptFails, vars, mainVars
<1>2. ASSUME UNCHANGED threadVars PROVE Typed
  BY <1>0, <1>2 DEF threadVars
<1>3. ASSUME Spawn PROVE Typed
  BY <1>0, <1>3 DEF Spawn, MainPcs, LoopPcs
<1>4. ASSUME Await PROVE Typed
  BY <1>0, <1>4 DEF Await, MainPcs, loopVars
<1>5. ASSUME LeaveMainLoop \/ StopPool \/ PostShutdowns PROVE Typed
  BY <1>0, <1>5 DEF LeaveMainLoop, StopPool, PostShutdowns, MainPcs, loopVars
<1>6. ASSUME QuitLoop PROVE Typed
  BY <1>0, <1>6 DEF QuitLoop, Crash, MainPcs
<1>7. ASSUME WakeLoop \/ JoinThread PROVE Typed
  BY <1>0, <1>7 DEF WakeLoop, JoinThread, MainPcs, loopVars
<1>8. ASSUME DestroyThread PROVE Typed
  BY <1>0, <1>8 DEF DestroyThread, Crash, MainPcs
<1>9. ASSUME NEW c \in Conns, AcceptOne(c), Crash PROVE Typed
  <2>1. UNCHANGED <<loopPtr, iopc, looping, deaf>>
    BY <1>9 DEF AcceptOne, Admit, Refuse, loopVars
  <2> QED
    BY <1>0, <1>9, <2>1 DEF Crash, MainPcs
<1>10. ASSUME NEW l \in Loops, Publish(l) \/ EnterLoop(l) \/ DrainEnds(l) \/ Test(l) \/ FreeLoop(l)
       PROVE  Typed
  BY <1>0, <1>10 DEF Publish, EnterLoop, DrainEnds, Test, FreeLoop, IoVars, mainVars, LoopPcs
<1>11. Typed
  BY <1>2, <1>3, <1>4, <1>5, <1>6, <1>7, <1>8, <1>9, <1>10, ThreadMoves
<1>12. setting' = setting /\ setting \in Settings
  BY SettingKept DEF TypeOK, MainType
<1> QED
  BY <1>1, <1>11, <1>12 DEF MainType, Loops

(* Every step keeps the threads' part, from start() through the two orders *)
(* in which a thread can be told to quit (by stop(), by its destructor) to *)
(* join().                                                                 *)
LEMMA ThreadStep ==
  ASSUME TypeOK, ThreadInv, MainInv, [Next]_vars
  PROVE  ThreadInv' /\ MainInv'
<1> USE DEF MainType, LoopType, TypeOK, Loops, ThreadInv, ThreadOK, MainInv, Awaited, Told
<1>1. CASE UNCHANGED threadVars
  BY <1>1 DEF threadVars
<1>2. CASE Spawn
  <2>1. /\ mpc = "spawn" /\ mpc' = "await" /\ iopc' = [iopc EXCEPT ![mi] = "born"]
        /\ UNCHANGED <<setting, mi, loopPtr, looping, deaf, joined>>
    BY <1>2 DEF Spawn, poolVars
  <2>2. iopc'[mi] = "born" /\ \A l \in Loops \ {mi} : iopc'[l] = iopc[l]
    BY <2>1
  <2>3. MainInv'
    BY <2>1, <2>2
  <2> QED
    BY <2>1, <2>2, <2>3
<1>3. CASE Await
  BY <1>3 DEF Await, Published, loopVars, poolVars
<1>4. CASE LeaveMainLoop
  BY <1>4 DEF LeaveMainLoop, MainFree, loopVars, poolVars
<1>5. CASE StopPool
  BY <1>5 DEF StopPool, loopVars
<1>6. CASE PostShutdowns
  BY <1>6 DEF PostShutdowns, poolVars
<1>7. CASE QuitLoop
  BY <1>7 DEF QuitLoop, Crash, poolVars
<1>8. CASE WakeLoop
  BY <1>8 DEF WakeLoop, loopVars, poolVars
<1>9. CASE DestroyThread
  <2>1. CASE loopPtr[mi] = "garbage"
    <3>1. /\ mpc = "clear" /\ mpc' = "crashed"
          /\ UNCHANGED <<setting, mi, loopPtr, iopc, looping, deaf, joined>>
      BY <1>9, <2>1 DEF DestroyThread, Crash, poolVars
    <3> QED
      BY <2>1, <3>1
  <2>2. CASE loopPtr[mi] # "garbage"
    <3>1. /\ mpc = "clear" /\ mpc' = "reap" /\ loopPtr' = [loopPtr EXCEPT ![mi] = "null"]
          /\ UNCHANGED <<setting, mi, iopc, deaf, joined>>
      BY <1>9, <2>2 DEF DestroyThread, poolVars
    <3>2. /\ \A l \in Loops \ {mi} : loopPtr'[l] = loopPtr[l] /\ looping'[l] = looping[l]
          /\ loopPtr'[mi] = "null"
          /\ looping'[mi] = IF loopPtr[mi] = "loop" THEN FALSE ELSE looping[mi]
      BY <1>9, <2>2, <3>1 DEF DestroyThread
    <3>3. iopc[mi] \notin {"unborn", "born"} /\ ~looping'[mi] /\ loopPtr'[mi] = "null"
      <4>1. mi \in Loops /\ Awaited(mi) /\ loopPtr[mi] \in {"null", "loop"}
        <5> HIDE DEF ThreadInv, ThreadOK, MainInv
        <5>1. mi \in Loops
          OBVIOUS
        <5>2. loopPtr[mi] \in {"null", "garbage", "loop"}
          BY <5>1
        <5> QED
          BY <2>2, <3>1, <5>1, <5>2
      <4>2. CASE loopPtr[mi] = "loop"
        BY <3>2, <4>1, <4>2
      <4>3. CASE loopPtr[mi] = "null"
        BY <3>2, <4>1, <4>3
      <4> QED
        BY <4>1, <4>2, <4>3
    <3>4. MainInv'
      BY <3>1, <3>3
    <3>5. ASSUME NEW l \in Loops, l # mi PROVE ThreadOK(l)'
      BY <3>1, <3>2, <3>5
    <3>6. ThreadOK(mi)'
      BY <3>1, <3>2, <3>3
    <3>7. Loops' = Loops
      BY <3>1
    <3>8. ThreadInv'
      <4> HIDE DEF ThreadOK
      <4> QED
        BY <3>1, <3>5, <3>6, <3>7
    <3> QED
      BY <3>4, <3>8
  <2> QED
    BY <2>1, <2>2
<1>10. CASE JoinThread
  BY <1>10 DEF JoinThread, loopVars, poolVars
<1>11. ASSUME NEW c \in Conns, AcceptOne(c), Crash PROVE ThreadInv' /\ MainInv'
  <2> DEFINE l == 1 + (next % setting.loops)
  <2>1. /\ mpc = "run" /\ mpc' = "crashed"
        /\ UNCHANGED <<setting, mi, loopPtr, iopc, looping, deaf, joined>>
    BY <1>11 DEF AcceptOne, Admit, Refuse, Crash, loopVars, poolVars, mainVars
  <2>2. l \in Loops /\ loopPtr[l] # "loop"
    BY <1>11, <2>1, LoopOfTurn DEF AcceptOne, Admit, Refuse, mainVars
  <2> HIDE DEF l
  <2>3. loopPtr[l] = "garbage"
    BY <2>1, <2>2
  <2> QED
    BY <2>1, <2>2, <2>3
<1>12. ASSUME NEW l \in Loops, Publish(l) PROVE ThreadInv' /\ MainInv'
  BY <1>12 DEF Publish, At, IoVars, mainVars, poolVars, Alive
<1>16. ASSUME NEW l \in Loops, EnterLoop(l) PROVE ThreadInv' /\ MainInv'
  BY <1>16 DEF EnterLoop, IoVars, mainVars, poolVars, Alive
<1>13. ASSUME NEW l \in Loops, DrainEnds(l) PROVE ThreadInv' /\ MainInv'
  BY <1>13 DEF DrainEnds, At, IoVars, mainVars, poolVars, Alive
<1>14. ASSUME NEW l \in Loops, Test(l) PROVE ThreadInv' /\ MainInv'
  <2>1. /\ iopc[l] = "test" /\ mpc # "crashed"
        /\ UNCHANGED <<setting, mpc, mi, looping, deaf, joined>>
    BY <1>14 DEF Test, At, Alive, IoVars, mainVars, poolVars
  <2>2. CASE looping[l]
    BY <1>14, <2>1, <2>2 DEF Test
  <2>3. CASE ~looping[l]
    <3>1. iopc' = [iopc EXCEPT ![l] = "left"] /\ loopPtr' = [loopPtr EXCEPT ![l] = "null"]
      BY <1>14, <2>3 DEF Test
    <3> QED
      BY <2>1, <2>3, <3>1
  <2> QED
    BY <2>2, <2>3
<1>15. ASSUME NEW l \in Loops, FreeLoop(l) PROVE ThreadInv' /\ MainInv'
  BY <1>15 DEF FreeLoop, At, IoVars, mainVars, poolVars, Alive
<1> QED
  BY <1>1, <1>2, <1>3, <1>4, <1>5, <1>6, <1>7, <1>8, <1>9, <1>10, <1>11, <1>12, <1>13,
     <1>14, <1>15, <1>16, ThreadMoves

-----------------------------------------------------------------------------
(* A process that starts satisfies the invariant, whatever the             *)
(* uninitialised loop_ of an EventLoopThread holds.                        *)
LEMMA InitIInv == Init => IInv
<1> SUFFICES ASSUME Init PROVE IInv
  OBVIOUS
<1>1. setting.loops \in Nat \ {0} /\ setting.max \in Nat
  BY DEF Init
<1>2. Fresh \in ConnRecords /\ Fresh.step = "new"
  BY DEF Fresh, ConnRecords, Steps
<1>3. TypeOK
  <2>1. MainType
    BY <1>1 DEF Init, MainType, MainPcs, Loops
  <2>2. LoopType
    BY EmptySeq DEF Init, LoopType, LoopPcs
  <2>3. ListenType
    <3>1. /\ next = 0 /\ backlog = {} /\ listening = FALSE /\ edge = FALSE
          /\ accepting = FALSE /\ gaveUp = FALSE
      BY DEF Init
    <3>2. 0 \in 0 .. setting.loops - 1
      BY <1>1
    <3>3. next \in 0 .. setting.loops - 1
      BY <3>1, <3>2
    <3>4. /\ listening \in BOOLEAN /\ edge \in BOOLEAN
          /\ accepting \in BOOLEAN /\ gaveUp \in BOOLEAN /\ backlog \subseteq Conns
      BY <3>1
    <3> QED
      BY <3>3, <3>4 DEF ListenType
  <2>4. ConnType
    BY <1>2 DEF Init, ConnType
  <2>5. PoolType /\ DrainType
    <3>1. /\ joined = FALSE /\ task = [c \in Conns |-> "none"]
          /\ signals = 0 /\ drains = 0 /\ isShutdown = FALSE /\ drained = FALSE
          /\ check = "none"
      BY DEF Init
    <3>2. task \in [Conns -> Tasks] /\ joined \in BOOLEAN
      BY <3>1 DEF Tasks
    <3>3. 0 \in 0 .. MaxSignals
      BY SettingsAssumption
    <3>4. /\ signals \in 0 .. MaxSignals /\ drains \in 0 .. MaxSignals
          /\ isShutdown \in BOOLEAN /\ drained \in BOOLEAN /\ check \in Checks
      BY <3>1, <3>3 DEF Checks
    <3> QED
      BY <3>2, <3>4 DEF PoolType, DrainType
  <2> QED
    BY <2>1, <2>2, <2>3, <2>4, <2>5 DEF TypeOK
<1>4. OwnerInv
  <2>1. Known = {}
    BY DEF Init, Known
  <2>2. IsFiniteSet(Known)
    BY <2>1, FS_EmptySet
  <2>3. \A l \in Loops : DOMAIN functors[l] = {}
    BY EmptySeq DEF Init
  <2> QED
    BY <1>2, <2>2, <2>3 DEF Init, OwnerInv
<1>5. CountsAgree
  <2>1. /\ {c \in Conns : conn[c].step = "open"} = {}
        /\ {c \in Conns : conn[c].step \in {"open", "counted"}} = {}
    BY <1>2 DEF Init
  <2>2. count = 0 /\ active = 0
    BY DEF Init
  <2>3. Cardinality({}) = 0
    BY FS_EmptySet
  <2>4. /\ count = Cardinality({c \in Conns : conn[c].step = "open"})
        /\ active = Cardinality({c \in Conns : conn[c].step \in {"open", "counted"}})
    BY <2>1, <2>2, <2>3
  <2>5. count <= setting.max
    BY <1>1, <2>2
  <2> QED
    BY <2>4, <2>5 DEF CountsAgree
<1>6. BacklogInv /\ DrainInv /\ CheckInv /\ DrainOwesNothing /\ PoolInv
  BY DEF Init, BacklogInv, DrainInv, CheckInv, DrainOwesNothing, PoolInv
<1>7. ThreadInv /\ MainInv
  BY DEF Init, ThreadInv, ThreadOK, MainInv, Awaited, Told, Loops
<1> QED
  BY <1>3, <1>4, <1>5, <1>6, <1>7 DEF IInv

(* Every step keeps the invariant.                                         *)
LEMMA StepIInv == IInv /\ [Next]_vars => IInv'
<1> SUFFICES ASSUME IInv, [Next]_vars PROVE IInv'
  OBVIOUS
<1>1. /\ TypeOK /\ OwnerInv /\ CountsAgree /\ BacklogInv /\ DrainInv
      /\ CheckInv /\ DrainOwesNothing /\ ThreadInv /\ MainInv /\ PoolInv
  BY DEF IInv
<1>2. LoopType'
  BY <1>1, ThreadTypes, QueueStep, SettingKept DEF LoopType, Loops
<1>3. TypeOK'
  BY <1>1, <1>2, ThreadTypes, ListenStep, CountStep, PoolStep, DrainStep DEF TypeOK
<1>4. OwnerInv' /\ CountsAgree' /\ BacklogInv'
  BY <1>1, OwnerStep, CountStep, ListenStep
<1>5. DrainInv' /\ CheckInv' /\ DrainOwesNothing'
  BY <1>1, DrainStep, CheckStep, OwesStep
<1>6. ThreadInv' /\ MainInv' /\ PoolInv'
  BY <1>1, ThreadStep, PoolStep
<1> QED
  BY <1>3, <1>4, <1>5, <1>6 DEF IInv

(* The inductive invariant holds in every state of every run, for any      *)
(* number of IO threads, clients and signals and every configuration.      *)
THEOREM Invariance == Spec => []IInv
BY InitIInv, StepIInv, PTL DEF Spec

(* TypeOK: in particular next_ stays an index of subLoops_ and neither     *)
(* counter goes below zero.                                                *)
THEOREM TypeCorrect == Spec => []TypeOK
<1>1. IInv => TypeOK
  BY DEF IInv
<1> QED
  BY <1>1, Invariance, PTL

(* CountsAgree: connectionCount_ and activeConnections are exact, however  *)
(* main, the IO threads and the workers interleave and however often the   *)
(* connection's end is reported, and maxConnections_ is never passed.      *)
THEOREM CountersExact == Spec => []CountsAgree
<1>1. IInv => CountsAgree
  BY DEF IInv
<1> QED
  BY <1>1, Invariance, PTL

(* LoopsOutliveCallers: no worker is about to answer through a loop that   *)
(* was freed, and main's pointer to it is null by then.                    *)
THEOREM LoopsOutlive == Spec => []LoopsOutliveCallers
<1>1. IInv => LoopsOutliveCallers
  <2> SUFFICES ASSUME IInv, NEW l \in Loops, iopc[l] = "freed"
               PROVE  /\ loopPtr[l] = "null"
                      /\ mpc \in {"quit", "wake", "clear", "reap", "returned", "crashed"}
                      /\ \A c \in Conns : owner[c] = l => task[c] # "running"
    BY DEF LoopsOutliveCallers
  <2>1. ThreadOK(l) /\ PoolInv
    BY DEF IInv, ThreadInv
  <2> QED
    BY <2>1 DEF ThreadOK, Told, PoolInv
<1> QED
  BY <1>1, Invariance, PTL

(* DrainOwesNothing: a drain that ends before its deadline has left        *)
(* neither an open connection nor a task behind.                           *)
THEOREM DrainComplete == Spec => []DrainOwesNothing
<1>1. IInv => DrainOwesNothing
  BY DEF IInv
<1> QED
  BY <1>1, Invariance, PTL

(* BacklogHasEdge: with an edge-triggered listener, a client in the        *)
(* backlog has an edge to come or is in a pass that is still going on,     *)
(* except after a pass that an error of accept() other than EAGAIN has     *)
(* ended before the queue was empty.                                       *)
THEOREM BacklogAnnounced == Spec => []BacklogHasEdge
<1>1. IInv => BacklogHasEdge
  BY DEF IInv, BacklogInv, BacklogHasEdge
<1> QED
  BY <1>1, Invariance, PTL

(* TeardownCanEnd: when main stands in a join or in loop(), what it waits  *)
(* for has been asked to end, except a thread that came to loop() only     *)
(* after it was asked for the last time: loop() takes the request back.    *)
THEOREM TeardownNotStuck == Spec => []TeardownCanEnd
<1>1. IInv => TeardownCanEnd
  BY DEF IInv, DrainInv, MainInv, TeardownCanEnd
<1> QED
  BY <1>1, Invariance, PTL

=============================================================================
