------------------------------- MODULE TcpServer -------------------------------
(***************************************************************************)
(* The whole server, from main()'s first IO thread to its return: the main *)
(* thread (Acceptor, heartbeat, signals, drain, teardown), the IO threads  *)
(* (EventLoopThread and its loop), their connections and the workers.      *)
(*                                                                         *)
(* What EventLoop, TcpConnection and ThreadPool model in detail is one     *)
(* step here: a functor, an event's handler, a callback of the main loop.  *)
(* What is kept is who may touch what and when: which loops exist, what is *)
(* queued on them, which connections the server and the counters still     *)
(* know, and the order in which main() takes all of it down.               *)
(***************************************************************************)
EXTENDS Naturals, FiniteSets, Sequences, SequencesExt

CONSTANTS Conns,         \* the connections peers attempt, each one once
          Settings,      \* [loops, max]: the settings (Config) to start with
          MaxQueue,      \* maxQueueSize of the pool
          MaxSignals,    \* bound: SIGINT and SIGTERM received
          None           \* no IO thread: the connection is not accepted

ASSUME SettingsAssumption ==
    /\ \A s \in Settings : s.loops \in Nat \ {0} /\ s.max \in Nat
    /\ MaxQueue \in Nat \ {0}
    /\ MaxSignals \in Nat
    /\ None \notin Nat

VARIABLES
    setting,        \* the settings of this process
    mpc,            \* where the main thread stands in main()
    mi,             \* the IO thread its loop over subLoops_ has reached
    mainLooping,    \* looping_ of the main loop
    loopPtr,        \* EventLoopThread::loop_
    iopc,           \* where each IO thread stands
    looping,        \* looping_ of each IO loop
    deaf,           \* history: loop() began after the last quit() it will get
    functors,       \* pendingFunctors_ of each IO loop
    next,           \* next_, the round robin over subLoops_
    listening,      \* listenfd_ is open
    backlog,        \* the kernel's accept queue
    edge,           \* EPOLLIN of listenfd_ is on the epoll ready list
    accepting,      \* the main thread is inside the accept loop
    gaveUp,         \* history: an error of accept() left some without an edge
    count,          \* connectionCount_
    active,         \* Metrics::activeConnections
    conn,           \* each connection as its IO thread sees it
    owner,          \* TcpConnection::loop_
    task,           \* where the worker task of each connection stands
    joined,         \* the workers' threads have been joined
    signals,        \* how often the shutdown callback has run
    isShutdown,     \* isShutdown
    drains,         \* the drain timers in the main loop's TimerQueue
    check,          \* the counter drainCheck is about to read
    drained         \* history: a drain check quit before the deadline

mainVars   == <<mpc, mi, mainLooping>>
loopVars   == <<loopPtr, iopc, looping, deaf, functors>>
listenVars == <<next, listening, backlog, edge, accepting, gaveUp>>
connVars   == <<count, active, conn, owner>>
poolVars   == <<task, joined>>
drainVars  == <<signals, isShutdown, drains, check, drained>>
vars == <<setting, mainVars, loopVars, listenVars, connVars, poolVars,
          drainVars>>

Loops == 1 .. setting.loops

MainPcs == {"spawn", "await", "run", "stop", "shut", "quit", "wake", "clear",
            "reap", "returned", "crashed"}
LoopPcs == {"unborn", "born", "entering", "run", "test", "left", "freed"}
Checks == {"none", "active", "pool"}
Steps == {"new", "refused", "open", "counted", "left", "gone"}
Kinds == {"establish", "force", "shutdown", "deliver", "deliverAndClose"}
Tasks == {"none", "queued", "running", "posted"}

Fresh == [step |-> "new", added |-> FALSE, reading |-> FALSE,
          blocked |-> FALSE, inflight |-> FALSE, closing |-> FALSE]

(* EventLoopThread has no initialiser for loop_: it holds what the heap    *)
(* held, which may read as null or not.                                    *)
Init ==
    /\ setting \in Settings
    /\ mpc = "spawn" /\ mi = 1 /\ mainLooping = TRUE
    /\ loopPtr \in [Loops -> {"null", "garbage"}]
    /\ iopc = [l \in Loops |-> "unborn"]
    /\ looping = [l \in Loops |-> FALSE] /\ deaf = {}
    /\ functors = [l \in Loops |-> <<>>]
    /\ next = 0 /\ listening = FALSE /\ backlog = {}
    /\ edge = FALSE /\ accepting = FALSE /\ gaveUp = FALSE
    /\ count = 0 /\ active = 0
    /\ conn = [c \in Conns |-> Fresh]
    /\ owner = [c \in Conns |-> None]
    /\ task = [c \in Conns |-> "none"] /\ joined = FALSE
    /\ signals = 0 /\ isShutdown = FALSE
    /\ drains = 0 /\ check = "none" /\ drained = FALSE

(* connections_: handleClose erases a connection in its last step.         *)
Connections == {c \in Conns : conn[c].step \in {"open", "counted", "left"}}

Queue(l, f) == functors' = [functors EXCEPT ![l] = Append(@, f)]

Crash == mpc' = "crashed" /\ UNCHANGED <<mi, mainLooping>>

(***************************************************************************)
(* Starting: TcpServer's constructor makes the IO threads one by one, and  *)
(* each EventLoopThread's waits until loop_ is not null.                   *)
(***************************************************************************)
Spawn ==
    /\ mpc = "spawn"
    /\ iopc' = [iopc EXCEPT ![mi] = "born"]
    /\ mpc' = "await"
    /\ UNCHANGED <<setting, mi, mainLooping, loopPtr, looping, deaf, functors,
                   listenVars, connVars, poolVars, drainVars>>

Published(l) == loopPtr[l] # "null"

Await ==
    /\ mpc = "await"
    /\ Published(mi)
    /\ IF mi = setting.loops
         THEN mpc' = "run" /\ mi' = 1 /\ listening' = TRUE
         ELSE mpc' = "spawn" /\ mi' = mi + 1 /\ listening' = listening
    /\ UNCHANGED <<setting, mainLooping, loopVars, next, backlog, edge,
                   accepting, gaveUp, connVars, poolVars, drainVars>>

(***************************************************************************)
(* The main loop's callbacks run one at a time; after quit() the rest of   *)
(* the batch still runs before looping_ is tested.                         *)
(***************************************************************************)
MainFree == mpc = "run" /\ ~accepting /\ check = "none"

Connect(c) ==
    /\ listening
    /\ conn[c].step = "new" /\ c \notin backlog
    /\ backlog' = backlog \union {c}
    /\ edge' = TRUE
    /\ UNCHANGED <<setting, mainVars, loopVars, next, listening, accepting,
                   gaveUp, connVars, poolVars, drainVars>>

AcceptBegins ==
    /\ MainFree /\ listening /\ edge
    /\ accepting' = TRUE
    /\ edge' = FALSE /\ gaveUp' = FALSE
    /\ UNCHANGED <<setting, mainVars, loopVars, next, listening, backlog,
                   connVars, poolVars, drainVars>>

Refuse(c) ==
    /\ conn' = [conn EXCEPT ![c].step = "refused"]
    /\ UNCHANGED <<setting, mainVars, loopVars, next, count, active, owner>>

NextLoop_mutated == (next + 1) % (setting.loops + 1)
NextLoop == (next + 1) % setting.loops

(* The new connection callback: count it, choose its loop, put it in the   *)
(* set and queue connectEstablished on the loop.                           *)
Admit(c) ==
    LET l == 1 + (next % setting.loops)
    IN  /\ next' = NextLoop
        /\ IF loopPtr[l] # "loop"
             THEN Crash /\ UNCHANGED <<setting, loopVars, connVars>>
             ELSE /\ count' = count + 1
                  /\ active' = active + 1
                  /\ conn' = [conn EXCEPT ![c].step = "open"]
                  /\ owner' = [owner EXCEPT ![c] = l]
                  /\ Queue(l, <<c, "establish">>)
                  /\ UNCHANGED <<setting, mainVars, loopPtr, iopc, looping, deaf>>

HasRoom == count < setting.max

Accepting_mutated == FALSE
Accepting == accepting

AcceptOne(c) ==
    /\ mpc = "run" /\ accepting /\ c \in backlog
    /\ backlog' = backlog \ {c}
    /\ accepting' = Accepting
    /\ IF HasRoom THEN Admit(c) ELSE Refuse(c)
    /\ UNCHANGED <<listening, edge, gaveUp, poolVars, drainVars>>

AcceptEnds ==
    /\ mpc = "run" /\ accepting /\ backlog = {}
    /\ accepting' = FALSE
    /\ UNCHANGED <<setting, mainVars, loopVars, next, listening, backlog, edge,
                   gaveUp, connVars, poolVars, drainVars>>

(* accept() fails and one connection is gone from the queue: with EMFILE   *)
(* or ENFILE the reserved descriptor takes it and drops it, ECONNABORTED   *)
(* is about that one. The loop over accept() is not taken up again.        *)
AcceptLoses(c) ==
    /\ mpc = "run" /\ accepting /\ c \in backlog
    /\ backlog' = backlog \ {c}
    /\ accepting' = FALSE
    /\ gaveUp' = (backlog' # {})
    /\ Refuse(c)
    /\ UNCHANGED <<listening, edge, poolVars, drainVars>>

(* Any other error (ENOMEM, ENOBUFS, EINTR ...) is logged and ends the     *)
(* pass with the queue as it is.                                           *)
AcceptFails ==
    /\ mpc = "run" /\ accepting
    /\ accepting' = FALSE
    /\ gaveUp' = (backlog # {})
    /\ UNCHANGED <<setting, mainVars, loopVars, next, listening, backlog, edge,
                   connVars, poolVars, drainVars>>

(* The heartbeat's forEachConnection queues forceClose for a connection    *)
(* that is idle too long by its lastActiveTime_, which is 0 until its IO   *)
(* thread has established it: here one step for each such connection, and  *)
(* the clock left open. (A second forceClose would do nothing and is not   *)
(* queued.)                                                                *)
Heartbeat(c) ==
    /\ MainFree
    /\ c \in Connections
    /\ \A i \in DOMAIN functors[owner[c]] :
         functors[owner[c]][i] # <<c, "force">>
    /\ Queue(owner[c], <<c, "force">>)
    /\ UNCHANGED <<setting, mainVars, loopPtr, iopc, looping, deaf,
                   listenVars, connVars, poolVars, drainVars>>

(***************************************************************************)
(* Signals and the drain. Whether the deadline has passed is the clock's   *)
(* choice at each check.                                                   *)
(***************************************************************************)
InFlight == Cardinality({c \in Conns : task[c] # "none"})

(* What drainCheck reads, in its order. Other threads write both counters, *)
(* also between the two reads.                                             *)
DrainReads_mutated == <<InFlight, active>>
DrainReads == <<active, InFlight>>

Rearmed_mutated(timers) == timers
Rearmed(timers) == timers + 1

(* The end of a check: quit the main loop, or look again in 100 ms.        *)
QuitMain(late) ==
    /\ mainLooping' = FALSE
    /\ drained' = (drained \/ ~late)
    /\ UNCHANGED drains

LookAgain ==
    /\ drains' = Rearmed(drains)
    /\ UNCHANGED <<mainLooping, drained>>

CheckVars == <<setting, mpc, mi, loopVars, listenVars, connVars, poolVars,
               signals, isShutdown>>

(* Connections left: only the deadline ends the drain.                     *)
CheckActive ==
    /\ mpc = "run" /\ check = "active"
    /\ IF DrainReads[1] = 0
         THEN check' = "pool" /\ UNCHANGED <<mainLooping, drains, drained>>
         ELSE check' = "none" /\ (QuitMain(TRUE) \/ LookAgain)
    /\ UNCHANGED CheckVars

CheckPool ==
    /\ mpc = "run" /\ check = "pool"
    /\ check' = "none"
    /\ IF DrainReads[2] = 0
         THEN \E late \in BOOLEAN : QuitMain(late)
         ELSE QuitMain(TRUE) \/ LookAgain
    /\ UNCHANGED CheckVars

(* A signal reaches the main loop through its eventfd. A further one finds *)
(* the acceptor closed, sets a new deadline and starts a second chain of   *)
(* checks.                                                                 *)
ShutdownCallback ==
    /\ MainFree
    /\ signals < MaxSignals
    /\ signals' = signals + 1
    /\ listening' = FALSE /\ backlog' = {} /\ edge' = FALSE
    /\ gaveUp' = FALSE
    /\ isShutdown' = TRUE
    /\ check' = "active"
    /\ UNCHANGED <<setting, mainVars, loopVars, next, accepting, connVars,
                   poolVars, drains, drained>>

DrainTimer ==
    /\ MainFree /\ drains > 0
    /\ drains' = drains - 1
    /\ check' = "active"
    /\ UNCHANGED <<CheckVars, mainLooping, drained>>

(***************************************************************************)
(* The teardown: threadPool.stop(), server.shutdown(), return              *)
(***************************************************************************)
LeaveMainLoop ==
    /\ MainFree /\ ~mainLooping
    /\ mpc' = "stop"
    /\ UNCHANGED <<setting, mi, mainLooping, loopVars, listenVars,
                   connVars, poolVars, drainVars>>

(* threadPool.stop() quits and joins the workers: a task that runs is      *)
(* finished, one that waits may be or may not.                             *)
WorkersIdle_mutated == TRUE
WorkersIdle == \A c \in Conns : task[c] \notin {"running", "posted"}

StopPool ==
    /\ mpc = "stop"
    /\ WorkersIdle
    /\ joined' = TRUE
    /\ mpc' = "shut"
    /\ UNCHANGED <<setting, mi, mainLooping, loopVars, listenVars, connVars,
                   task, drainVars>>

(* server.shutdown() copies connections_ under the lock and queues         *)
(* shutdown for each on its loop, in the set's order, which is that of     *)
(* their addresses: any.                                                   *)
ShutdownsFor(l) ==
    {[i \in DOMAIN order |-> <<order[i], "shutdown">>] :
         order \in SetToSeqs({c \in Connections : owner[c] = l})}

PostShutdowns ==
    /\ mpc = "shut"
    /\ \E posted \in [Loops -> UNION {ShutdownsFor(l) : l \in Loops}] :
         /\ \A l \in Loops : posted[l] \in ShutdownsFor(l)
         /\ functors' = [l \in Loops |-> functors[l] \o posted[l]]
    /\ mpc' = "quit" /\ mi' = 1
    /\ UNCHANGED <<setting, mainLooping, loopPtr, iopc, looping, deaf,
                   listenVars, connVars, poolVars, drainVars>>

(* getLoop()->quit() clears looping_ and then writes to the loop's         *)
(* eventfd.                                                                *)
QuitLoop ==
    /\ mpc = "quit"
    /\ IF loopPtr[mi] # "loop"
         THEN Crash /\ UNCHANGED looping
         ELSE /\ looping' = [looping EXCEPT ![mi] = FALSE]
              /\ mpc' = "wake"
              /\ UNCHANGED <<mi, mainLooping>>
    /\ UNCHANGED <<setting, loopPtr, iopc, deaf, functors, listenVars,
                   connVars, poolVars, drainVars>>

WakeLoop ==
    /\ mpc = "wake"
    /\ IF mi = setting.loops
         THEN mpc' = "clear" /\ mi' = 1
         ELSE mpc' = "quit" /\ mi' = mi + 1
    /\ UNCHANGED <<setting, mainLooping, loopVars, listenVars, connVars,
                   poolVars, drainVars>>

(* ~EventLoopThread: under mutex_, quit the loop if it is still there.     *)
DestroyThread ==
    /\ mpc = "clear"
    /\ IF loopPtr[mi] = "garbage"
         THEN Crash /\ UNCHANGED <<loopPtr, looping>>
         ELSE /\ mpc' = "reap"
              /\ loopPtr' = [loopPtr EXCEPT ![mi] = "null"]
              /\ looping' = IF loopPtr[mi] = "loop"
                              THEN [looping EXCEPT ![mi] = FALSE] ELSE looping
              /\ UNCHANGED <<mi, mainLooping>>
    /\ UNCHANGED <<setting, iopc, deaf, functors, listenVars, connVars,
                   poolVars, drainVars>>

JoinThread ==
    /\ mpc = "reap"
    /\ iopc[mi] = "freed"
    /\ IF mi = setting.loops
         THEN mpc' = "returned" /\ mi' = mi
         ELSE mpc' = "clear" /\ mi' = mi + 1
    /\ UNCHANGED <<setting, mainLooping, loopVars, listenVars, connVars,
                   poolVars, drainVars>>

(***************************************************************************)
(* An IO thread: publish the loop, run it, forget it, free it.             *)
(***************************************************************************)
Alive == mpc # "crashed"

IoVars == <<setting, mainVars, listenVars, poolVars, drainVars>>

(* threadFunc publishes the loop, so that main goes on, and calls loop().  *)
Publish(l) ==
    /\ Alive /\ iopc[l] = "born"
    /\ loopPtr' = [loopPtr EXCEPT ![l] = "loop"]
    /\ iopc' = [iopc EXCEPT ![l] = "entering"]
    /\ UNCHANGED <<IoVars, looping, deaf, functors, connVars>>

(* loop() sets looping_, whatever quit() has made of it since: after that  *)
(* of ~EventLoopThread, which leaves loop_ null, there is no further one.  *)
EnterLoop(l) ==
    /\ Alive /\ iopc[l] = "entering"
    /\ looping' = [looping EXCEPT ![l] = TRUE]
    /\ deaf' = IF loopPtr[l] = "null" THEN deaf \union {l} ELSE deaf
    /\ iopc' = [iopc EXCEPT ![l] = "run"]
    /\ UNCHANGED <<IoVars, loopPtr, functors, connVars>>

(* A handler that is inside handleClose keeps its loop.                    *)
Busy(l) == \E c \in Conns : owner[c] = l /\ conn[c].step \in {"counted", "left"}

At(l, where) == Alive /\ iopc[l] = where /\ ~Busy(l)

(* What a handler may leave of connection k: handleClose begins at most    *)
(* once (closed_.exchange), and a closed connection's flags no longer      *)
(* count; maybeCloseAfterSend and shutdown close what owes nothing any     *)
(* more; a send succeeds, blocks, or fails and closes.                     *)
Closes_mutated(k) == k.step # "new"
Closes(k) == k.step = "open"

Closed(k) ==
    IF Closes(k) THEN [Fresh EXCEPT !.step = "counted", !.added = k.added] ELSE k

Settled(k) ==
    IF k.closing /\ ~k.blocked /\ ~k.inflight THEN Closed(k) ELSE k

Sent(k) == IF k.blocked THEN {k} ELSE {k, [k EXCEPT !.blocked = TRUE], Closed(k)}

(* The end of a handler of c: connectionCount_ goes down with closed_.     *)
Becomes(c, k) ==
    /\ conn' = [conn EXCEPT ![c] = k]
    /\ count' = IF k.step = "counted" THEN count - 1 ELSE count

(* The rest of handleClose: activeConnections, then the erasure from the   *)
(* set and Channel::disableAll. (The guard functor only holds a            *)
(* reference.)                                                             *)
CloseMetric(c) ==
    /\ Alive /\ conn[c].step = "counted"
    /\ active' = active - 1
    /\ conn' = [conn EXCEPT ![c].step = "left"]
    /\ UNCHANGED <<IoVars, loopVars, count, owner>>

CloseErase(c) ==
    /\ Alive /\ conn[c].step = "left"
    /\ conn' = [conn EXCEPT ![c] = [Fresh EXCEPT !.step = "gone"]]
    /\ UNCHANGED <<IoVars, loopVars, count, active, owner>>

(* Events of a registered connection.                                      *)
CanHear(c) ==
    /\ owner[c] # None /\ At(owner[c], "run")
    /\ conn[c].step = "open" /\ conn[c].added

(* A whole request: submitted to the pool, or answered 503 when it is      *)
(* full. Bound: a connection's next request waits until the worker of its  *)
(* last one is done.                                                       *)
RequestArrives(c) ==
    LET k == [conn[c] EXCEPT !.closing = @ \/ isShutdown] IN
    /\ CanHear(c) /\ conn[c].reading
    /\ task[c] = "none" /\ ~conn[c].inflight
    /\ IF InFlight < MaxQueue
         THEN /\ task' = [task EXCEPT ![c] = "queued"]
              /\ Becomes(c, [k EXCEPT !.inflight = TRUE])
         ELSE /\ \E s \in Sent(k) : Becomes(c, Settled(s))
              /\ UNCHANGED task
    /\ UNCHANGED <<setting, mainVars, loopVars, listenVars, active, owner,
                   joined, drainVars>>

(* TcpConnection::shutdown: stop reading, close when nothing is owed.      *)
ShutDown(k) ==
    IF k.step # "open" THEN k
    ELSE Settled([k EXCEPT !.reading = FALSE, !.closing = TRUE])

(* End of input: handleRead ends in shutdown().                            *)
PeerFinishes(c) ==
    /\ CanHear(c) /\ conn[c].reading
    /\ Becomes(c, ShutDown(conn[c]))
    /\ UNCHANGED <<IoVars, loopVars, active, owner>>

PeerResets(c) ==
    /\ CanHear(c)
    /\ Becomes(c, Closed(conn[c]))
    /\ UNCHANGED <<IoVars, loopVars, active, owner>>

PeerReads(c) ==
    /\ CanHear(c) /\ conn[c].blocked
    /\ Becomes(c, Settled([conn[c] EXCEPT !.blocked = FALSE]))
    /\ UNCHANGED <<IoVars, loopVars, active, owner>>

(* What the functors do: connectEstablished, forceClose, shutdown, and     *)
(* deliverResponse, which finds closed_ set when the answer came too late. *)
Delivered(k, close) ==
    IF k.step # "open" THEN {k}
    ELSE {Settled(s) : s \in Sent([k EXCEPT !.inflight = FALSE,
                                            !.closing = @ \/ close])}

After(k, kind) ==
    CASE kind = "establish" -> {[k EXCEPT !.added = TRUE, !.reading = TRUE]}
      [] kind = "force"     -> {Closed(k)}
      [] kind = "shutdown"  -> {ShutDown(k)}
      [] OTHER              -> Delivered(k, kind = "deliverAndClose")

RunFunctor(l) ==
    /\ At(l, "run") /\ functors[l] # <<>>
    /\ LET c == Head(functors[l])[1]
       IN  \E k \in After(conn[c], Head(functors[l])[2]) : Becomes(c, k)
    /\ functors' = [functors EXCEPT ![l] = Tail(@)]
    /\ UNCHANGED <<IoVars, loopPtr, iopc, looping, deaf, active, owner>>

(* One turn of loop(): events, functors until there are none, then         *)
(* looping_.                                                               *)
DrainEnds(l) ==
    /\ At(l, "run") /\ functors[l] = <<>>
    /\ iopc' = [iopc EXCEPT ![l] = "test"]
    /\ UNCHANGED <<IoVars, loopPtr, looping, deaf, functors, connVars>>

(* When loop() returns, loop_ is nulled under mutex_, then the EventLoop   *)
(* goes out of scope with the functors still queued on it.                 *)
Test(l) ==
    /\ At(l, "test")
    /\ IF looping[l]
         THEN iopc' = [iopc EXCEPT ![l] = "run"] /\ UNCHANGED loopPtr
         ELSE /\ iopc' = [iopc EXCEPT ![l] = "left"]
              /\ loopPtr' = [loopPtr EXCEPT ![l] = "null"]
    /\ UNCHANGED <<IoVars, looping, deaf, functors, connVars>>

FreeLoop(l) ==
    /\ At(l, "left")
    /\ iopc' = [iopc EXCEPT ![l] = "freed"]
    /\ functors' = [functors EXCEPT ![l] = <<>>]
    /\ UNCHANGED <<IoVars, loopPtr, looping, deaf, connVars>>

(***************************************************************************)
(* Workers                                                                 *)
(***************************************************************************)
WorkerVars == <<setting, mainVars, loopPtr, iopc, looping, deaf, listenVars,
                connVars, joined, drainVars>>

Take(c) ==
    /\ Alive /\ ~joined /\ task[c] = "queued"
    /\ task' = [task EXCEPT ![c] = "running"]
    /\ UNCHANGED <<WorkerVars, functors>>

(* The answer goes to the connection's loop; the connection is to close    *)
(* after it if the request or the answer says so, or the server drains.    *)
Answer(c) ==
    /\ Alive /\ task[c] = "running"
    /\ task' = [task EXCEPT ![c] = "posted"]
    /\ \E kind \in {"deliver", "deliverAndClose"} :
         /\ isShutdown => kind = "deliverAndClose"
         /\ Queue(owner[c], <<c, kind>>)
    /\ UNCHANGED WorkerVars

TaskDone(c) ==
    /\ Alive /\ task[c] = "posted"
    /\ task' = [task EXCEPT ![c] = "none"]
    /\ UNCHANGED <<WorkerVars, functors>>

-----------------------------------------------------------------------------
MainStep ==
    \/ Spawn \/ Await
    \/ AcceptBegins \/ AcceptEnds \/ \E c \in Conns : AcceptOne(c)
    \/ ShutdownCallback \/ CheckActive \/ CheckPool
    \/ LeaveMainLoop \/ PostShutdowns
    \/ QuitLoop \/ WakeLoop \/ DestroyThread \/ JoinThread

IoStep(l) ==
    \/ Publish(l) \/ EnterLoop(l)
    \/ RunFunctor(l) \/ DrainEnds(l) \/ Test(l) \/ FreeLoop(l)
    \/ \E c \in Conns : owner[c] = l /\ (CloseMetric(c) \/ CloseErase(c))

WorkerStep(c) == Take(c) \/ Answer(c) \/ TaskDone(c)

PeerStep(c) ==
    \/ Connect(c) \/ RequestArrives(c) \/ PeerFinishes(c) \/ PeerResets(c)
    \/ PeerReads(c)

Next ==
    \/ MainStep \/ StopPool \/ DrainTimer \/ AcceptFails
    \/ \E l \in Loops : IoStep(l)
    \/ \E c \in Conns : \/ WorkerStep(c) \/ PeerStep(c)
                        \/ AcceptLoses(c) \/ Heartbeat(c)

Spec == Init /\ [][Next]_vars
-----------------------------------------------------------------------------
ConnRecords ==
    [step : Steps, added : BOOLEAN, reading : BOOLEAN, blocked : BOOLEAN,
     inflight : BOOLEAN, closing : BOOLEAN]

MainType ==
    /\ setting \in Settings
    /\ mpc \in MainPcs /\ mi \in Loops
    /\ mainLooping \in BOOLEAN

LoopType ==
    /\ loopPtr \in [Loops -> {"null", "garbage", "loop"}]
    /\ iopc \in [Loops -> LoopPcs] /\ looping \in [Loops -> BOOLEAN]
    /\ deaf \subseteq Loops
    /\ functors \in [Loops -> Seq(Conns \X Kinds)]

ListenType ==
    /\ next \in 0 .. setting.loops - 1
    /\ backlog \subseteq Conns
    /\ listening \in BOOLEAN /\ edge \in BOOLEAN
    /\ accepting \in BOOLEAN /\ gaveUp \in BOOLEAN

ConnType ==
    /\ count \in Nat /\ active \in Nat
    /\ conn \in [Conns -> ConnRecords]
    /\ owner \in [Conns -> Loops \union {None}]

PoolType == task \in [Conns -> Tasks] /\ joined \in BOOLEAN

DrainType ==
    /\ signals \in 0 .. MaxSignals /\ drains \in 0 .. MaxSignals
    /\ check \in Checks /\ isShutdown \in BOOLEAN /\ drained \in BOOLEAN

(* Every variable has its type; in particular next_ stays an index of      *)
(* subLoops_ and the counters do not go below zero.                        *)
TypeOK == MainType /\ LoopType /\ ListenType /\ ConnType /\ PoolType /\ DrainType

(* connectionCount_ is the number of connections that are not closing,     *)
(* never above maxConnections_, and activeConnections lags it by the       *)
(* handlers in the middle of handleClose: however a connection ends        *)
(* (answer, peer, heartbeat, teardown, several at once), it is counted out *)
(* once.                                                                   *)
CountsAgree ==
    /\ count = Cardinality({c \in Conns : conn[c].step = "open"})
    /\ active = Cardinality({c \in Conns : conn[c].step \in {"open", "counted"}})
    /\ count <= setting.max

(* Nobody is left that could use a loop when its IO thread frees it:       *)
(* main's callbacks, threadPool.stop() and the posting of shutdown come    *)
(* before, no worker is about to answer, and ~EventLoopThread finds loop_  *)
(* null. (The eventfd write of shutdown()'s own quit() is the exception,   *)
(* see README.)                                                            *)
LoopsOutliveCallers ==
    \A l \in Loops : iopc[l] = "freed" =>
        /\ loopPtr[l] = "null"
        /\ mpc \in {"quit", "wake", "clear", "reap", "returned", "crashed"}
        /\ \A c \in Conns : owner[c] = l => task[c] # "running"

(* A drain that ends before its deadline leaves nothing behind: every      *)
(* connection accepted has been closed, no request is with a worker, and   *)
(* none can come (the drain check reads two counters other threads         *)
(* change).                                                                *)
DrainOwesNothing ==
    drained => \A c \in Conns : /\ task[c] = "none"
                                /\ conn[c].step \notin {"open", "counted"}
                                /\ c \notin backlog

(* Under edge-triggered epoll a connection waits in the accept queue only  *)
(* while the listening socket has an edge to come or is being accepted     *)
(* from. The exception is the code's own: any error of accept() other than *)
(* EAGAIN (Acceptor.cpp:79, :88) ends the pass, and whoever waits then     *)
(* waits for the next client to bring an edge.                             *)
BacklogHasEdge ==
    mpc = "run" /\ backlog # {} => edge \/ accepting \/ gaveUp

(* main() is never left waiting for what will not come: while the server   *)
(* drains a check is due or under way (a second signal notwithstanding),   *)
(* an EventLoopThread whose start is awaited runs, and one that is joined  *)
(* has been told to quit, or has left.  The exception is the code's own: a *)
(* thread that reaches loop() only after both quits (TcpServer.cpp:111,    *)
(* EventLoopThread.cpp:16) sets looping_ again and is joined for ever.     *)
(* And main never uses a loop_ that is no loop yet, unless the memory of   *)
(* the EventLoopThread did not read as null, where the constructor's wait  *)
(* is of no use (EventLoopThread.cpp:9).                                   *)
TeardownCanEnd ==
    /\ mpc = "run" /\ isShutdown => ~mainLooping \/ drains > 0 \/ check # "none"
    /\ mpc = "await" => iopc[mi] # "unborn"
    /\ mpc = "reap" =>
           ~looping[mi] \/ iopc[mi] \in {"left", "freed"} \/ mi \in deaf
    /\ mpc = "crashed" => \E l \in Loops : loopPtr[l] = "garbage"

-----------------------------------------------------------------------------
(* What the comments and documents say, and the code does not do.          *)

(* main.cpp:355: once server.shutdown() is done, all connections are       *)
(* closed. A connection that still owes output or an answer when the       *)
(* deadline passes is left registered with its loop, which is freed;       *)
(* ~TcpServer releases it, and ~Channel removes it from that loop          *)
(* (Channel.cpp:8-12).                                                     *)
AllClosedAtReturn ==
    mpc = "returned" => \A c \in Conns : ~conn[c].added
=============================================================================
