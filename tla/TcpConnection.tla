---------------------------- MODULE TcpConnection ----------------------------
(***************************************************************************)
(* One TcpConnection on its IO loop, with the message callback that        *)
(* main.cpp installs: the socket and its edge-triggered readiness, the     *)
(* parsing of pipelined requests, the worker pool that answers them in any *)
(* order, the re-ordering of the answers, the output queue, and the ways   *)
(* the connection is closed.                                               *)
(*                                                                         *)
(* Only the IO thread touches the connection.  `todo' is that thread's     *)
(* call stack, its head the call it is in: workers, the peer and the main  *)
(* thread may act between any two of its steps.  Functors reach the IO     *)
(* thread in FIFO order, as EventLoop.tla shows they do.                   *)
(***************************************************************************)
EXTENDS Naturals, Sequences, FiniteSets

CONSTANTS kMaxInflight,   \* kMaxInflight_: requests in the pool at one time
          Kinds,          \* the kinds of request the peer sends, see below
          Leftovers,      \* what the bytes behind a refused line look like
          MaxRequests,    \* bound: the requests the peer sends
          FilesShrink     \* a served file may be cut short while it is sent

(* What the peer sends, by what parseRequest makes of it:                  *)
(*   "req"   a complete request                                            *)
(*   "head"  headers with Expect: 100-continue, their "body" to follow     *)
(*   "err"   something refused with a 4xx/5xx, and consumed by that        *)
(*   "te"    refused in its headers (Transfer-Encoding), bytes left over   *)
(* The bytes left over are the rest of the headers and a body that nobody  *)
(* expects.  To parseRequest they are errors, or requests, or the start of *)
(* something that the peer's next bytes make whole.                        *)
ASSUME BoundsAssumption == /\ kMaxInflight \in Nat \ {0}
                           /\ MaxRequests \in Nat
                           /\ Kinds \subseteq {"req", "head", "err", "te"}
                           /\ Leftovers \subseteq Seq({"err", "req"})
                           /\ FilesShrink \in BOOLEAN

VARIABLES
    sock, peer, inEdge, space, outEdge,    \* the socket and epoll's edges
    asked, owesBody,                       \* what the peer has sent
    buffer, ctxBody,                       \* inputBuffer_, context_'s state
    events, added,                         \* channel_'s events_ and added_
    closed, closeAfterSend,
    sending, sendQueue,
    nextReqSeq, nextSendSeq, inflight, pendingResp,
    working,                               \* requests in the worker pool
    functors,                              \* the loop's queue, as seen here
    isShutdown, mayPost,                   \* the main thread
    todo,                                  \* the IO thread's call stack
    wire, cause                            \* history: answered; why closed

peerVars   == <<sock, peer, inEdge, space, outEdge, asked, owesBody>>
inputVars  == <<buffer, ctxBody>>
seqVars    == <<nextReqSeq, nextSendSeq, inflight, pendingResp>>
outVars    == <<sending, sendQueue, wire>>
closeVars  == <<closed, cause, events, added>>
mainVars   == <<isShutdown, mayPost>>
vars == <<peerVars, inputVars, seqVars, outVars, closeVars, closeAfterSend,
          working, functors, mainVars, todo>>

(* A closure in the loop's queue, and a frame of the IO thread's stack.    *)
Functor(op, seq, close) == [op |-> op, seq |-> seq, close |-> close]
Frame(op) == [op |-> op, seq |-> 0]
DeliverFrame(n) == [op |-> "deliver", seq |-> n]

(* A SendItem: the response to request seq, or the interim 100 Continue    *)
(* for it; short: its file is now shorter than the size announced.         *)
Item(seq, final, short) == [seq |-> seq, final |-> final, short |-> short]

(* An item has been written to the socket: wire records the answers.       *)
Write(item) == wire' = IF item.final THEN Append(wire, item.seq) ELSE wire

Init ==
    /\ sock = <<>> /\ peer = "open" /\ inEdge = FALSE
    /\ space = TRUE /\ outEdge = FALSE
    /\ asked = 0 /\ owesBody = FALSE
    /\ buffer = <<>> /\ ctxBody = FALSE
    /\ events = {} /\ added = FALSE
    /\ closed = FALSE /\ closeAfterSend = FALSE
    /\ sending = FALSE /\ sendQueue = <<>>
    /\ nextReqSeq = 0 /\ nextSendSeq = 0 /\ inflight = 0 /\ pendingResp = {}
    /\ working = {}
    /\ functors = <<Functor("establish", 0, FALSE)>>
    /\ isShutdown = FALSE /\ mayPost = {"force", "shutdown"}
    /\ todo = <<>>
    /\ wire = <<>> /\ cause = "open"

Top(op) == todo # <<>> /\ Head(todo).op = op
Return == todo' = Tail(todo)
Call(frames) == todo' = frames \o Tail(todo)

-----------------------------------------------------------------------------
(* handleClose() and destroy(): the first call drops the output, leaves    *)
(* epoll and queues the guard that keeps the object alive until the events *)
(* epoll_wait has returned are dispatched.                                 *)
GuardFunctors_none == functors
GuardFunctors == Append(functors, Functor("guard", 0, FALSE))

HandleClose(why) ==
    IF closed
    THEN UNCHANGED <<closeVars, sendQueue, functors>>
    ELSE /\ closed' = TRUE
         /\ cause' = why
         /\ sendQueue' = <<>>
         /\ added' = FALSE
         /\ events' = {}
         /\ functors' = GuardFunctors

(* Nothing is left to send and no answer is still to come.                 *)
Drained_ignoresPool == sendQueue = <<>> /\ ~sending /\ pendingResp = {}
Drained == /\ sendQueue = <<>>
           /\ ~sending
           /\ inflight = 0
           /\ pendingResp = {}

(* A processBufferedRequests call further down the stack: inProcess_.      *)
InProcess == \E i \in 2 .. Len(todo) : todo[i].op = "process"

MaybeCloseAfterSend ==
    /\ Top("maybeClose")
    /\ IF closeAfterSend /\ Drained
       THEN HandleClose(IF InProcess THEN "refused" ELSE "drained")
       ELSE UNCHANGED <<closeVars, sendQueue, functors>>
    /\ Return
    /\ UNCHANGED <<peerVars, inputVars, seqVars, sending, wire,
                   closeAfterSend, working, mainVars>>

(* shutdown(): EPOLL_CTL_MOD reports again whatever is still ready.        *)
Shutdown ==
    /\ Top("shutdown")
    /\ closeAfterSend' = TRUE
    /\ outEdge' = (outEdge \/ (added /\ "out" \in events /\ space))
    /\ IF Drained /\ ~closed
       THEN HandleClose("drained")
       ELSE /\ events' = events \ {"in"}
            /\ UNCHANGED <<closed, cause, added, sendQueue, functors>>
    /\ Return
    /\ UNCHANGED <<sock, peer, inEdge, space, asked, owesBody, inputVars,
                   seqVars, sending, wire, working, mainVars>>

(* forceClose(), the error callback, and handleRead's read error.          *)
Close ==
    /\ Top("close")
    /\ HandleClose("forced")
    /\ Return
    /\ UNCHANGED <<peerVars, inputVars, seqVars, sending, wire,
                   closeAfterSend, working, mainVars>>

-----------------------------------------------------------------------------
(* send() and sendFile(): write directly unless something is queued, queue *)
(* what the socket does not take and ask for EPOLLOUT, or fail and close.  *)

NeedsQueue == sending

Queue(item) == sendQueue' = Append(sendQueue, item)

EnableWriting_skipped == UNCHANGED events
EnableWriting == events' = events \cup {"out"}

(* The socket is full: an EPOLLOUT edge follows when the peer reads.       *)
SendBlocked(item) ==
    /\ Queue(item)
    /\ sending' = TRUE
    /\ space' = FALSE
    /\ EnableWriting
    /\ UNCHANGED <<outEdge, closed, cause, added, functors, wire>>

(* sendfile ran out of file, not out of socket: registering EPOLLOUT makes *)
(* an edge, but only if it was not registered before.                      *)
SendShort(item) ==
    /\ Queue(item)
    /\ sending' = TRUE
    /\ EnableWriting
    /\ outEdge' = (outEdge \/ "out" \notin events)
    /\ UNCHANGED <<space, closed, cause, added, functors, wire>>

SendWhole(item) ==
    /\ space
    /\ Write(item)
    /\ UNCHANGED <<space, outEdge, closeVars, functors, sending, sendQueue>>

Send(seq, final) ==
    \E short \in (IF FilesShrink /\ final THEN BOOLEAN ELSE {FALSE}) :
        LET item == Item(seq, final, short)
        IN  IF closed
            THEN UNCHANGED <<space, outEdge, closeVars, functors, outVars>>
            ELSE IF NeedsQueue
            THEN /\ Queue(item)
                 /\ UNCHANGED <<space, outEdge, closeVars, functors, sending,
                                wire>>
            ELSE \/ short /\ SendShort(item)
                 \/ ~short /\ SendWhole(item)
                 \/ SendBlocked(item)
                 \/ /\ HandleClose("error")
                    /\ UNCHANGED <<space, outEdge, sending, wire>>

-----------------------------------------------------------------------------
(* deliverResponse(n): park the answer, then send the run of answers that  *)
(* starts at nextSendSeq_, then use the freed place in the pool, and then  *)
(* see whether the connection is to be closed.                             *)

InflightAfter_leaked == inflight
InflightAfter == IF inflight > 0 THEN inflight - 1 ELSE 0

AfterDeliver_noProcess == <<Frame("drain"), Frame("maybeClose")>>
AfterDeliver == <<Frame("drain"), Frame("process"), Frame("maybeClose")>>

DeliverResponse ==
    /\ Top("deliver")
    /\ LET n == Head(todo).seq
       IN  IF closed
           THEN Return /\ UNCHANGED <<inflight, pendingResp>>
           ELSE /\ inflight' = InflightAfter
                /\ pendingResp' = IF n >= nextSendSeq
                                  THEN pendingResp \cup {n} ELSE pendingResp
                /\ Call(AfterDeliver)
    /\ UNCHANGED <<peerVars, inputVars, nextReqSeq, nextSendSeq, outVars,
                   closeVars, closeAfterSend, working, functors, mainVars>>

(* The next answer to send: the one of nextSendSeq_, once it is there.     *)
NextToSend_any == pendingResp
NextToSend == pendingResp \cap {nextSendSeq}

Drain ==
    /\ Top("drain")
    /\ IF NextToSend = {}
       THEN /\ Return
            /\ UNCHANGED <<seqVars, space, outEdge, closeVars, functors,
                           outVars>>
       ELSE \E n \in NextToSend :
            /\ Send(n, TRUE)
            /\ pendingResp' = pendingResp \ {n}
            /\ nextSendSeq' = nextSendSeq + 1
            /\ UNCHANGED <<nextReqSeq, inflight, todo>>
    /\ UNCHANGED <<sock, peer, inEdge, asked, owesBody, inputVars,
                   closeAfterSend, working, mainVars>>

-----------------------------------------------------------------------------
(* processBufferedRequests() and the message callback.                     *)

MoreInPool == inflight < kMaxInflight

MayProcess == ~InProcess /\ ~closed /\ MoreInPool /\ buffer # <<>>

ProcessEnd ==
    /\ Top("process")
    /\ ~MayProcess
    /\ Return
    /\ UNCHANGED <<peerVars, inputVars, seqVars, outVars, closeVars,
                   closeAfterSend, working, functors, mainVars>>

(* What parseRequest finds at the front of the buffer, and what it leaves. *)
HasRequest == IF ctxBody THEN Head(buffer) = "body"
              ELSE \/ Head(buffer) = "req"
                   \/ Head(buffer) = "head" /\ Len(buffer) > 1
AfterRequest == IF ~ctxBody /\ Head(buffer) = "head"
                THEN Tail(Tail(buffer)) ELSE Tail(buffer)
HasError == ~ctxBody /\ Head(buffer) \in {"err", "te"}
(* What follows the refused line of "te" stays in the buffer, for the next *)
(* rounds to parse.                                                        *)
BytesLeft == IF Head(buffer) = "te" THEN Leftovers ELSE {<<>>}
AfterError == {left \o Tail(buffer) : left \in BytesLeft}

(* nextRequestSeq()                                                        *)
NextRequestSeq_stays ==
    /\ inflight' = inflight + 1
    /\ UNCHANGED <<nextReqSeq, nextSendSeq, pendingResp>>
NextRequestSeq ==
    /\ nextReqSeq' = nextReqSeq + 1
    /\ inflight' = inflight + 1
    /\ UNCHANGED <<nextSendSeq, pendingResp>>

(* A request parsed and taken by the pool.                                 *)
SubmitRequest ==
    /\ Top("process") /\ MayProcess /\ HasRequest
    /\ buffer' = AfterRequest
    /\ ctxBody' = FALSE
    /\ NextRequestSeq
    /\ working' = working \cup {nextReqSeq}
    /\ closeAfterSend' = (closeAfterSend \/ isShutdown)
    /\ UNCHANGED <<peerVars, outVars, closeVars, functors, mainVars, todo>>

(* A request parsed and refused by the pool: 503 at once, and the          *)
(* connection stays open for HTTP/1.1 unless the server is draining.       *)
RejectRequest(http11) ==
    /\ Top("process") /\ MayProcess /\ HasRequest
    /\ buffer' = AfterRequest
    /\ ctxBody' = FALSE
    /\ NextRequestSeq
    /\ closeAfterSend' = (closeAfterSend \/ isShutdown \/ ~http11)
    /\ todo' = <<DeliverFrame(nextReqSeq)>> \o todo
    /\ UNCHANGED <<peerVars, outVars, closeVars, working, functors, mainVars>>

(* A parse error: answered with an error of its own sequence number.       *)
RefuseRequest ==
    /\ Top("process") /\ MayProcess /\ HasError
    /\ buffer' \in AfterError
    /\ ctxBody' = FALSE
    /\ NextRequestSeq
    /\ closeAfterSend' = TRUE
    /\ todo' = <<DeliverFrame(nextReqSeq)>> \o todo
    /\ UNCHANGED <<peerVars, outVars, closeVars, working, functors, mainVars>>

(* Headers that expect 100 Continue, body not here: the interim response   *)
(* goes out at once, through send() and not through deliverResponse().     *)
SendContinue ==
    /\ Top("process") /\ MayProcess /\ ~HasRequest /\ ~HasError
    /\ buffer' = Tail(buffer)
    /\ ctxBody' = TRUE
    /\ closeAfterSend' = (closeAfterSend \/ isShutdown)
    /\ Send(nextReqSeq, FALSE)
    /\ UNCHANGED <<sock, peer, inEdge, asked, owesBody, seqVars, working,
                   mainVars, todo>>

-----------------------------------------------------------------------------
(* What epoll reports, dispatched by Channel::handleEvent in this order    *)
(* even when an earlier callback has closed the connection.                *)
Dispatch ==
    /\ todo = <<>> /\ added
    /\ LET in  == inEdge /\ "in" \in events
           out == outEdge /\ "out" \in events
           err == peer = "reset"
       IN  /\ in \/ out \/ err
           /\ todo' = (IF in THEN <<Frame("read")>> ELSE <<>>)
                      \o (IF out THEN <<Frame("write")>> ELSE <<>>)
                      \o (IF err THEN <<Frame("close")>> ELSE <<>>)
           /\ inEdge' = (inEdge /\ ~in)
           /\ outEdge' = (outEdge /\ ~out)
    /\ UNCHANGED <<sock, peer, space, asked, owesBody, inputVars, seqVars,
                   outVars, closeVars, closeAfterSend, working, functors,
                   mainVars>>

(* handleRead() reads until the socket is empty, and on FIN it stops       *)
(* reading only after what came before the FIN has been parsed.            *)
AfterRead_closes == CASE peer = "open"  -> <<>>
                      [] OTHER -> <<Frame("close")>>
AfterRead == CASE peer = "open"  -> <<>>
               [] peer = "fin"   -> <<Frame("shutdown")>>
               [] peer = "reset" -> <<Frame("close")>>

HandleRead ==
    /\ Top("read")
    /\ buffer' = buffer \o sock
    /\ sock' = <<>>
    /\ Call(<<Frame("process")>> \o AfterRead)
    /\ UNCHANGED <<peer, inEdge, space, outEdge, asked, owesBody, ctxBody,
                   seqVars, outVars, closeVars, closeAfterSend, working,
                   functors, mainVars>>

(* handleWrite(), one turn of its loop over the queue at a time.           *)
AfterFlush_forgets == <<>>
AfterFlush == <<Frame("maybeClose")>>

HandleWriteEmpty ==
    /\ Top("write")
    /\ sendQueue = <<>>
    /\ sending' = FALSE
    /\ Call(AfterFlush)
    /\ UNCHANGED <<peerVars, inputVars, seqVars, sendQueue, wire, closeVars,
                   closeAfterSend, working, functors, mainVars>>

WriteItem ==
    /\ Top("write")
    /\ sendQueue # <<>>
    /\ space /\ ~Head(sendQueue).short
    /\ Write(Head(sendQueue))
    /\ sendQueue' = Tail(sendQueue)
    /\ UNCHANGED <<peerVars, inputVars, seqVars, sending, closeVars,
                   closeAfterSend, working, functors, mainVars, todo>>

(* The socket is full again before the item is out.                        *)
WritePart ==
    /\ Top("write")
    /\ sendQueue # <<>>
    /\ space' = FALSE
    /\ Return
    /\ UNCHANGED <<sock, peer, inEdge, outEdge, asked, owesBody, inputVars,
                   seqVars, outVars, closeVars, closeAfterSend, working,
                   functors, mainVars>>

(* sendfile returns 0 at the end of a short file and sets no errno: the    *)
(* branch taken is that of whatever the last failing call left there.      *)
WriteShort ==
    /\ Top("write")
    /\ sendQueue # <<>>
    /\ Head(sendQueue).short
    /\ Return
    /\ UNCHANGED <<peerVars, inputVars, seqVars, outVars, closeVars,
                   closeAfterSend, working, functors, mainVars>>

WriteFails ==
    /\ Top("write")
    /\ sendQueue # <<>>
    /\ HandleClose("error")
    /\ Return
    /\ UNCHANGED <<peerVars, inputVars, seqVars, sending, wire,
                   closeAfterSend, working, mainVars>>

(* The functors of this connection that reach the front of the loop.       *)
RunFunctor ==
    /\ todo = <<>> /\ functors # <<>>
    /\ LET f == Head(functors)
       IN  /\ todo' = CASE f.op = "deliver"  -> <<DeliverFrame(f.seq)>>
                        [] f.op = "force"    -> <<Frame("close")>>
                        [] f.op = "shutdown" -> <<Frame("shutdown")>>
                        [] OTHER -> <<>>
           /\ closeAfterSend' = (closeAfterSend \/ f.close)
           /\ IF f.op = "establish"
              THEN added' = TRUE /\ events' = {"in"}
              ELSE UNCHANGED <<added, events>>
    /\ functors' = Tail(functors)
    /\ UNCHANGED <<peerVars, inputVars, seqVars, outVars, closed, cause,
                   working, mainVars>>

-----------------------------------------------------------------------------
(* The peer, which this repository does not contain.                       *)
PeerSends(kind) ==
    /\ peer = "open" /\ ~closed
    /\ IF owesBody THEN kind = "body"
       ELSE kind \in Kinds /\ asked < MaxRequests
    /\ sock' = Append(sock, kind)
    /\ inEdge' = TRUE
    /\ asked' = IF owesBody THEN asked ELSE asked + 1
    /\ owesBody' = (kind = "head")
    /\ UNCHANGED <<peer, space, outEdge, inputVars, seqVars, outVars,
                   closeVars, closeAfterSend, working, functors, mainVars,
                   todo>>

PeerStops(how) ==
    /\ peer # "reset" /\ peer # how /\ ~closed
    /\ peer' = how
    /\ inEdge' = TRUE
    /\ UNCHANGED <<sock, space, outEdge, asked, owesBody, inputVars, seqVars,
                   outVars, closeVars, closeAfterSend, working, functors,
                   mainVars, todo>>

(* The peer takes what the socket holds: the edge handleWrite waits for.   *)
PeerReads ==
    /\ ~space /\ ~closed
    /\ space' = TRUE
    /\ outEdge' = (outEdge \/ "out" \in events)
    /\ UNCHANGED <<sock, peer, inEdge, asked, owesBody, inputVars, seqVars,
                   outVars, closeVars, closeAfterSend, working, functors,
                   mainVars, todo>>

(* A worker has the answer to request n and posts it: a draining server    *)
(* and a request that asks for it close the connection after the answer.   *)
WorkerDone(n, close) ==
    /\ n \in working
    /\ working' = working \ {n}
    /\ functors' = Append(functors, Functor("deliver", n, close \/ isShutdown))
    /\ UNCHANGED <<peerVars, inputVars, seqVars, outVars, closeVars,
                   closeAfterSend, mainVars, todo>>

(* The main thread: SIGTERM's flag, the heartbeat's forceClose() of an     *)
(* idle connection and TcpServer::shutdown()'s shutdown(), posted while    *)
(* the connection is still listed, perhaps run when it no longer is.       *)
Signal ==
    /\ ~isShutdown
    /\ isShutdown' = TRUE
    /\ UNCHANGED <<peerVars, inputVars, seqVars, outVars, closeVars,
                   closeAfterSend, working, functors, mayPost, todo>>

Post(op) ==
    /\ op \in mayPost /\ ~closed
    /\ mayPost' = mayPost \ {op}
    /\ functors' = Append(functors, Functor(op, 0, FALSE))
    /\ UNCHANGED <<peerVars, inputVars, seqVars, outVars, closeVars,
                   closeAfterSend, working, isShutdown, todo>>

-----------------------------------------------------------------------------
IoThread ==
    \/ MaybeCloseAfterSend \/ Shutdown \/ Close
    \/ DeliverResponse \/ Drain
    \/ ProcessEnd \/ SubmitRequest \/ RefuseRequest \/ SendContinue
    \/ \E http11 \in BOOLEAN : RejectRequest(http11)
    \/ Dispatch \/ HandleRead \/ RunFunctor
    \/ HandleWriteEmpty \/ WriteItem \/ WritePart \/ WriteShort \/ WriteFails

Worker == \E n \in working, close \in BOOLEAN : WorkerDone(n, close)

Peer == \/ \E kind \in Kinds \cup {"body"} : PeerSends(kind)
        \/ \E how \in {"fin", "reset"} : PeerStops(how)
        \/ PeerReads

Main == Signal \/ \E op \in {"force", "shutdown"} : Post(op)

Next == IoThread \/ Worker \/ Peer \/ Main

Spec == Init /\ [][Next]_vars

(* The IO thread goes on, workers finish, and the peer keeps reading what  *)
(* it is sent; nothing else is promised.  An item is finitely long, so     *)
(* that after enough partial writes the rest of it fits: hence SF.         *)
Fairness ==
    /\ WF_vars(IoThread)
    /\ SF_vars(WriteItem)
    /\ \A n \in 0 .. 2 * MaxRequests :
           WF_vars(\E close \in BOOLEAN : WorkerDone(n, close))
    /\ WF_vars(PeerReads)

FairSpec == Spec /\ Fairness

-----------------------------------------------------------------------------
Delivering(n) ==
    Cardinality({i \in DOMAIN functors :
                     functors[i].op = "deliver" /\ functors[i].seq = n})
  + Cardinality({i \in DOMAIN todo :
                     todo[i].op = "deliver" /\ todo[i].seq = n})

Functors == [op : {"establish", "guard", "deliver", "force", "shutdown"},
             seq : Nat, close : BOOLEAN]
Frames == [op : {"deliver", "drain", "process", "maybeClose", "read", "write",
                 "shutdown", "close"}, seq : Nat]
Items == [seq : Nat, final : BOOLEAN, short : BOOLEAN]

PeerType == /\ peer \in {"open", "fin", "reset"}
            /\ sock \in Seq(Kinds \cup {"body"})
            /\ asked \in 0 .. MaxRequests
            /\ inEdge \in BOOLEAN /\ outEdge \in BOOLEAN
            /\ space \in BOOLEAN /\ owesBody \in BOOLEAN

SeqType == /\ nextReqSeq \in Nat /\ nextSendSeq \in 0 .. nextReqSeq
           /\ inflight \in 0 .. kMaxInflight
           /\ working \subseteq 0 .. nextReqSeq - 1
           /\ pendingResp \subseteq 0 .. nextReqSeq - 1

CloseType == /\ closed \in BOOLEAN /\ added \in BOOLEAN
             /\ cause \in {"open", "drained", "refused", "forced", "error"}
             /\ closed <=> cause # "open"
             /\ events \subseteq {"in", "out"}
             /\ events # {} => added

OutType == /\ sending \in BOOLEAN
           /\ sendQueue \in Seq(Items)
           /\ wire \in Seq(Nat)

LoopType == /\ functors \in Seq(Functors) /\ todo \in Seq(Frames)
            /\ buffer \in Seq(Kinds \cup {"req", "body", "err"})
            /\ ctxBody \in BOOLEAN /\ closeAfterSend \in BOOLEAN
            /\ isShutdown \in BOOLEAN
            /\ mayPost \subseteq {"force", "shutdown"}

TypeOK == PeerType /\ SeqType /\ CloseType /\ OutType /\ LoopType

(* While the connection is open every request is in exactly one place: its *)
(* answer has been handed to send(), is parked, is on its way from a       *)
(* worker, or is still being worked out; and inflight_ counts the last     *)
(* two.  A leak of inflight_ would stop the parsing for good, a duplicate  *)
(* would answer the wrong request.                                         *)
RequestsAccounted ==
    ~closed =>
        /\ \A n \in 0 .. nextReqSeq - 1 :
               LET answered == IF n < nextSendSeq THEN 1 ELSE 0
                   parked   == IF n \in pendingResp THEN 1 ELSE 0
                   inPool   == IF n \in working THEN 1 ELSE 0
               IN  answered + parked + inPool + Delivering(n) = 1
        /\ inflight = Cardinality({n \in 0 .. nextReqSeq - 1 :
                                      n \in working \/ Delivering(n) > 0})

(* Complete requests are never left in inputBuffer_ unless the pool has as *)
(* many of this connection's requests as it may have: the edge that        *)
(* brought them will not come again.                                       *)
NoStrandedRequest ==
    todo = <<>> /\ ~closed /\ buffer # <<>> => inflight = kMaxInflight

(* A server that closes the connection after what it owes has been sent    *)
(* leaves no request it had already read unanswered.                       *)
DrainedMeansServed == cause = "drained" => buffer = <<>>

(* A peer that has only stopped sending still gets the answers it waits    *)
(* for: what cuts a connection short is a reset, a failed write or the     *)
(* heartbeat, never the FIN that handleRead sees.                          *)
HalfCloseKeepsAnswers ==
    cause = "forced" => peer = "reset" \/ "force" \notin mayPost

(* Output that is waiting has an EPOLLOUT edge to come, unless the file it *)
(* is stuck in has been cut short; and nothing waits unnoticed.            *)
BlockedOutputHasWaker ==
    todo = <<>> /\ ~closed =>
        /\ sending <=> sendQueue # <<>>
        /\ sending => /\ "out" \in events
                      /\ ~space \/ outEdge \/ Head(sendQueue).short

(* An event that epoll_wait has already returned is dispatched through a   *)
(* raw Channel pointer: if an earlier callback of the same round closed    *)
(* the connection, the guard that owns it has not run yet.                 *)
EventsOutliveClose ==
    closed /\ (\E i \in DOMAIN todo : todo[i].op \in {"read", "write"}) =>
        \E i \in DOMAIN functors : functors[i].op = "guard"

Pipeline ==
    INSTANCE ResponsePipeline WITH
        parsed <- nextReqSeq,
        sent   <- wire,
        ended  <- CASE cause = "open" -> "open"
                    [] cause \in {"drained", "refused"} -> "gracefully"
                    [] OTHER -> "abruptly"

(* Answers reach the wire in request order, one each, and a graceful close *)
(* comes after the last of them: deliverResponse's re-ordering, the output *)
(* queue and maybeCloseAfterSend together.                                 *)
ImplementsPipeline == Pipeline!Spec

(* Every request the peer completes is answered, or the connection closes. *)
RequestsAnswered ==
    \A n \in 1 .. MaxRequests :
        (asked >= n /\ ~owesBody) ~> (Len(wire) >= n \/ closed)

(* A peer that has stopped sending sees the connection end by itself.      *)
HalfCloseEnds == (peer = "fin") ~> closed

-----------------------------------------------------------------------------
(* What the comments and documents say, and the code does not do.          *)

(* DESIGN.md:546: the limit bounds what one connection holds in memory.    *)
UnansweredBounded == nextReqSeq - nextSendSeq <= kMaxInflight
=============================================================================
