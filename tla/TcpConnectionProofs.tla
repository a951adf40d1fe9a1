------------------------ MODULE TcpConnectionProofs ------------------------
(* Proofs about TcpConnection.tla, for every value of its constants.       *)
(*                                                                         *)
(* The order: facts about sequences read as stacks and queues, with what   *)
(* each shape of the IO thread's call stack allows; then one part of the   *)
(* inductive invariant IInv after the other, each with the lemma that a    *)
(* step keeps it; then IInv, the properties that follow from it, and the   *)
(* refinement of ResponsePipeline.                                         *)
EXTENDS TcpConnection, FiniteSetTheorems, SequenceTheorems, TLAPS

(* The callbacks that run below handleRead on the stack: what Dispatch     *)
(* pushes after it and what handleRead leaves behind.                      *)
Bottom == {"shutdown", "write", "close"}

(* The call stack, or the loop's queue, holds an op.                       *)
HasOp(t, op) == \E i \in DOMAIN t : t[i].op = op

(* What the IO thread's call stack looks like: deliverResponse and         *)
(* handleRead are only ever its innermost call, and below handleRead and   *)
(* the callbacks of the same round there are only such callbacks.  Without *)
(* it a delivery below another call could be counted twice, or forgotten   *)
(* by a nested return.                                                     *)
Shape(t) ==
    /\ \A i \in DOMAIN t : t[i].op \in {"deliver", "read"} => i = 1
    /\ \A i, j \in DOMAIN t :
          i < j /\ t[i].op \in {"read"} \cup Bottom => t[j].op \in Bottom

(* The shape, and: a connection closed by one callback of a round has no   *)
(* handleRead left in it.                                                  *)
StackInv == Shape(todo) /\ (closed => ~HasOp(todo, "read"))

(* A connection enters epoll when its establish functor, always the first  *)
(* in the queue, has run, and leaves it for good when it closes.           *)
LifeInv ==
    /\ added => ~closed
    /\ \A i \in DOMAIN functors :
          functors[i].op = "establish" => i = 1 /\ ~closed /\ ~added /\ todo = <<>>
    /\ ~closed /\ ~added => functors # <<>> /\ functors[1].op = "establish"

(* The requests a queue or stack is delivering the answers of; Unique:     *)
(* each at most once.                                                      *)
Delivers(F) == {F[i].seq : i \in {j \in DOMAIN F : F[j].op = "deliver"}}
Unique(F) == \A i, j \in DOMAIN F :
                 /\ F[i].op = "deliver" /\ F[j].op = "deliver"
                 /\ F[i].seq = F[j].seq
                 => i = j

(* Requests taken from the buffer whose answer is not parked yet: in a     *)
(* worker, on the way back, or being delivered.                            *)
AtWork == working \cup Delivers(functors) \cup Delivers(todo)

(* Only requests that have been numbered are at work.                      *)
RangeInv == AtWork \subseteq 0 .. nextReqSeq - 1

(* RequestsAccounted in the form a step preserves: the requests from       *)
(* nextSendSeq_ to nextReqSeq_ are exactly those at work and those parked, *)
(* the places they can be at work in are disjoint, and inflight_ is their  *)
(* number.                                                                 *)
AccountInv ==
    ~closed =>
        /\ AtWork \cup pendingResp = nextSendSeq .. nextReqSeq - 1
        /\ AtWork \cap pendingResp = {}
        /\ working \cap Delivers(functors) = {}
        /\ working \cap Delivers(todo) = {}
        /\ Delivers(functors) \cap Delivers(todo) = {}
        /\ Unique(functors)
        /\ inflight = Cardinality(AtWork)

(* BlockedOutputHasWaker in the middle of a call: output that waits is     *)
(* being written, or will be written because of an edge, an event already  *)
(* reported, or the peer's next read.                                      *)
OutputInv ==
    ~closed =>
        /\ sendQueue # <<>> => sending
        /\ sending => /\ sendQueue # <<>> \/ Top("write")
                      /\ "out" \in events
                      /\ \/ ~space \/ outEdge \/ HasOp(todo, "write")
                         \/ sendQueue # <<>> /\ Head(sendQueue).short

(* EventsOutliveClose, for the two callbacks that use the channel.         *)
GuardInv ==
    closed /\ (HasOp(todo, "read") \/ HasOp(todo, "write")) =>
        HasOp(functors, "guard")

(* One of the two reasons forceClose() and the error callback can have.    *)
Forced == peer = "reset" \/ "force" \notin mayPost

(* HalfCloseKeepsAnswers needs to know that a close that is still on its   *)
(* way, on the stack or in the loop's queue, has such a reason.            *)
ForceInv ==
    /\ HasOp(todo, "close") => Forced
    /\ HasOp(functors, "force") => "force" \notin mayPost
    /\ cause = "forced" => Forced

(* DrainedMeansServed.                                                     *)
DrainedInv == cause = "drained" => buffer = <<>>

(* NoStrandedRequest in the middle of a call: a buffer that is not empty   *)
(* will be looked at by a processBufferedRequests() on the stack, or by    *)
(* the delivery of one of the kMaxInflight_ answers.                       *)
StrandInv == ~closed /\ buffer # <<>> => inflight = kMaxInflight \/ HasOp(todo, "process")

(* A queue q of items for the socket when w answers are on the wire and n  *)
(* have been handed to send(): the answers w to n - 1, in order, each      *)
(* once.  The interim 100 Continue items may stand anywhere between them.  *)
Ordered(q, w, n) ==
    /\ w <= n
    /\ \A i \in DOMAIN q : q[i].final => q[i].seq \in w .. n - 1
    /\ \A i, j \in DOMAIN q :
          i < j /\ q[i].final /\ q[j].final => q[i].seq < q[j].seq
    /\ \A k \in w .. n - 1 : \E i \in DOMAIN q : q[i].final /\ q[i].seq = k

(* The output queue holds exactly the answers handed to send() and not yet *)
(* written, in order.  This is what makes ResponsePipeline hold although   *)
(* send() sometimes writes and sometimes queues.                           *)
OrderInv ==
    /\ closed => sendQueue = <<>>
    /\ ~closed => Ordered(sendQueue, Len(wire), nextSendSeq)

-----------------------------------------------------------------------------
USE BoundsAssumption

(* The elements of the tail of a sequence.                                 *)
LEMMA TailElements ==
  ASSUME NEW S, NEW t \in Seq(S), t # <<>>
  PROVE  /\ Len(t) \in Nat \ {0} /\ DOMAIN t = 1 .. Len(t)
         /\ t[1] = Head(t) /\ Head(t) \in S /\ Tail(t) \in Seq(S)
         /\ DOMAIN Tail(t) = 1 .. Len(t) - 1
         /\ \A i \in 1 .. Len(t) - 1 : Tail(t)[i] = t[i + 1]
  BY HeadTailProperties, LenProperties

(* The elements of a sequence with one more at its end.                    *)
LEMMA AppendElements ==
  ASSUME NEW S, NEW t \in Seq(S), NEW e \in S
  PROVE  /\ Append(t, e) \in Seq(S)
         /\ Len(t) \in Nat /\ DOMAIN t = 1 .. Len(t)
         /\ DOMAIN Append(t, e) = 1 .. Len(t) + 1
         /\ \A i \in 1 .. Len(t) : Append(t, e)[i] = t[i]
         /\ Append(t, e)[Len(t) + 1] = e
  BY AppendProperties, LenProperties

(* The elements of a concatenation.                                        *)
LEMMA ConcatElements ==
  ASSUME NEW S, NEW f \in Seq(S), NEW t \in Seq(S)
  PROVE  /\ f \o t \in Seq(S)
         /\ Len(f) \in Nat /\ DOMAIN f = 1 .. Len(f)
         /\ Len(t) \in Nat /\ DOMAIN t = 1 .. Len(t)
         /\ DOMAIN (f \o t) = 1 .. Len(f) + Len(t)
         /\ \A i \in 1 .. Len(f) : (f \o t)[i] = f[i]
         /\ \A i \in 1 .. Len(t) : (f \o t)[Len(f) + i] = t[i]
         /\ \A i \in Len(f) + 1 .. Len(f) + Len(t) : (f \o t)[i] = t[i - Len(f)]
<1>1. /\ f \o t \in Seq(S)
      /\ Len(f \o t) = Len(f) + Len(t)
      /\ \A i \in 1 .. Len(f) + Len(t) : (f \o t)[i] =
                     IF i <= Len(f) THEN f[i] ELSE t[i - Len(f)]
  BY ConcatProperties
<1>2. /\ Len(f) \in Nat /\ DOMAIN f = 1 .. Len(f)
      /\ Len(t) \in Nat /\ DOMAIN t = 1 .. Len(t)
  BY LenProperties
<1>3. DOMAIN (f \o t) = 1 .. Len(f) + Len(t)
  BY <1>1, LenProperties
<1>4. ASSUME NEW i \in 1 .. Len(t) PROVE (f \o t)[Len(f) + i] = t[i]
  <2>1. Len(f) + i \in 1 .. Len(f) + Len(t) /\ ~(Len(f) + i <= Len(f))
    BY <1>2
  <2>2. (Len(f) + i) - Len(f) = i
    BY <1>2
  <2> QED
    BY <1>1, <2>1, <2>2
<1> QED
  BY <1>1, <1>2, <1>3, <1>4

(* An op is at the head of a sequence or in its tail.                      *)
LEMMA HasOpTail ==
  ASSUME NEW S, NEW t \in Seq(S), t # <<>>, NEW op
  PROVE  HasOp(t, op) <=> Head(t).op = op \/ HasOp(Tail(t), op)
<1>1. ASSUME HasOp(t, op), Head(t).op # op
      PROVE  HasOp(Tail(t), op)
  <2>1. PICK i \in DOMAIN t : t[i].op = op
    BY <1>1 DEF HasOp
  <2>2. i # 1 /\ i \in 1 .. Len(t)
    BY <1>1, <2>1, TailElements
  <2>3. i - 1 \in DOMAIN Tail(t) /\ Tail(t)[i - 1] = t[(i - 1) + 1] /\ (i - 1) + 1 = i
    BY <2>2, TailElements
  <2> QED
    BY <2>1, <2>3 DEF HasOp
<1>2. ASSUME HasOp(Tail(t), op)
      PROVE  HasOp(t, op)
  <2>1. PICK i \in DOMAIN Tail(t) : Tail(t)[i].op = op
    BY <1>2 DEF HasOp
  <2>2. i + 1 \in DOMAIN t /\ t[i + 1] = Tail(t)[i]
    BY <2>1, TailElements
  <2> QED
    BY <2>1, <2>2 DEF HasOp
<1>3. Head(t).op = op => HasOp(t, op)
  <2>1. 1 \in DOMAIN t /\ t[1] = Head(t)
    BY TailElements
  <2> QED
    BY <2>1 DEF HasOp
<1> QED
  BY <1>1, <1>2, <1>3

(* An op of a concatenation is in one of its parts.                        *)
LEMMA HasOpConcat ==
  ASSUME NEW S, NEW f \in Seq(S), NEW t \in Seq(S), NEW op
  PROVE  HasOp(f \o t, op) <=> HasOp(f, op) \/ HasOp(t, op)
<1>1. ASSUME HasOp(f \o t, op) PROVE HasOp(f, op) \/ HasOp(t, op)
  <2>1. PICK i \in DOMAIN (f \o t) : (f \o t)[i].op = op
    BY <1>1 DEF HasOp
  <2>2. CASE i \in 1 .. Len(f)
    <3>1. i \in DOMAIN f /\ (f \o t)[i] = f[i]
      BY <2>2, ConcatElements
    <3> QED
      BY <2>1, <3>1 DEF HasOp
  <2>3. CASE i \in Len(f) + 1 .. Len(f) + Len(t)
    <3>1. i - Len(f) \in DOMAIN t /\ (f \o t)[i] = t[i - Len(f)]
      BY <2>3, ConcatElements
    <3> QED
      BY <2>1, <3>1 DEF HasOp
  <2> QED
    BY <2>1, <2>2, <2>3, ConcatElements
<1>2. ASSUME HasOp(f, op) PROVE HasOp(f \o t, op)
  <2>1. PICK i \in DOMAIN f : f[i].op = op
    BY <1>2 DEF HasOp
  <2>2. i \in DOMAIN (f \o t) /\ (f \o t)[i] = f[i]
    BY <2>1, ConcatElements
  <2> QED
    BY <2>1, <2>2 DEF HasOp
<1>3. ASSUME HasOp(t, op) PROVE HasOp(f \o t, op)
  <2>1. PICK i \in DOMAIN t : t[i].op = op
    BY <1>3 DEF HasOp
  <2>2. Len(f) + i \in DOMAIN (f \o t) /\ (f \o t)[Len(f) + i] = t[i]
    BY <2>1, ConcatElements
  <2> QED
    BY <2>1, <2>2 DEF HasOp
<1> QED
  BY <1>1, <1>2, <1>3

(* An op of an extended sequence was there or is the new one.              *)
LEMMA HasOpAppend ==
  ASSUME NEW S, NEW t \in Seq(S), NEW e \in S, NEW op
  PROVE  HasOp(Append(t, e), op) <=> HasOp(t, op) \/ e.op = op
<1>1. ASSUME HasOp(Append(t, e), op), e.op # op PROVE HasOp(t, op)
  <2>1. PICK i \in DOMAIN Append(t, e) : Append(t, e)[i].op = op
    BY <1>1 DEF HasOp
  <2>2. i # Len(t) + 1
    BY <1>1, <2>1, AppendElements
  <2>3. i \in DOMAIN t /\ Append(t, e)[i] = t[i]
    BY <2>1, <2>2, AppendElements
  <2> QED
    BY <2>1, <2>3 DEF HasOp
<1>2. ASSUME HasOp(t, op) PROVE HasOp(Append(t, e), op)
  <2>1. PICK i \in DOMAIN t : t[i].op = op
    BY <1>2 DEF HasOp
  <2>2. i \in DOMAIN Append(t, e) /\ Append(t, e)[i] = t[i]
    BY <2>1, AppendElements
  <2> QED
    BY <2>1, <2>2 DEF HasOp
<1>3. ASSUME e.op = op PROVE HasOp(Append(t, e), op)
  <2>1. Len(t) + 1 \in DOMAIN Append(t, e) /\ Append(t, e)[Len(t) + 1] = e
    BY AppendElements
  <2> QED
    BY <1>3, <2>1 DEF HasOp
<1> QED
  BY <1>1, <1>2, <1>3

(* A return keeps the shape of the stack, and leaves neither a delivery    *)
(* nor a read on it.                                                       *)
LEMMA ShapeTail ==
  ASSUME NEW S, NEW t \in Seq(S), t # <<>>, Shape(t)
  PROVE  /\ Shape(Tail(t))
         /\ ~HasOp(Tail(t), "deliver") /\ ~HasOp(Tail(t), "read")
<1>1. \A i \in DOMAIN Tail(t) : /\ i + 1 \in DOMAIN t /\ i + 1 # 1
                                /\ Tail(t)[i] = t[i + 1]
  BY TailElements
<1>2. \A i \in DOMAIN Tail(t) : Tail(t)[i].op \notin {"deliver", "read"}
  BY <1>1 DEF Shape
<1>3. ASSUME NEW i \in DOMAIN Tail(t), NEW j \in DOMAIN Tail(t), i < j,
             Tail(t)[i].op \in {"read"} \cup Bottom
      PROVE  Tail(t)[j].op \in Bottom
  <2>1. i + 1 < j + 1
    BY <1>3, TailElements
  <2> QED
    BY <1>1, <1>3, <2>1 DEF Shape
<1> QED
  BY <1>2, <1>3 DEF Shape, HasOp

(* A call that replaces itself by what it still has to do keeps the shape, *)
(* if what it leaves is itself well shaped and may stand there.            *)
LEMMA ShapeCall ==
  ASSUME NEW S, NEW t \in Seq(S), t # <<>>, Shape(t), NEW f \in Seq(S),
         \A i \in DOMAIN f : f[i].op \notin {"deliver", "read"},
         \A i, j \in DOMAIN f : i < j /\ f[i].op \in Bottom => f[j].op \in Bottom,
         \A i \in DOMAIN f : f[i].op \in Bottom => Head(t).op \in {"read"} \cup Bottom
  PROVE  /\ Shape(f \o Tail(t))
         /\ ~HasOp(f \o Tail(t), "deliver") /\ ~HasOp(f \o Tail(t), "read")
<1> DEFINE u == Tail(t)
           n == Len(f)
<1>1. u \in Seq(S) /\ Shape(u) /\ ~HasOp(u, "deliver") /\ ~HasOp(u, "read")
  BY ShapeTail, TailElements
<1>2. Head(t).op \in {"read"} \cup Bottom => \A j \in DOMAIN u : u[j].op \in Bottom
  <2> SUFFICES ASSUME Head(t).op \in {"read"} \cup Bottom, NEW j \in DOMAIN u
               PROVE  u[j].op \in Bottom
    OBVIOUS
  <2>1. 1 \in DOMAIN t /\ j + 1 \in DOMAIN t /\ 1 < j + 1 /\ t[1] = Head(t) /\ u[j] = t[j + 1]
    BY TailElements
  <2> QED
    BY <2>1 DEF Shape
<1> HIDE DEF u
<1>3. ~HasOp(f \o u, "deliver") /\ ~HasOp(f \o u, "read")
  <2>1. ~HasOp(f, "deliver") /\ ~HasOp(f, "read")
    BY DEF HasOp
  <2> QED
    BY <1>1, <2>1, HasOpConcat
<1>4. /\ n \in Nat /\ Len(u) \in Nat /\ DOMAIN f = 1 .. n /\ DOMAIN u = 1 .. Len(u)
      /\ DOMAIN (f \o u) = 1 .. n + Len(u)
      /\ \A i \in 1 .. n : (f \o u)[i] = f[i]
      /\ \A i \in n + 1 .. n + Len(u) : (f \o u)[i] = u[i - n]
  BY <1>1, ConcatElements
<1> HIDE DEF n
<1>5. \A i \in DOMAIN (f \o u) :
         \/ i \in DOMAIN f /\ (f \o u)[i] = f[i]
         \/ i \in n + 1 .. n + Len(u) /\ i - n \in DOMAIN u /\ (f \o u)[i] = u[i - n]
  <2> SUFFICES ASSUME NEW i \in 1 .. n + Len(u)
               PROVE  \/ i \in 1 .. n
                      \/ i \in n + 1 .. n + Len(u) /\ i - n \in 1 .. Len(u)
    BY <1>4
  <2> QED
    BY <1>4
<1>6. ASSUME NEW i \in DOMAIN (f \o u), NEW j \in DOMAIN (f \o u), i < j,
             (f \o u)[i].op \in {"read"} \cup Bottom
      PROVE  (f \o u)[j].op \in Bottom
  <2>1. CASE i \in DOMAIN f /\ j \in DOMAIN f
    <3>1. (f \o u)[i] = f[i] /\ (f \o u)[j] = f[j]
      BY <2>1, <1>4, <1>5
    <3> QED
      BY <1>6, <2>1, <3>1
  <2>2. CASE i \in DOMAIN f /\ j \notin DOMAIN f
    <3>1. (f \o u)[i] = f[i]
      BY <2>2, <1>4, <1>5
    <3>2. f[i].op \in Bottom
      BY <3>1, <2>2, <1>6
    <3> QED
      BY <3>2, <2>2, <1>2, <1>4
  <2>3. CASE i \notin DOMAIN f
    <3>1. /\ i - n \in DOMAIN u /\ (f \o u)[i] = u[i - n]
          /\ j - n \in DOMAIN u /\ (f \o u)[j] = u[j - n]
          /\ i - n < j - n
      BY <2>3, <1>6, <1>4, <1>5
    <3> QED
      BY <3>1, <1>1, <1>6 DEF Shape
  <2> QED
    BY <2>1, <2>2, <2>3
<1> QED
  BY <1>3, <1>6 DEF Shape, HasOp, u

(* processBufferedRequests() calls deliverResponse() directly for a        *)
(* request that the pool or the parser refuses: the shape is kept.         *)
LEMMA ShapePush ==
  ASSUME NEW S, NEW t \in Seq(S), t # <<>>, Shape(t), Head(t).op = "process",
         NEW e \in S, e.op = "deliver"
  PROVE  /\ Shape(<<e>> \o t)
         /\ Head(<<e>> \o t) = e
         /\ ~HasOp(t, "deliver") /\ ~HasOp(t, "read")
<1>1. ~HasOp(t, "deliver") /\ ~HasOp(t, "read")
  BY ShapeTail, HasOpTail
<1>2. /\ DOMAIN (<<e>> \o t) = 1 .. 1 + Len(t)
      /\ (<<e>> \o t)[1] = e
      /\ Len(t) \in Nat /\ DOMAIN t = 1 .. Len(t)
      /\ \A i \in 2 .. 1 + Len(t) : i - 1 \in DOMAIN t /\ (<<e>> \o t)[i] = t[i - 1]
  <2>1. <<e>> \in Seq(S) /\ Len(<<e>>) = 1 /\ <<e>>[1] = e
    OBVIOUS
  <2> QED
    BY <2>1, ConcatElements
<1>3. \A i \in DOMAIN (<<e>> \o t) : (<<e>> \o t)[i].op \in {"deliver", "read"} => i = 1
  BY <1>1, <1>2 DEF HasOp
<1>4. ASSUME NEW i \in DOMAIN (<<e>> \o t), NEW j \in DOMAIN (<<e>> \o t), i < j,
             (<<e>> \o t)[i].op \in {"read"} \cup Bottom
      PROVE  (<<e>> \o t)[j].op \in Bottom
  <2>1. i # 1
    BY <1>2, <1>4 DEF Bottom
  <2>2. i - 1 \in DOMAIN t /\ j - 1 \in DOMAIN t /\ i - 1 < j - 1
        /\ (<<e>> \o t)[i] = t[i - 1] /\ (<<e>> \o t)[j] = t[j - 1]
    BY <1>2, <1>4, <2>1
  <2> QED
    BY <2>2, <1>4 DEF Shape
<1>5. Head(<<e>> \o t) = e
  BY <1>2
<1> QED
  BY <1>1, <1>3, <1>4, <1>5 DEF Shape

(* A sequence of more than one element has a tail that is not empty.       *)
LEMMA LongTail ==
  ASSUME NEW S, NEW s \in Seq(S), Len(s) > 1
  PROVE  Tail(s) # <<>>
<1> DEFINE t == Tail(s)
<1>1. t \in Seq(S) /\ Len(t) = Len(s) - 1
  BY HeadTailProperties
<1> HIDE DEF t
<1>2. Len(t) # 0
  BY <1>1
<1>3. t # <<>>
  BY <1>2
<1> QED
  BY <1>3 DEF t

(* Every frame and every functor the actions make is well typed.           *)
LEMMA FramesTyped ==
    /\ \A op \in {"drain", "process", "maybeClose", "read", "write", "shutdown", "close"} :
          Frame(op) \in Frames
    /\ \A n \in Nat : DeliverFrame(n) \in Frames
    /\ \A op \in {"establish", "guard", "deliver", "force", "shutdown"}, n \in Nat, c \in BOOLEAN :
          Functor(op, n, c) \in Functors
  BY DEF Frame, DeliverFrame, Functor, Frames, Functors

(* handleClose() keeps the types, and closed_ goes with a cause.           *)
LEMMA CloseTyped ==
  ASSUME TypeOK, NEW why \in {"drained", "refused", "forced", "error"},
         HandleClose(why)
  PROVE  /\ closed' \in BOOLEAN /\ added' \in BOOLEAN
         /\ events' \subseteq {"in", "out"}
         /\ events' # {} => added'
         /\ cause' \in {"open", "drained", "refused", "forced", "error"}
         /\ closed' <=> cause' # "open"
         /\ sendQueue' \in Seq(Items)
         /\ functors' \in Seq(Functors)
<1>1. Append(functors, Functor("guard", 0, FALSE)) \in Seq(Functors)
  BY FramesTyped, AppendProperties DEF TypeOK, CloseType, OutType, LoopType, PeerType
<1>2. <<>> \in Seq(Items)
  OBVIOUS
<1>3. CASE closed
  BY <1>3 DEF HandleClose, closeVars,
    TypeOK, CloseType, OutType, LoopType, PeerType
<1>4. CASE ~closed
  BY <1>4, <1>1, <1>2 DEF HandleClose, GuardFunctors,
    TypeOK, CloseType, OutType, LoopType, PeerType
<1> QED
  BY <1>3, <1>4

(* A return keeps the stack well typed.                                    *)
LEMMA ReturnTyped == TypeOK /\ todo # <<>> /\ Return => todo' \in Seq(Frames)
  BY HeadTailProperties DEF Return,
    TypeOK, CloseType, OutType, LoopType, PeerType

(* An open connection whose callbacks run is in epoll.                     *)
LEMMA OpenMeansAdded == LifeInv /\ ~closed /\ todo # <<>> => added
  BY DEF LifeInv

(* send() and sendFile() keep the types, on every one of their paths.      *)
LEMMA SendTyped ==
  ASSUME TypeOK, LifeInv, todo # <<>>, NEW seq \in Nat, NEW final \in BOOLEAN,
         Send(seq, final)
  PROVE  /\ space' \in BOOLEAN /\ outEdge' \in BOOLEAN
         /\ closed' \in BOOLEAN /\ added' \in BOOLEAN
         /\ events' \subseteq {"in", "out"}
         /\ events' # {} => added'
         /\ cause' \in {"open", "drained", "refused", "forced", "error"}
         /\ closed' <=> cause' # "open"
         /\ sending' \in BOOLEAN
         /\ sendQueue' \in Seq(Items)
         /\ wire' \in Seq(Nat)
         /\ functors' \in Seq(Functors)
<1>1. PICK short \in BOOLEAN :
        \/ closed /\ UNCHANGED <<space, outEdge, closeVars, functors, outVars>>
        \/ /\ ~closed
           /\ Queue(Item(seq, final, short))
           /\ UNCHANGED <<space, outEdge, closeVars, functors, sending, wire>>
        \/ ~closed /\ SendShort(Item(seq, final, short))
        \/ ~closed /\ SendWhole(Item(seq, final, short))
        \/ ~closed /\ SendBlocked(Item(seq, final, short))
        \/ HandleClose("error") /\ UNCHANGED <<space, outEdge, sending, wire>>
  BY DEF Send
<1>2. Append(sendQueue, Item(seq, final, short)) \in Seq(Items)
  <2>1. Item(seq, final, short) \in Items
    BY DEF Item, Items
  <2> QED
    BY <2>1, AppendProperties DEF TypeOK, CloseType, OutType, LoopType, PeerType
<1>3. Append(wire, seq) \in Seq(Nat)
  BY AppendProperties DEF TypeOK, CloseType, OutType, LoopType, PeerType
<1>4. Item(seq, final, short).final = final /\ Item(seq, final, short).seq = seq
  BY DEF Item
<1>5. ~closed => added
  BY OpenMeansAdded
<1>6. CASE closed /\ UNCHANGED <<space, outEdge, closeVars, functors, outVars>>
  BY <1>6 DEF closeVars, outVars,
    TypeOK, CloseType, OutType, LoopType, PeerType
<1>7. CASE /\ ~closed
           /\ Queue(Item(seq, final, short))
           /\ UNCHANGED <<space, outEdge, closeVars, functors, sending, wire>>
  BY <1>7, <1>2 DEF Queue, closeVars,
    TypeOK, CloseType, OutType, LoopType, PeerType, Items
<1>8. CASE ~closed /\ SendShort(Item(seq, final, short))
  BY <1>8, <1>2, <1>5 DEF SendShort, Queue, EnableWriting,
    TypeOK, CloseType, OutType, LoopType, PeerType, Items
<1>9. CASE ~closed /\ SendWhole(Item(seq, final, short))
  BY <1>9, <1>3, <1>4 DEF SendWhole, Write, closeVars,
    TypeOK, CloseType, OutType, LoopType, PeerType
<1>10. CASE ~closed /\ SendBlocked(Item(seq, final, short))
  BY <1>10, <1>2, <1>5 DEF SendBlocked, Queue, EnableWriting,
    TypeOK, CloseType, OutType, LoopType, PeerType, Items
<1>11. CASE HandleClose("error") /\ UNCHANGED <<space, outEdge, sending, wire>>
  BY <1>11, CloseTyped DEF TypeOK, CloseType, OutType, LoopType, PeerType
<1> QED
  BY <1>1, <1>6, <1>7, <1>8, <1>9, <1>10, <1>11

(* Every step keeps the types: among them that inflight_ never passes      *)
(* kMaxInflight_, and that events are registered only in epoll.            *)
LEMMA TypeStep == TypeOK /\ LifeInv /\ RangeInv /\ [Next]_vars => TypeOK'
<1> SUFFICES ASSUME TypeOK, LifeInv, RangeInv, [Next]_vars PROVE TypeOK'
  OBVIOUS
<1> USE DEF TypeOK, PeerType, SeqType, CloseType, OutType, LoopType
<1>0. CASE UNCHANGED vars
  BY <1>0 DEF vars, peerVars, inputVars, seqVars, outVars, closeVars, mainVars
<1>1. CASE MaybeCloseAfterSend
  <2>1. todo' \in Seq(Frames)
    BY <1>1, ReturnTyped DEF MaybeCloseAfterSend, Top
  <2>2. CASE \E why \in {"drained", "refused"} : HandleClose(why)
    BY <1>1, <2>1, <2>2, CloseTyped
    DEF MaybeCloseAfterSend, peerVars, inputVars, seqVars, mainVars
  <2>3. CASE UNCHANGED <<closeVars, sendQueue, functors>>
    BY <1>1, <2>1, <2>3
    DEF MaybeCloseAfterSend, peerVars, inputVars, seqVars, mainVars, closeVars
  <2> QED
    BY <1>1, <2>2, <2>3 DEF MaybeCloseAfterSend
<1>2. CASE Shutdown
  <2>1. todo' \in Seq(Frames)
    BY <1>2, ReturnTyped DEF Shutdown, Top
  <2>2. CASE HandleClose("drained")
    BY <1>2, <2>1, <2>2, CloseTyped
    DEF Shutdown, inputVars, seqVars, mainVars
  <2>3. CASE /\ events' = events \ {"in"}
             /\ UNCHANGED <<closed, cause, added, sendQueue, functors>>
    BY <1>2, <2>1, <2>3 DEF Shutdown, inputVars, seqVars, mainVars
  <2> QED
    BY <1>2, <2>2, <2>3 DEF Shutdown
<1>3. CASE Close
  <2>1. todo' \in Seq(Frames)
    BY <1>3, ReturnTyped DEF Close, Top
  <2> QED
    BY <1>3, <2>1, CloseTyped DEF Close, peerVars, inputVars, seqVars, mainVars
<1>4. CASE DeliverResponse
  <2>0. /\ todo # <<>> /\ Head(todo).op = "deliver"
        /\ \/ closed /\ Return /\ UNCHANGED <<inflight, pendingResp>>
           \/ /\ ~closed
              /\ inflight' = InflightAfter
              /\ pendingResp' = IF Head(todo).seq >= nextSendSeq
                                THEN pendingResp \cup {Head(todo).seq}
                                ELSE pendingResp
              /\ todo' = AfterDeliver \o Tail(todo)
    BY <1>4 DEF DeliverResponse, Top, Call
  <2>1. /\ UNCHANGED <<peerVars, inputVars, nextReqSeq, nextSendSeq, outVars>>
        /\ UNCHANGED <<closeVars, closeAfterSend, working, functors, mainVars>>
    BY <1>4 DEF DeliverResponse
  <2>2. inflight' \in 0 .. kMaxInflight
    BY <2>0 DEF InflightAfter
  <2>3. pendingResp' \subseteq 0 .. nextReqSeq - 1
    <3>1. Head(todo).seq \in 0 .. nextReqSeq - 1
      <4>1. Head(todo).seq \in Delivers(todo)
        BY <2>0 DEF Delivers
      <4> QED
        BY <4>1 DEF RangeInv, AtWork
    <3> QED
      BY <2>0, <3>1
  <2>4. todo' \in Seq(Frames)
    <3>1. AfterDeliver \in Seq(Frames)
      BY FramesTyped DEF AfterDeliver
    <3>2. Tail(todo) \in Seq(Frames)
      BY <2>0, HeadTailProperties
    <3>3. AfterDeliver \o Tail(todo) \in Seq(Frames)
      BY <3>1, <3>2, ConcatProperties
    <3> QED
      BY <2>0, <3>3, ReturnTyped
  <2> QED
    BY <2>1, <2>2, <2>3, <2>4
    DEF peerVars, inputVars, outVars, closeVars, mainVars
<1>5. CASE Drain
  <2>1. CASE NextToSend = {}
    <3>1. todo' \in Seq(Frames)
      BY <1>5, <2>1, ReturnTyped DEF Drain, Top
    <3>2. /\ UNCHANGED <<seqVars, space, outEdge, closeVars, functors, outVars>>
          /\ UNCHANGED <<sock, peer, inEdge, asked, owesBody, inputVars,
                        closeAfterSend, working, mainVars>>
      BY <1>5, <2>1 DEF Drain
    <3> QED
      BY <3>1, <3>2 DEF inputVars, outVars, closeVars, mainVars, seqVars
  <2>2. CASE NextToSend # {}
    <3>1. PICK n \in NextToSend :
            /\ Send(n, TRUE)
            /\ pendingResp' = pendingResp \ {n}
            /\ nextSendSeq' = nextSendSeq + 1
            /\ UNCHANGED <<nextReqSeq, inflight, todo>>
      BY <1>5, <2>2 DEF Drain
    <3>2. n = nextSendSeq /\ n \in 0 .. nextReqSeq - 1
      BY DEF NextToSend
    <3>3. n \in Nat
      BY <3>2
    <3>4. todo # <<>>
      BY <1>5 DEF Drain, Top
    <3>5. nextSendSeq' \in 0 .. nextReqSeq'
      BY <3>1, <3>2
    <3> QED
      BY <1>5, <3>1, <3>3, <3>4, <3>5, SendTyped DEF Drain, inputVars, mainVars
  <2> QED
    BY <2>1, <2>2
<1>6. CASE ProcessEnd
  <2>1. todo' \in Seq(Frames)
    BY <1>6, ReturnTyped DEF ProcessEnd, Top
  <2> QED
    BY <1>6, <2>1
    DEF ProcessEnd, peerVars, inputVars, seqVars, outVars, closeVars, mainVars
<1>7. ASSUME UNCHANGED <<peerVars, closeVars, mainVars>>,
             UNCHANGED <<nextSendSeq, pendingResp>>,
             NextRequestSeq, MoreInPool,
             buffer' \in Seq(Kinds \cup {"req", "body", "err"}), ctxBody' = FALSE,
             closeAfterSend' \in BOOLEAN,
             working' \subseteq working \cup {nextReqSeq},
             UNCHANGED <<outVars, functors>>,
             todo' \in Seq(Frames)
      PROVE  TypeOK'
  <2>1. nextReqSeq' = nextReqSeq + 1 /\ inflight' = inflight + 1
    BY <1>7 DEF NextRequestSeq
  <2>2. inflight' \in 0 .. kMaxInflight
    BY <2>1, <1>7 DEF MoreInPool
  <2>3. working' \subseteq 0 .. nextReqSeq' - 1
    BY <2>1, <1>7
  <2>4. pendingResp' \subseteq 0 .. nextReqSeq' - 1
    BY <2>1, <1>7
  <2>5. nextReqSeq' \in Nat /\ nextSendSeq' \in 0 .. nextReqSeq'
    BY <2>1, <1>7
  <2>6. UNCHANGED <<peerVars, closeVars, mainVars, outVars, functors>>
    BY <1>7
  <2>7. /\ buffer' \in Seq(Kinds \cup {"req", "body", "err"}) /\ ctxBody' \in BOOLEAN
        /\ closeAfterSend' \in BOOLEAN /\ todo' \in Seq(Frames)
    BY <1>7
  <2>8. PeerType' /\ CloseType' /\ OutType'
    BY <2>6 DEF peerVars, closeVars, outVars
  <2>9. SeqType'
    BY <2>2, <2>3, <2>4, <2>5
  <2>10. LoopType'
    BY <2>6, <2>7 DEF mainVars
  <2> QED
    BY <2>8, <2>9, <2>10
<1>8. ASSUME MayProcess, HasRequest
      PROVE  AfterRequest \in Seq(Kinds \cup {"req", "body", "err"})
  <2>1. Tail(buffer) \in Seq(Kinds \cup {"req", "body", "err"})
    BY <1>8, HeadTailProperties DEF MayProcess
  <2>2. CASE ~ctxBody /\ Head(buffer) = "head"
    <3>1. Len(buffer) > 1 /\ buffer # <<>>
      BY <1>8, <2>2 DEF MayProcess, HasRequest
    <3>2. Tail(buffer) # <<>>
      BY <3>1, LongTail
    <3> QED
      BY <2>1, <2>2, <3>2, HeadTailProperties DEF AfterRequest
  <2> QED
    BY <2>1, <2>2 DEF AfterRequest
<1>9. DeliverFrame(nextReqSeq) \in Frames /\ <<DeliverFrame(nextReqSeq)>> \o todo \in Seq(Frames)
  <2>1. DeliverFrame(nextReqSeq) \in Frames
    BY FramesTyped
  <2>2. <<DeliverFrame(nextReqSeq)>> \in Seq(Frames)
    BY <2>1
  <2> QED
    BY <2>1, <2>2, ConcatProperties
<1>10. CASE SubmitRequest
  BY <1>7, <1>8, <1>10
  DEF SubmitRequest, MayProcess, peerVars, closeVars, mainVars, outVars, NextRequestSeq
<1>11. CASE \E http11 \in BOOLEAN : RejectRequest(http11)
  BY <1>7, <1>8, <1>9, <1>11
  DEF RejectRequest, MayProcess, peerVars, closeVars, mainVars, outVars, NextRequestSeq
<1>12. CASE RefuseRequest
  <2>1. AfterError \subseteq Seq(Kinds \cup {"req", "body", "err"})
    <3>1. Tail(buffer) \in Seq(Kinds \cup {"req", "body", "err"})
      BY <1>12, HeadTailProperties DEF MayProcess, RefuseRequest
    <3> DEFINE S == Seq(Kinds \cup {"req", "body", "err"})
    <3>2. <<>> \in S
      BY EmptySeq
    <3>3. Leftovers \subseteq S
      BY BoundsAssumption
    <3>4. BytesLeft \subseteq S
      BY <3>2, <3>3, Zenon DEF BytesLeft
    <3> HIDE DEF S
    <3>5. \A left \in BytesLeft : left \o Tail(buffer) \in S
      <4> TAKE left \in BytesLeft
      <4>1. left \in S /\ Tail(buffer) \in S
        BY <3>1, <3>4 DEF S
      <4> QED
        BY <4>1, ConcatProperties DEF S
    <3> QED
      BY <3>5, Zenon DEF AfterError, S
  <2> QED
    BY <1>7, <1>9, <1>12, <2>1
    DEF RefuseRequest, MayProcess, peerVars, closeVars, mainVars, outVars, NextRequestSeq
<1>13. CASE SendContinue
  <2>1. /\ Send(nextReqSeq, FALSE) /\ todo # <<>> /\ buffer # <<>>
        /\ buffer' = Tail(buffer) /\ ctxBody' = TRUE
        /\ closeAfterSend' = (closeAfterSend \/ isShutdown)
        /\ UNCHANGED <<sock, peer, inEdge, asked, owesBody, seqVars, working,
                       mainVars, todo>>
    BY <1>13 DEF SendContinue, Top, MayProcess
  <2>2. Tail(buffer) \in Seq(Kinds \cup {"req", "body", "err"})
    BY <2>1, HeadTailProperties
  <2> QED
    BY <2>1, <2>2, SendTyped DEF seqVars, mainVars
<1>14. CASE Dispatch
  <2>1. todo' \in Seq(Frames)
    <3> DEFINE P(b, op) == IF b THEN <<Frame(op)>> ELSE <<>>
    <3>1. \A b \in BOOLEAN, op \in {"read", "write", "close"} :
             P(b, op) \in Seq(Frames)
      BY FramesTyped
    <3>2. PICK i \in BOOLEAN, o \in BOOLEAN, e \in BOOLEAN :
             todo' = P(i, "read") \o P(o, "write") \o P(e, "close")
      BY <1>14 DEF Dispatch
    <3> HIDE DEF P
    <3>3. P(i, "read") \o P(o, "write") \in Seq(Frames)
      BY <3>1, ConcatProperties
    <3> QED
      BY <3>1, <3>2, <3>3, ConcatProperties
  <2> QED
    BY <1>14, <2>1
    DEF Dispatch, inputVars, seqVars, outVars, closeVars, mainVars
<1>15. CASE HandleRead
  <2>1. buffer' \in Seq(Kinds \cup {"req", "body", "err"})
    <3>1. sock \in Seq(Kinds \cup {"req", "body", "err"})
      OBVIOUS
    <3> QED
      BY <1>15, <3>1, ConcatProperties DEF HandleRead
  <2>2. todo' \in Seq(Frames)
    <3>1. <<Frame("process")>> \in Seq(Frames) /\ AfterRead \in Seq(Frames)
      BY FramesTyped DEF AfterRead, TypeOK, PeerType
    <3>2. Tail(todo) \in Seq(Frames)
      BY <1>15, HeadTailProperties DEF HandleRead, Top
    <3>3. <<Frame("process")>> \o AfterRead \in Seq(Frames)
      BY <3>1, ConcatProperties
    <3> QED
      BY <1>15, <3>2, <3>3, ConcatProperties DEF HandleRead, Call
  <2> QED
    BY <1>15, <2>1, <2>2
    DEF HandleRead, seqVars, outVars, closeVars, mainVars
<1>16. CASE HandleWriteEmpty
  <2>1. todo' \in Seq(Frames)
    <3>1. AfterFlush \in Seq(Frames)
      BY FramesTyped DEF AfterFlush
    <3>2. Tail(todo) \in Seq(Frames)
      BY <1>16, HeadTailProperties DEF HandleWriteEmpty, Top
    <3> QED
      BY <1>16, <3>1, <3>2, ConcatProperties DEF HandleWriteEmpty, Call
  <2>2. /\ sending' = FALSE
        /\ UNCHANGED <<peerVars, inputVars, seqVars, sendQueue, wire, closeVars,
                       closeAfterSend, working, functors, mainVars>>
    BY <1>16 DEF HandleWriteEmpty
  <2>3. PeerType'
    BY <2>1, <2>2 DEF peerVars, inputVars, seqVars, closeVars, mainVars
  <2>4. SeqType'
    BY <2>1, <2>2 DEF peerVars, inputVars, seqVars, closeVars, mainVars
  <2>5. CloseType'
    BY <2>1, <2>2 DEF peerVars, inputVars, seqVars, closeVars, mainVars
  <2>6. OutType'
    BY <2>1, <2>2 DEF peerVars, inputVars, seqVars, closeVars, mainVars
  <2>7. LoopType'
    BY <2>1, <2>2 DEF peerVars, inputVars, seqVars, closeVars, mainVars
  <2> QED
    BY <2>3, <2>4, <2>5, <2>6, <2>7
<1>17. CASE WriteItem
  <2>0. sendQueue \in Seq(Items) /\ sendQueue # <<>> /\ sendQueue' = Tail(sendQueue)
    BY <1>17 DEF WriteItem
  <2>1. Head(sendQueue).seq \in Nat /\ sendQueue' \in Seq(Items)
    <3>1. Head(sendQueue) \in Items /\ Tail(sendQueue) \in Seq(Items)
      BY <2>0, HeadTailProperties
    <3> QED
      BY <2>0, <3>1 DEF Items
  <2>2. wire' \in Seq(Nat)
    BY <1>17, <2>1, AppendProperties DEF WriteItem, Write
  <2>3. UNCHANGED <<peerVars, inputVars, seqVars, sending, closeVars,
                    closeAfterSend, working, functors, mainVars, todo>>
    BY <1>17 DEF WriteItem
  <2> QED
    BY <2>1, <2>2, <2>3 DEF peerVars, inputVars, seqVars, closeVars, mainVars
<1>18. CASE WritePart
  <2>1. todo' \in Seq(Frames)
    BY <1>18, ReturnTyped DEF WritePart, Top
  <2>2. PeerType'
    BY <1>18, <2>1 DEF WritePart, inputVars, seqVars, outVars, closeVars, mainVars
  <2>3. SeqType'
    BY <1>18, <2>1 DEF WritePart, inputVars, seqVars, outVars, closeVars, mainVars
  <2>4. CloseType'
    BY <1>18, <2>1 DEF WritePart, inputVars, seqVars, outVars, closeVars, mainVars
  <2>5. OutType'
    BY <1>18, <2>1 DEF WritePart, inputVars, seqVars, outVars, closeVars, mainVars
  <2>6. LoopType'
    BY <1>18, <2>1 DEF WritePart, inputVars, seqVars, outVars, closeVars, mainVars
  <2> QED
    BY <2>2, <2>3, <2>4, <2>5, <2>6
<1>19. CASE WriteShort
  <2>1. todo' \in Seq(Frames)
    BY <1>19, ReturnTyped DEF WriteShort, Top
  <2> QED
    BY <1>19, <2>1
    DEF WriteShort, peerVars, inputVars, seqVars, outVars, closeVars, mainVars
<1>20. CASE WriteFails
  <2>1. todo' \in Seq(Frames)
    BY <1>20, ReturnTyped DEF WriteFails, Top
  <2> QED
    BY <1>20, <2>1, CloseTyped
    DEF WriteFails, peerVars, inputVars, seqVars, mainVars
<1>21. CASE RunFunctor
  <2>1. /\ Head(functors) \in Functors /\ functors' \in Seq(Functors)
    BY <1>21, HeadTailProperties DEF RunFunctor
  <2>2. todo' \in Seq(Frames)
    BY <1>21, <2>1, FramesTyped DEF RunFunctor, Functors
  <2>3. closeAfterSend' \in BOOLEAN
    BY <1>21, <2>1 DEF RunFunctor, Functors
  <2>4. UNCHANGED <<peerVars, inputVars, seqVars, outVars, closed, cause,
                   working, mainVars>>
    BY <1>21 DEF RunFunctor
  <2>5. \/ added' = TRUE /\ events' = {"in"}
        \/ UNCHANGED <<added, events>>
    BY <1>21 DEF RunFunctor
  <2>6. PeerType'
    BY <2>1, <2>2, <2>3, <2>4, <2>5
    DEF peerVars, inputVars, seqVars, outVars, mainVars
  <2>7. SeqType'
    BY <2>1, <2>2, <2>3, <2>4, <2>5
    DEF peerVars, inputVars, seqVars, outVars, mainVars
  <2>8. CloseType'
    BY <2>1, <2>2, <2>3, <2>4, <2>5
    DEF peerVars, inputVars, seqVars, outVars, mainVars
  <2>9. OutType'
    BY <2>1, <2>2, <2>3, <2>4, <2>5
    DEF peerVars, inputVars, seqVars, outVars, mainVars
  <2>10. LoopType'
    BY <2>1, <2>2, <2>3, <2>4, <2>5
    DEF peerVars, inputVars, seqVars, outVars, mainVars
  <2> QED
    BY <2>6, <2>7, <2>8, <2>9, <2>10
<1>22. CASE \E kind \in Kinds \cup {"body"} : PeerSends(kind)
  <2>1. sock' \in Seq(Kinds \cup {"body"})
    BY <1>22, AppendProperties DEF PeerSends
  <2>2. asked' \in 0 .. MaxRequests
    BY <1>22 DEF PeerSends
  <2> QED
    BY <1>22, <2>1, <2>2
    DEF PeerSends, inputVars, seqVars, outVars, closeVars, mainVars
<1>23. CASE \E how \in {"fin", "reset"} : PeerStops(how)
  BY <1>23 DEF PeerStops, inputVars, seqVars, outVars, closeVars, mainVars
<1>24. CASE PeerReads
  BY <1>24 DEF PeerReads, inputVars, seqVars, outVars, closeVars, mainVars
<1>25. CASE Worker
  <2>1. PICK n \in working, close \in BOOLEAN : WorkerDone(n, close)
    BY <1>25 DEF Worker
  <2>2. Functor("deliver", n, close \/ isShutdown) \in Functors
    BY FramesTyped
  <2>3. functors' \in Seq(Functors)
    BY <2>1, <2>2, AppendProperties DEF WorkerDone
  <2>4. /\ working' \subseteq working
        /\ UNCHANGED <<peerVars, inputVars, seqVars, outVars, closeVars,
                       closeAfterSend, mainVars, todo>>
    BY <2>1 DEF WorkerDone
  <2>5. PeerType' /\ SeqType' /\ CloseType' /\ OutType'
    BY <2>4 DEF peerVars, seqVars, outVars, closeVars
  <2>6. LoopType'
    BY <2>3, <2>4 DEF inputVars, mainVars
  <2> QED
    BY <2>5, <2>6
<1>26. CASE Signal
  BY <1>26 DEF Signal, peerVars, inputVars, seqVars, outVars, closeVars
<1>27. CASE \E op \in {"force", "shutdown"} : Post(op)
  <2>1. PICK op \in {"force", "shutdown"} : Post(op)
    BY <1>27
  <2>2. functors' \in Seq(Functors)
    BY <2>1, FramesTyped, AppendProperties DEF Post
  <2>3. mayPost' \subseteq {"force", "shutdown"} /\ isShutdown' = isShutdown
    BY <2>1 DEF Post
  <2>4. UNCHANGED <<peerVars, inputVars, seqVars, outVars, closeVars,
                    closeAfterSend, working, todo>>
    BY <2>1 DEF Post
  <2>5. PeerType' /\ SeqType' /\ CloseType' /\ OutType'
    BY <2>4 DEF peerVars, seqVars, outVars, closeVars
  <2>6. LoopType'
    BY <2>2, <2>3, <2>4 DEF inputVars
  <2> QED
    BY <2>5, <2>6
<1> QED
  BY <1>0, <1>1, <1>2, <1>3, <1>4, <1>5, <1>6, <1>10, <1>11, <1>12, <1>13,
     <1>14, <1>15, <1>16, <1>17, <1>18, <1>19, <1>20, <1>21, <1>22, <1>23,
     <1>24, <1>25, <1>26, <1>27
  DEF Next, IoThread, Peer, Main

-----------------------------------------------------------------------------
(* Callbacks of the bottom may follow any well-shaped stack.               *)
LEMMA ShapeConcat ==
  ASSUME NEW S, NEW f \in Seq(S), NEW g \in Seq(S), Shape(f),
         \A i \in DOMAIN g : g[i].op \in Bottom
  PROVE  Shape(f \o g)
<1>1. /\ Len(f) \in Nat /\ Len(g) \in Nat /\ DOMAIN f = 1 .. Len(f)
      /\ DOMAIN (f \o g) = 1 .. Len(f) + Len(g)
      /\ \A i \in DOMAIN (f \o g) :
            IF i <= Len(f) THEN i \in DOMAIN f /\ (f \o g)[i] = f[i]
                           ELSE (f \o g)[i].op \in Bottom
  <2>1. \A i \in Len(f) + 1 .. Len(f) + Len(g) :
           i - Len(f) \in DOMAIN g /\ (f \o g)[i] = g[i - Len(f)]
    BY ConcatElements
  <2> QED
    BY <2>1, ConcatElements
<1>2. \A i \in DOMAIN (f \o g) : (f \o g)[i].op \in {"deliver", "read"} => i = 1
  BY <1>1 DEF Shape, Bottom
<1>3. ASSUME NEW i \in DOMAIN (f \o g), NEW j \in DOMAIN (f \o g), i < j,
             (f \o g)[i].op \in {"read"} \cup Bottom
      PROVE  (f \o g)[j].op \in Bottom
  <2>1. CASE j <= Len(f)
    <3>1. i <= Len(f)
      BY <1>1, <1>3, <2>1
    <3> QED
      BY <1>1, <1>3, <2>1, <3>1 DEF Shape
  <2>2. CASE ~(j <= Len(f))
    BY <1>1, <2>2
  <2> QED
    BY <2>1, <2>2
<1> QED
  BY <1>2, <1>3 DEF Shape

(* The stack Channel::handleEvent makes of what epoll reports.             *)
LEMMA DispatchStack ==
  ASSUME Dispatch
  PROVE  /\ todo' \in Seq(Frames) /\ Shape(todo') /\ ~HasOp(todo', "deliver")
         /\ HasOp(todo', "read") <=> inEdge /\ "in" \in events
         /\ HasOp(todo', "write") <=> outEdge /\ "out" \in events
         /\ HasOp(todo', "close") <=> peer = "reset"
<1> DEFINE P(b, op) == IF b THEN <<Frame(op)>> ELSE <<>>
           i == inEdge /\ "in" \in events
           o == outEdge /\ "out" \in events
           e == peer = "reset"
           r == P(i, "read")
           w == P(o, "write")
           c == P(e, "close")
<1>1. todo' = r \o w \o c
  BY DEF Dispatch
<1>2. /\ r \in Seq(Frames) /\ w \in Seq(Frames) /\ c \in Seq(Frames)
      /\ Shape(r)
      /\ \A k \in DOMAIN w : w[k].op \in Bottom
      /\ \A k \in DOMAIN c : c[k].op \in Bottom
  BY FramesTyped DEF Shape, Bottom, Frame
<1>3. /\ HasOp(r, "read") <=> i
      /\ HasOp(w, "write") <=> o
      /\ HasOp(c, "close") <=> e
      /\ \A op : /\ HasOp(r, op) => op = "read"
                 /\ HasOp(w, op) => op = "write"
                 /\ HasOp(c, op) => op = "close"
  BY DEF HasOp, Frame
<1> HIDE DEF i, o, e, r, w, c
<1>4. r \o w \in Seq(Frames) /\ Shape(r \o w)
  BY <1>2, ShapeConcat, ConcatElements
<1>5. todo' \in Seq(Frames) /\ Shape(todo')
  BY <1>1, <1>2, <1>4, ShapeConcat, ConcatElements
<1>6. \A op : HasOp(todo', op) <=> HasOp(r, op) \/ HasOp(w, op) \/ HasOp(c, op)
  BY <1>1, <1>2, <1>4, HasOpConcat
<1> QED
  BY <1>3, <1>5, <1>6 DEF i, o, e

(* Every step, by what it does to the call stack.                          *)
LEMMA StackMoves ==
  ASSUME TypeOK, [Next]_vars
  PROVE  \/ todo' = todo
         \/ /\ todo # <<>> /\ todo' = Tail(todo)
            /\ Head(todo).op # "deliver" \/ (DeliverResponse /\ closed')
            /\ Head(todo).op = "process" => ProcessEnd
            /\ Head(todo).op = "write" => WritePart \/ WriteShort \/ WriteFails
         \/ /\ DeliverResponse /\ Top("deliver") /\ ~closed /\ ~closed'
            /\ todo' = AfterDeliver \o Tail(todo)
         \/ /\ Top("read") /\ todo' = (<<Frame("process")>> \o AfterRead) \o Tail(todo)
            /\ UNCHANGED closed
         \/ /\ HandleWriteEmpty
            /\ Top("write") /\ todo' = AfterFlush \o Tail(todo)
            /\ UNCHANGED closed
         \/ /\ Top("process") /\ ~closed /\ ~closed'
            /\ todo' = <<DeliverFrame(nextReqSeq)>> \o todo
            /\ nextReqSeq' = nextReqSeq + 1
         \/ Dispatch /\ todo = <<>> /\ added /\ UNCHANGED closed
         \/ /\ RunFunctor /\ todo = <<>> /\ functors # <<>> /\ UNCHANGED closed
            /\ todo' \in {<<>>, <<Frame("close")>>, <<Frame("shutdown")>>,
                          <<DeliverFrame(Head(functors).seq)>>}
<1>1. CASE UNCHANGED vars
  BY <1>1 DEF vars
<1>2. CASE MaybeCloseAfterSend \/ Shutdown \/ Close \/ ProcessEnd \/ WritePart \/ WriteShort \/ WriteFails
  BY <1>2 DEF MaybeCloseAfterSend, Shutdown, Close, ProcessEnd, WritePart,
     WriteShort, WriteFails, Top, Return
<1>3. CASE DeliverResponse
  BY <1>3 DEF DeliverResponse, Top, Return, Call, closeVars
<1>4. CASE Drain
  BY <1>4 DEF Drain, Top, Return
<1>5. CASE SubmitRequest \/ SendContinue \/ WriteItem
  BY <1>5 DEF SubmitRequest, SendContinue, WriteItem
<1>6. CASE RefuseRequest \/ \E http11 \in BOOLEAN : RejectRequest(http11)
  BY <1>6 DEF RefuseRequest, RejectRequest, MayProcess, closeVars, NextRequestSeq
<1>7. CASE Dispatch
  BY <1>7 DEF Dispatch, closeVars
<1>8. CASE HandleRead
  BY <1>8 DEF HandleRead, Call, closeVars
<1>9. CASE HandleWriteEmpty
  BY <1>9 DEF HandleWriteEmpty, Call, closeVars
<1>10. CASE RunFunctor
  BY <1>10 DEF RunFunctor
<1>11. CASE Peer
  BY <1>11 DEF Peer, PeerSends, PeerStops, PeerReads
<1>12. CASE Worker \/ Main
  BY <1>12 DEF Worker, WorkerDone, Main, Signal, Post
<1> QED
  BY <1>1, <1>2, <1>3, <1>4, <1>5, <1>6, <1>7, <1>8, <1>9, <1>10, <1>11, <1>12
  DEF Next, IoThread

(* Every step that closes the connection, by the cause it gives: only the  *)
(* innermost call closes it, through handleClose(), and never while it     *)
(* delivers or reads.                                                      *)
LEMMA ClosingMoves ==
  ASSUME TypeOK, ~closed, closed', [Next]_vars
  PROVE  /\ todo # <<>> /\ Head(todo).op \notin {"deliver", "read"}
         /\ todo' \in {todo, Tail(todo)}
         /\ \E why \in {"drained", "refused", "forced", "error"} : HandleClose(why)
         /\ cause' = "forced" => Top("close")
         /\ cause' \in {"drained", "refused"} => Drained
         /\ cause' = "drained" => /\ Top("shutdown") \/ (Top("maybeClose") /\ ~InProcess)
                                  /\ UNCHANGED <<buffer, wire, nextReqSeq>>
<1>0. ASSUME NEW why \in {"drained", "refused", "forced", "error"}, HandleClose(why)
      PROVE  cause' = why
  BY <1>0 DEF HandleClose
<1>s. ASSUME NEW seq, NEW final, Send(seq, final)
      PROVE  HandleClose("error")
  BY <1>s DEF Send, SendShort, SendWhole, SendBlocked, closeVars
<1>1. CASE UNCHANGED vars
  BY <1>1 DEF vars, closeVars
<1>2. CASE MaybeCloseAfterSend
  <2>1. HandleClose(IF InProcess THEN "refused" ELSE "drained") /\ Drained
    BY <1>2 DEF MaybeCloseAfterSend, closeVars
  <2>2. /\ Top("maybeClose") /\ Return
        /\ UNCHANGED <<peerVars, inputVars, seqVars, sending, wire,
                       closeAfterSend, working, mainVars>>
    BY <1>2 DEF MaybeCloseAfterSend
  <2>3. CASE InProcess
    BY <1>0, <2>1, <2>2, <2>3 DEF Top, Return
  <2>4. CASE ~InProcess
    BY <1>0, <2>1, <2>2, <2>4 DEF Top, Return, inputVars, seqVars
  <2> QED
    BY <2>3, <2>4
<1>3. CASE Shutdown
  <2>1. HandleClose("drained") /\ Drained
    BY <1>3 DEF Shutdown
  <2>2. Top("shutdown") /\ Return /\ UNCHANGED <<buffer, wire, nextReqSeq>>
    BY <1>3 DEF Shutdown, inputVars, seqVars
  <2>3. cause' = "drained"
    BY <1>0, <2>1
  <2>4. todo # <<>> /\ Head(todo).op = "shutdown" /\ todo' = Tail(todo)
    BY <2>2 DEF Top, Return
  <2>5. \E why \in {"drained", "refused", "forced", "error"} : HandleClose(why)
    BY <2>1
  <2>6. cause' = "drained" => /\ Top("shutdown") \/ (Top("maybeClose") /\ ~InProcess)
                              /\ UNCHANGED <<buffer, wire, nextReqSeq>>
    BY <2>2
  <2> QED
    BY <2>1, <2>3, <2>4, <2>5, <2>6
<1>4. CASE Close
  <2>1. Top("close") /\ Return /\ HandleClose("forced")
    BY <1>4 DEF Close
  <2> QED
    BY <1>0, <2>1 DEF Top, Return
<1>5. CASE Drain
  <2>1. Top("drain") /\ todo' \in {todo, Tail(todo)} /\ HandleClose("error")
    BY <1>5, <1>s DEF Drain, Return, closeVars
  <2> QED
    BY <1>0, <2>1 DEF Top
<1>6. CASE SendContinue
  <2>1. Top("process") /\ todo' = todo /\ HandleClose("error")
    BY <1>6, <1>s DEF SendContinue
  <2> QED
    BY <1>0, <2>1 DEF Top
<1>7. CASE WriteFails
  <2>1. Top("write") /\ Return /\ HandleClose("error")
    BY <1>7 DEF WriteFails
  <2> QED
    BY <1>0, <2>1 DEF Top, Return
<1>8. CASE DeliverResponse \/ HandleRead \/ HandleWriteEmpty \/ RunFunctor
  BY <1>8 DEF DeliverResponse, HandleRead, HandleWriteEmpty, RunFunctor, closeVars
<1>9. CASE ProcessEnd \/ SubmitRequest \/ RefuseRequest \/ \E http11 \in BOOLEAN : RejectRequest(http11)
  BY <1>9 DEF ProcessEnd, SubmitRequest, RefuseRequest, RejectRequest, closeVars
<1>10. CASE Dispatch \/ WriteItem \/ WritePart \/ WriteShort
  BY <1>10 DEF Dispatch, WriteItem, WritePart, WriteShort, closeVars
<1>11. CASE Peer
  BY <1>11 DEF Peer, PeerSends, PeerStops, PeerReads, closeVars
<1>12. CASE Worker \/ Main
  BY <1>12 DEF Worker, WorkerDone, Main, Signal, Post, closeVars
<1> QED
  BY <1>1, <1>2, <1>3, <1>4, <1>5, <1>6, <1>7, <1>8, <1>9, <1>10, <1>11, <1>12
  DEF Next, IoThread

(* The stacks a functor starts with are well shaped.                       *)
LEMMA NewFrames ==
  /\ \A n \in Nat : /\ Shape(<<DeliverFrame(n)>>)
                    /\ ~HasOp(<<DeliverFrame(n)>>, "read")
  /\ \A op \in {"close", "shutdown"} : /\ Shape(<<Frame(op)>>)
                                       /\ ~HasOp(<<Frame(op)>>, "read")
                                       /\ ~HasOp(<<Frame(op)>>, "deliver")
  /\ Shape(<<>>) /\ \A op : ~HasOp(<<>>, op)
  BY DEF Shape, HasOp, Frame, DeliverFrame, Bottom

(* deliverResponse(), handleRead() and handleWrite() put the calls they    *)
(* make in their own place on the stack.                                   *)
LEMMA CallsShaped ==
  ASSUME TypeOK, Shape(todo), todo # <<>>
  PROVE  /\ Top("deliver") => /\ Shape(AfterDeliver \o Tail(todo))
                              /\ ~HasOp(AfterDeliver \o Tail(todo), "deliver")
                              /\ ~HasOp(AfterDeliver \o Tail(todo), "read")
         /\ Top("read") =>
               LET t == (<<Frame("process")>> \o AfterRead) \o Tail(todo)
               IN  Shape(t) /\ ~HasOp(t, "deliver") /\ ~HasOp(t, "read")
         /\ Top("write") => /\ Shape(AfterFlush \o Tail(todo))
                            /\ ~HasOp(AfterFlush \o Tail(todo), "deliver")
                            /\ ~HasOp(AfterFlush \o Tail(todo), "read")
<1>1. todo \in Seq(Frames)
  BY DEF TypeOK, LoopType
<1>2. /\ AfterDeliver \in Seq(Frames)
      /\ \A i \in DOMAIN AfterDeliver :
            AfterDeliver[i].op \notin {"deliver", "read"} \cup Bottom
  BY FramesTyped DEF AfterDeliver, Frame, Bottom
<1>3. /\ AfterFlush \in Seq(Frames)
      /\ \A i \in DOMAIN AfterFlush :
            AfterFlush[i].op \notin {"deliver", "read"} \cup Bottom
  BY FramesTyped DEF AfterFlush, Frame, Bottom
<1>4. /\ <<Frame("process")>> \o AfterRead \in Seq(Frames)
      /\ \A i \in DOMAIN (<<Frame("process")>> \o AfterRead) :
            (<<Frame("process")>> \o AfterRead)[i].op \notin {"deliver", "read"}
      /\ \A i, j \in DOMAIN (<<Frame("process")>> \o AfterRead) :
            i < j => (<<Frame("process")>> \o AfterRead)[j].op \in Bottom
  <2> DEFINE p == <<Frame("process")>>
             a == AfterRead
  <2>1. /\ p \in Seq(Frames) /\ Len(p) = 1 /\ p[1].op = "process"
        /\ a \in Seq(Frames) /\ Len(a) \in {0, 1}
        /\ \A i \in 1 .. Len(a) : a[i].op \in {"shutdown", "close"}
    BY FramesTyped DEF AfterRead, TypeOK, PeerType, Frame
  <2> HIDE DEF p, a
  <2>2. /\ p \o a \in Seq(Frames)
        /\ DOMAIN (p \o a) = 1 .. 1 + Len(a)
        /\ (p \o a)[1] = p[1]
        /\ \A i \in 2 .. 1 + Len(a) : (p \o a)[i] = a[i - 1]
    <3>1. /\ p \o a \in Seq(Frames)
          /\ DOMAIN (p \o a) = 1 .. Len(p) + Len(a)
          /\ \A i \in 1 .. Len(p) : (p \o a)[i] = p[i]
          /\ \A i \in Len(p) + 1 .. Len(p) + Len(a) : (p \o a)[i] = a[i - Len(p)]
      <4>1. p \in Seq(Frames) /\ a \in Seq(Frames)
        BY <2>1
      <4> QED
        BY ONLY <4>1, ConcatElements
    <3> QED
      BY <2>1, <3>1
  <2>3. \A i \in DOMAIN (p \o a) : i = 1 \/ (p \o a)[i].op \in {"shutdown", "close"}
    BY <2>1, <2>2
  <2> QED
    BY <2>1, <2>2, <2>3 DEF p, a, Bottom
<1>5. Top("deliver") => /\ Shape(AfterDeliver \o Tail(todo))
                        /\ ~HasOp(AfterDeliver \o Tail(todo), "deliver")
                        /\ ~HasOp(AfterDeliver \o Tail(todo), "read")
  BY <1>1, <1>2, ShapeCall
<1>6. Top("write") => /\ Shape(AfterFlush \o Tail(todo))
                      /\ ~HasOp(AfterFlush \o Tail(todo), "deliver")
                      /\ ~HasOp(AfterFlush \o Tail(todo), "read")
  BY <1>1, <1>3, ShapeCall
<1>7. ASSUME Top("read")
      PROVE  LET t == (<<Frame("process")>> \o AfterRead) \o Tail(todo)
             IN  Shape(t) /\ ~HasOp(t, "deliver") /\ ~HasOp(t, "read")
  <2>1. Head(todo).op = "read"
    BY <1>7 DEF Top
  <2> DEFINE f == <<Frame("process")>> \o AfterRead
  <2>2. /\ f \in Seq(Frames)
        /\ \A i \in DOMAIN f : f[i].op \notin {"deliver", "read"}
        /\ \A i, j \in DOMAIN f : i < j => f[j].op \in Bottom
    BY <1>4
  <2> HIDE DEF f
  <2>3. Shape(f \o Tail(todo)) /\ ~HasOp(f \o Tail(todo), "deliver")
        /\ ~HasOp(f \o Tail(todo), "read")
    BY <1>1, <2>1, <2>2, ShapeCall
  <2> QED
    BY <2>3 DEF f
<1> QED
  BY <1>5, <1>6, <1>7

(* Every step keeps the shape of the stack.                                *)
LEMMA StackStep ==
  ASSUME TypeOK, StackInv, LifeInv, [Next]_vars PROVE StackInv'
<1>1. todo \in Seq(Frames) /\ functors \in Seq(Functors) /\ nextReqSeq \in Nat
  BY DEF TypeOK, LoopType, SeqType
<1>2. Shape(todo)
  BY DEF StackInv
<1>3. CASE ~closed /\ closed'
  <2>1. /\ todo # <<>> /\ Head(todo).op \notin {"deliver", "read"}
        /\ todo' \in {todo, Tail(todo)}
    BY <1>3, ClosingMoves
  <2>2. Shape(Tail(todo)) /\ ~HasOp(Tail(todo), "read") /\ ~HasOp(todo, "read")
    BY <1>1, <1>2, <2>1, ShapeTail, HasOpTail
  <2> QED
    BY <1>2, <2>1, <2>2 DEF StackInv
<1>4. CASE ~(~closed /\ closed')
  <2>0. closed' => ~HasOp(todo, "read")
    BY <1>4 DEF StackInv
  <2>1. CASE todo' = todo
    BY <1>2, <2>0, <2>1 DEF StackInv
  <2>2. CASE todo # <<>> /\ todo' = Tail(todo)
    BY <1>1, <1>2, <2>2, ShapeTail DEF StackInv
  <2>3. CASE Top("deliver") /\ todo' = AfterDeliver \o Tail(todo)
    BY <1>2, <2>3, CallsShaped DEF StackInv, Top
  <2>4. CASE Top("read") /\ todo' = (<<Frame("process")>> \o AfterRead) \o Tail(todo)
    BY <1>2, <2>4, CallsShaped DEF StackInv, Top
  <2>5. CASE Top("write") /\ todo' = AfterFlush \o Tail(todo)
    BY <1>2, <2>5, CallsShaped DEF StackInv, Top
  <2>6. CASE /\ Top("process") /\ ~closed'
             /\ todo' = <<DeliverFrame(nextReqSeq)>> \o todo
    <3>1. DeliverFrame(nextReqSeq) \in Frames /\ DeliverFrame(nextReqSeq).op = "deliver"
      BY <1>1, FramesTyped DEF DeliverFrame
    <3>2. Shape(<<DeliverFrame(nextReqSeq)>> \o todo)
      BY <1>1, <1>2, <2>6, <3>1, ShapePush DEF Top
    <3> QED
      BY <2>6, <3>2 DEF StackInv
  <2>7. CASE Dispatch /\ added /\ UNCHANGED closed
    BY <2>7, DispatchStack DEF StackInv, LifeInv
  <2>8. CASE /\ functors # <<>>
             /\ todo' \in {<<>>, <<Frame("close")>>, <<Frame("shutdown")>>,
                           <<DeliverFrame(Head(functors).seq)>>}
    <3>1. Head(functors).seq \in Nat
      <4>1. Head(functors) \in Functors
        BY <1>1, <2>8, TailElements
      <4> QED
        BY <4>1 DEF Functors
    <3> QED
      BY <2>8, <3>1, NewFrames DEF StackInv
  <2> QED
    BY <2>1, <2>2, <2>3, <2>4, <2>5, <2>6, <2>7, <2>8, StackMoves
<1> QED
  BY <1>3, <1>4

(* What moves a closure in or out of the loop's queue.                     *)
LEMMA FunctorMoves ==
  ASSUME TypeOK, [Next]_vars
  PROVE  \/ /\ ~closed /\ closed'
            /\ \E why \in {"drained", "refused", "forced", "error"} : HandleClose(why)
         \/ UNCHANGED <<closed, cause, added, functors>>
         \/ Worker /\ UNCHANGED <<closed, cause, added, todo>>
         \/ /\ \E op \in {"force", "shutdown"} : Post(op)
            /\ UNCHANGED <<closed, cause, added, todo>>
         \/ RunFunctor /\ UNCHANGED <<closed, cause>>
<1>0. ASSUME NEW why \in {"drained", "refused", "forced", "error"}, HandleClose(why)
      PROVE  \/ ~closed /\ closed' /\ HandleClose(why)
             \/ UNCHANGED <<closed, cause, added, functors>>
  BY <1>0 DEF HandleClose, closeVars
<1>s. ASSUME NEW seq, NEW final, Send(seq, final)
      PROVE  \/ ~closed /\ closed' /\ HandleClose("error")
             \/ UNCHANGED <<closed, cause, added, functors>>
  BY <1>s, <1>0 DEF Send, SendShort, SendWhole, SendBlocked, closeVars
<1>1. CASE UNCHANGED vars
  BY <1>1 DEF vars, closeVars
<1>2. CASE MaybeCloseAfterSend
  BY <1>2, <1>0 DEF MaybeCloseAfterSend, closeVars
<1>3. CASE Shutdown
  BY <1>3, <1>0 DEF Shutdown
<1>4. CASE Close
  BY <1>4, <1>0 DEF Close
<1>5. CASE Drain
  BY <1>5, <1>s DEF Drain, closeVars
<1>6. CASE SendContinue
  BY <1>6, <1>s DEF SendContinue
<1>7. CASE WriteFails
  BY <1>7, <1>0 DEF WriteFails
<1>8. CASE DeliverResponse \/ HandleRead \/ HandleWriteEmpty
  BY <1>8 DEF DeliverResponse, HandleRead, HandleWriteEmpty, closeVars
<1>9. CASE ProcessEnd \/ SubmitRequest \/ RefuseRequest \/ \E http11 \in BOOLEAN : RejectRequest(http11)
  BY <1>9 DEF ProcessEnd, SubmitRequest, RefuseRequest, RejectRequest, closeVars
<1>10. CASE Dispatch \/ WriteItem \/ WritePart \/ WriteShort
  BY <1>10 DEF Dispatch, WriteItem, WritePart, WriteShort, closeVars
<1>11. CASE Peer
  BY <1>11 DEF Peer, PeerSends, PeerStops, PeerReads, closeVars
<1>12. CASE Worker
  BY <1>12 DEF Worker, WorkerDone, closeVars
<1>13. CASE Main
  BY <1>13 DEF Main, Signal, Post, closeVars
<1>14. CASE RunFunctor
  BY <1>14 DEF RunFunctor
<1> QED
  BY <1>1, <1>2, <1>3, <1>4, <1>5, <1>6, <1>7, <1>8, <1>9, <1>10, <1>11, <1>12, <1>13, <1>14
  DEF Next, IoThread

(* Every step keeps the order of establish, epoll and close.               *)
LEMMA LifeStep ==
  ASSUME TypeOK, LifeInv, [Next]_vars PROVE LifeInv'
<1>1. functors \in Seq(Functors)
  BY DEF TypeOK, LoopType
<1>2. ASSUME NEW f \in Functors, f.op # "establish", functors' = Append(functors, f),
             UNCHANGED <<closed, added>>, UNCHANGED todo
      PROVE  LifeInv'
  <2>1. /\ DOMAIN functors = 1 .. Len(functors) /\ Len(functors) \in Nat
        /\ DOMAIN functors' = 1 .. Len(functors) + 1
        /\ \A i \in 1 .. Len(functors) : functors'[i] = functors[i]
        /\ functors'[Len(functors) + 1] = f
    BY <1>1, <1>2, AppendElements
  <2>2. \A i \in DOMAIN functors' :
           functors'[i].op = "establish" => i \in DOMAIN functors /\ functors[i].op = "establish"
    BY <1>2, <2>1
  <2>3. functors # <<>> => 1 \in DOMAIN functors /\ functors'[1] = functors[1] /\ functors' # <<>>
    <3>1. functors # <<>> => Len(functors) # 0
      BY <1>1, EmptySeq
    <3>2. functors' # <<>>
      BY <1>1, <1>2, AppendProperties
    <3> QED
      BY <2>1, <3>1, <3>2
  <2> QED
    BY <1>2, <2>2, <2>3 DEF LifeInv
<1>3. CASE ~closed /\ closed' /\ \E why \in {"drained", "refused", "forced", "error"} : HandleClose(why)
  <2>1. todo # <<>>
    BY <1>3, ClosingMoves
  <2>2. functors' = Append(functors, Functor("guard", 0, FALSE)) /\ added' = FALSE
    BY <1>3 DEF HandleClose, GuardFunctors
  <2>3. ~HasOp(functors', "establish")
    <3>1. ~HasOp(functors, "establish")
      BY <2>1 DEF LifeInv, HasOp
    <3>2. Functor("guard", 0, FALSE) \in Functors /\ Functor("guard", 0, FALSE).op = "guard"
      BY FramesTyped DEF Functor
    <3> QED
      BY <1>1, <2>2, <3>1, <3>2, HasOpAppend
  <2> QED
    BY <1>3, <2>2, <2>3 DEF LifeInv, HasOp
<1>4. CASE UNCHANGED <<closed, cause, added, functors>>
  <2>1. CASE functors # <<>> /\ functors[1].op = "establish"
    <3>1. 1 \in DOMAIN functors
      BY <1>1, <2>1, TailElements
    <3>2. todo = <<>> /\ ~added
      BY <2>1, <3>1 DEF LifeInv
    <3>3. todo' = <<>>
      <4>1. ~RunFunctor
        <5>1. Len(Tail(functors)) # Len(functors)
          BY <1>1, <2>1, HeadTailProperties
        <5> QED
          BY <1>4, <5>1 DEF RunFunctor
      <4> QED
        BY <1>4, <3>2, <4>1, StackMoves DEF Top, Dispatch
    <3> QED
      BY <1>4, <3>3 DEF LifeInv
  <2>2. CASE ~(functors # <<>> /\ functors[1].op = "establish")
    BY <1>4, <2>2 DEF LifeInv
  <2> QED
    BY <2>1, <2>2
<1>5. CASE Worker /\ UNCHANGED <<closed, cause, added, todo>>
  <2>1. PICK n \in working, close \in BOOLEAN : WorkerDone(n, close)
    BY <1>5 DEF Worker
  <2>2. /\ Functor("deliver", n, close \/ isShutdown) \in Functors
        /\ Functor("deliver", n, close \/ isShutdown).op = "deliver"
    BY FramesTyped DEF Functor, TypeOK, SeqType, LoopType
  <2> QED
    BY <1>2, <1>5, <2>1, <2>2 DEF WorkerDone
<1>6. CASE (\E op \in {"force", "shutdown"} : Post(op)) /\ UNCHANGED <<closed, cause, added, todo>>
  <2>1. PICK op \in {"force", "shutdown"} : Post(op)
    BY <1>6
  <2>2. Functor(op, 0, FALSE) \in Functors /\ Functor(op, 0, FALSE).op = op
    BY FramesTyped DEF Functor
  <2> QED
    BY <1>2, <1>6, <2>1, <2>2 DEF Post
<1>7. CASE RunFunctor /\ UNCHANGED <<closed, cause>>
  <2>1. /\ todo = <<>> /\ functors # <<>> /\ functors' = Tail(functors)
        /\ IF Head(functors).op = "establish" THEN added' = TRUE ELSE added' = added
    BY <1>7 DEF RunFunctor
  <2>2. /\ 1 \in DOMAIN functors /\ functors[1] = Head(functors)
        /\ \A i \in DOMAIN Tail(functors) :
              i + 1 \in DOMAIN functors /\ i + 1 # 1 /\ Tail(functors)[i] = functors[i + 1]
    BY <1>1, <2>1, TailElements
  <2>3. \A i \in DOMAIN functors' : functors'[i].op # "establish"
    BY <2>1, <2>2 DEF LifeInv
  <2>4. CASE Head(functors).op = "establish"
    <3>1. ~closed
      BY <2>2, <2>4 DEF LifeInv
    <3> QED
      BY <1>7, <2>1, <2>3, <2>4, <3>1 DEF LifeInv
  <2>5. CASE Head(functors).op # "establish"
    BY <1>7, <2>1, <2>2, <2>3, <2>5 DEF LifeInv
  <2> QED
    BY <2>4, <2>5
<1> QED
  BY <1>3, <1>4, <1>5, <1>6, <1>7, FunctorMoves

(* Every step keeps the guard in the queue while callbacks of a closed     *)
(* connection are still to run: functors run only when the stack is empty. *)
LEMMA GuardStep ==
  ASSUME TypeOK, StackInv, LifeInv, GuardInv, [Next]_vars PROVE GuardInv'
<1>1. functors \in Seq(Functors) /\ todo \in Seq(Frames) /\ nextReqSeq \in Nat
  BY DEF TypeOK, LoopType, SeqType
<1>2. CASE ~closed /\ closed'
  <2>1. functors' = Append(functors, Functor("guard", 0, FALSE))
    BY <1>2, ClosingMoves DEF HandleClose, GuardFunctors
  <2>2. Functor("guard", 0, FALSE) \in Functors /\ Functor("guard", 0, FALSE).op = "guard"
    BY FramesTyped DEF Functor
  <2> QED
    BY <1>1, <2>1, <2>2, HasOpAppend DEF GuardInv
<1>3. CASE closed /\ closed'
  <2>1. ASSUME NEW op \in {"read", "write"}, HasOp(todo', op)
        PROVE  HasOp(todo, op) /\ todo # <<>>
    <3>0. ~HasOp(<<>>, op)
      BY NewFrames
    <3>1. CASE todo' = todo
      BY <2>1, <3>0, <3>1
    <3>2. CASE todo # <<>> /\ todo' = Tail(todo)
      BY <1>1, <2>1, <3>2, HasOpTail
    <3>3. CASE Top("write") /\ todo' = AfterFlush \o Tail(todo)
      <4>1. AfterFlush \in Seq(Frames) /\ ~HasOp(AfterFlush, op)
        BY FramesTyped DEF AfterFlush, HasOp, Frame
      <4>2. HasOp(Tail(todo), op) /\ todo # <<>>
        BY <1>1, <2>1, <3>3, <4>1, HasOpConcat, TailElements DEF Top
      <4> QED
        BY <1>1, <4>2, HasOpTail
    <3>4. CASE Top("read")
      <4>1. HasOp(todo, "read")
        BY <1>1, <3>4, HasOpTail DEF Top
      <4> QED
        BY <1>3, <4>1 DEF StackInv
    <3>5. CASE Dispatch /\ added
      BY <1>3, <3>5 DEF LifeInv
    <3>6. CASE todo' \in {<<>>, <<Frame("close")>>, <<Frame("shutdown")>>,
                          <<DeliverFrame(Head(functors).seq)>>}
      BY <2>1, <3>6 DEF HasOp, Frame, DeliverFrame
    <3> QED
      BY <1>3, <3>1, <3>2, <3>3, <3>4, <3>5, <3>6, StackMoves
  <2>2. CASE RunFunctor
    BY <2>1, <2>2 DEF GuardInv, RunFunctor
  <2>3. ASSUME NEW f \in Functors, functors' = Append(functors, f) PROVE GuardInv'
    BY <1>1, <1>3, <2>1, <2>3, HasOpAppend DEF GuardInv
  <2>4. CASE Worker
    BY <1>1, <2>3, <2>4, FramesTyped DEF Worker, WorkerDone, TypeOK, SeqType, LoopType
  <2>5. CASE \E op \in {"force", "shutdown"} : Post(op)
    BY <2>3, <2>5, FramesTyped DEF Post
  <2>6. CASE UNCHANGED functors
    BY <1>3, <2>1, <2>6 DEF GuardInv
  <2> QED
    BY <1>3, <2>2, <2>4, <2>5, <2>6, FunctorMoves
<1> QED
  BY <1>2, <1>3 DEF GuardInv, TypeOK, CloseType

(* Every step keeps a reason for each forced close.                        *)
LEMMA ForceStep ==
  ASSUME TypeOK, ForceInv, [Next]_vars PROVE ForceInv'
<1>1. functors \in Seq(Functors) /\ todo \in Seq(Frames) /\ nextReqSeq \in Nat
  BY DEF TypeOK, LoopType, SeqType
<1>2. /\ peer = "reset" => peer' = "reset"
      /\ mayPost' \subseteq mayPost
  <2>1. CASE UNCHANGED vars
    BY <2>1 DEF vars, peerVars, mainVars
  <2>2. CASE MaybeCloseAfterSend \/ Shutdown \/ Close \/ DeliverResponse \/ Drain
    BY <2>2 DEF MaybeCloseAfterSend, Shutdown, Close, DeliverResponse, Drain,
       peerVars, mainVars
  <2>3. CASE ProcessEnd \/ SubmitRequest \/ RefuseRequest \/ SendContinue \/ \E http11 \in BOOLEAN : RejectRequest(http11)
    BY <2>3 DEF ProcessEnd, SubmitRequest, RefuseRequest, SendContinue,
       RejectRequest, peerVars, mainVars
  <2>4. CASE Dispatch \/ HandleRead \/ RunFunctor
    BY <2>4 DEF Dispatch, HandleRead, RunFunctor, peerVars, mainVars
  <2>5. CASE HandleWriteEmpty \/ WriteItem \/ WritePart \/ WriteShort \/ WriteFails
    BY <2>5 DEF HandleWriteEmpty, WriteItem, WritePart, WriteShort, WriteFails,
       peerVars, mainVars
  <2>6. CASE Peer
    BY <2>6 DEF Peer, PeerSends, PeerStops, PeerReads, mainVars
  <2>7. CASE Worker \/ Main
    BY <2>7 DEF Worker, WorkerDone, Main, Signal, Post, peerVars, mainVars
  <2> QED
    BY <2>1, <2>2, <2>3, <2>4, <2>5, <2>6, <2>7 DEF Next, IoThread
<1>3. Forced => Forced'
  BY <1>2 DEF Forced
<1>4. cause' = "forced" => Forced'
  <2>1. CASE ~closed /\ closed'
    <3>1. cause' = "forced" => HasOp(todo, "close")
      BY <1>1, <2>1, ClosingMoves, HasOpTail DEF Top
    <3> QED
      BY <1>3, <3>1 DEF ForceInv
  <2>2. CASE UNCHANGED cause
    BY <1>3, <2>2 DEF ForceInv
  <2> QED
    BY <2>1, <2>2, FunctorMoves
<1>5. HasOp(functors', "force") => "force" \notin mayPost'
  <2>1. ASSUME NEW f \in Functors, functors' = Append(functors, f), f.op # "force"
        PROVE  HasOp(functors', "force") => "force" \notin mayPost'
    BY <1>1, <1>2, <2>1, HasOpAppend DEF ForceInv
  <2>2. CASE UNCHANGED functors
    BY <1>2, <2>2 DEF ForceInv
  <2>3. CASE \E why \in {"drained", "refused", "forced", "error"} : HandleClose(why)
    <3>1. functors' \in {functors, Append(functors, Functor("guard", 0, FALSE))}
      BY <2>3 DEF HandleClose, GuardFunctors
    <3> QED
      BY <2>1, <2>2, <3>1, FramesTyped DEF Functor
  <2>4. CASE Worker
    <3>1. PICK n \in working, close \in BOOLEAN : WorkerDone(n, close)
      BY <2>4 DEF Worker
    <3>2. /\ Functor("deliver", n, close \/ isShutdown) \in Functors
          /\ Functor("deliver", n, close \/ isShutdown).op = "deliver"
      BY FramesTyped DEF Functor, TypeOK, SeqType, LoopType
    <3> QED
      BY <2>1, <3>1, <3>2 DEF WorkerDone
  <2>5. CASE Post("force")
    BY <2>5 DEF Post
  <2>6. CASE Post("shutdown")
    BY <2>1, <2>6, FramesTyped DEF Post, Functor
  <2>7. CASE RunFunctor
    BY <1>1, <1>2, <2>7, HasOpTail DEF RunFunctor, ForceInv
  <2> QED
    BY <2>2, <2>3, <2>4, <2>5, <2>6, <2>7, FunctorMoves
<1>6. HasOp(todo', "close") => Forced'
  <2> SUFFICES ASSUME HasOp(todo', "close"), ~HasOp(todo, "close") PROVE Forced'
    BY <1>3 DEF ForceInv
  <2>1. CASE todo' = todo
    BY <2>1
  <2>2. CASE todo # <<>> /\ todo' = Tail(todo)
    BY <1>1, <2>2, HasOpTail
  <2>3. CASE Top("deliver") /\ todo' = AfterDeliver \o Tail(todo)
    <3>1. AfterDeliver \in Seq(Frames) /\ ~HasOp(AfterDeliver, "close")
      BY FramesTyped DEF AfterDeliver, HasOp, Frame
    <3>2. Tail(todo) \in Seq(Frames) /\ ~HasOp(Tail(todo), "close")
      BY <1>1, <2>3, HasOpTail, TailElements DEF Top
    <3>3. ~HasOp(AfterDeliver \o Tail(todo), "close")
      BY ONLY <3>1, <3>2, HasOpConcat
    <3> QED
      BY <2>3, <3>3
  <2>4. CASE Top("read") /\ todo' = (<<Frame("process")>> \o AfterRead) \o Tail(todo)
    <3> DEFINE p == <<Frame("process")>>
    <3>1. /\ p \in Seq(Frames) /\ ~HasOp(p, "close")
          /\ AfterRead \in Seq(Frames) /\ (HasOp(AfterRead, "close") => peer = "reset")
      BY FramesTyped DEF AfterRead, HasOp, Frame, TypeOK, PeerType
    <3> HIDE DEF p
    <3>2. p \o AfterRead \in Seq(Frames) /\ (HasOp(p \o AfterRead, "close") => peer = "reset")
      BY <3>1, HasOpConcat, ConcatElements
    <3>3. Tail(todo) \in Seq(Frames) /\ ~HasOp(Tail(todo), "close")
      BY <1>1, <2>4, HasOpTail, TailElements DEF Top
    <3>4. HasOp((p \o AfterRead) \o Tail(todo), "close") => peer = "reset"
      BY <3>2, <3>3, HasOpConcat
    <3>5. peer = "reset"
      BY <2>4, <3>4 DEF p
    <3> QED
      BY <1>3, <3>5 DEF Forced
  <2>5. CASE Top("write") /\ todo' = AfterFlush \o Tail(todo)
    <3>1. AfterFlush \in Seq(Frames) /\ ~HasOp(AfterFlush, "close")
      BY FramesTyped DEF AfterFlush, HasOp, Frame
    <3>2. Tail(todo) \in Seq(Frames) /\ ~HasOp(Tail(todo), "close")
      BY <1>1, <2>5, HasOpTail, TailElements DEF Top
    <3>3. ~HasOp(AfterFlush \o Tail(todo), "close")
      BY ONLY <3>1, <3>2, HasOpConcat
    <3> QED
      BY <2>5, <3>3
  <2>6. CASE todo' = <<DeliverFrame(nextReqSeq)>> \o todo
    <3>1. <<DeliverFrame(nextReqSeq)>> \in Seq(Frames) /\ ~HasOp(<<DeliverFrame(nextReqSeq)>>, "close")
      BY <1>1, FramesTyped DEF HasOp, DeliverFrame
    <3> QED
      BY <1>1, <2>6, <3>1, HasOpConcat
  <2>7. CASE Dispatch
    BY <1>3, <2>7, DispatchStack DEF Forced
  <2>8. CASE RunFunctor
    <3>1. functors # <<>> /\ Head(functors).op = "force"
      BY <2>8 DEF RunFunctor, HasOp, Frame, DeliverFrame
    <3>2. HasOp(functors, "force")
      BY <1>1, <3>1, HasOpTail
    <3> QED
      BY <1>3, <3>2 DEF ForceInv, Forced
  <2> QED
    BY <2>1, <2>2, <2>3, <2>4, <2>5, <2>6, <2>7, <2>8, StackMoves
<1> QED
  BY <1>4, <1>5, <1>6 DEF ForceInv

-----------------------------------------------------------------------------
(* Without a deliver frame nothing is delivered.                           *)
LEMMA DeliversEmpty == \A t : ~HasOp(t, "deliver") => Delivers(t) = {}
  BY DEF HasOp, Delivers

(* What is delivered after the head has gone.                              *)
LEMMA DeliversTail ==
  ASSUME NEW S, NEW t \in Seq(S), t # <<>>
  PROVE  /\ Head(t).op = "deliver" =>
               /\ Delivers(t) = Delivers(Tail(t)) \cup {Head(t).seq}
               /\ Unique(t) => Head(t).seq \notin Delivers(Tail(t))
         /\ Head(t).op # "deliver" => Delivers(t) = Delivers(Tail(t))
         /\ Unique(t) => Unique(Tail(t))
<1>1. /\ 1 \in DOMAIN t /\ t[1] = Head(t)
      /\ \A i \in DOMAIN Tail(t) :
            i + 1 \in DOMAIN t /\ Tail(t)[i] = t[i + 1] /\ i + 1 # 1
      /\ \A i \in DOMAIN t : i # 1 => i - 1 \in DOMAIN Tail(t) /\ Tail(t)[i - 1] = t[i]
      /\ \A i, j \in DOMAIN Tail(t) : i + 1 = j + 1 => i = j
  <2>1. \A i \in 2 .. Len(t) : i - 1 \in 1 .. Len(t) - 1 /\ (i - 1) + 1 = i
    BY TailElements
  <2> QED
    BY <2>1, TailElements
<1>2. ASSUME NEW x \in Delivers(t) PROVE x \in Delivers(Tail(t)) \/ (Head(t).op = "deliver" /\ x = Head(t).seq)
  <2>1. PICK i \in DOMAIN t : t[i].op = "deliver" /\ t[i].seq = x
    BY DEF Delivers
  <2>2. CASE i = 1
    BY <1>1, <2>1, <2>2
  <2>3. CASE i # 1
    <3>1. i - 1 \in DOMAIN Tail(t) /\ Tail(t)[i - 1] = t[i]
      BY <1>1, <2>3
    <3> QED
      BY <2>1, <3>1 DEF Delivers
  <2> QED
    BY <2>2, <2>3
<1>3. Delivers(Tail(t)) \subseteq Delivers(t)
  BY <1>1 DEF Delivers
<1>4. Head(t).op = "deliver" => Head(t).seq \in Delivers(t)
  BY <1>1 DEF Delivers
<1>5. Unique(t) => Unique(Tail(t))
  BY <1>1 DEF Unique
<1>6. ASSUME Unique(t), Head(t).op = "deliver", Head(t).seq \in Delivers(Tail(t))
      PROVE  FALSE
  <2>1. PICK i \in DOMAIN Tail(t) : Tail(t)[i].op = "deliver" /\ Tail(t)[i].seq = Head(t).seq
    BY <1>6 DEF Delivers
  <2> QED
    BY <1>1, <1>6, <2>1 DEF Unique
<1> QED
  BY <1>2, <1>3, <1>4, <1>5, <1>6

(* What is delivered after one more functor.                               *)
LEMMA DeliversAppend ==
  ASSUME NEW S, NEW t \in Seq(S), NEW e \in S
  PROVE  /\ e.op = "deliver" =>
               /\ Delivers(Append(t, e)) = Delivers(t) \cup {e.seq}
               /\ Unique(t) /\ e.seq \notin Delivers(t) => Unique(Append(t, e))
         /\ e.op # "deliver" =>
               /\ Delivers(Append(t, e)) = Delivers(t)
               /\ Unique(t) => Unique(Append(t, e))
<1> DEFINE u == Append(t, e)
           n == Len(t) + 1
<1>1. /\ n \in DOMAIN u /\ u[n] = e
      /\ \A i \in DOMAIN t : i \in DOMAIN u /\ u[i] = t[i] /\ i # n
      /\ \A i \in DOMAIN u : i # n => i \in DOMAIN t
  BY AppendElements
<1> HIDE DEF u, n
<1>2. /\ Delivers(t) \subseteq Delivers(u)
      /\ e.op = "deliver" => e.seq \in Delivers(u)
      /\ \A x \in Delivers(u) : x \in Delivers(t) \/ (e.op = "deliver" /\ x = e.seq)
  BY <1>1 DEF Delivers
<1>3. ASSUME Unique(t), e.op = "deliver" => e.seq \notin Delivers(t)
      PROVE  Unique(u)
  <2> SUFFICES ASSUME NEW i \in DOMAIN u, NEW j \in DOMAIN u,
                      u[i].op = "deliver", u[j].op = "deliver", u[i].seq = u[j].seq
               PROVE  i = j
    BY DEF Unique
  <2>1. CASE i = n /\ j # n
    BY <1>1, <1>3, <2>1 DEF Delivers
  <2>2. CASE i # n /\ j = n
    BY <1>1, <1>3, <2>2 DEF Delivers
  <2>3. CASE i # n /\ j # n
    BY <1>1, <1>3, <2>3 DEF Unique
  <2> QED
    BY <2>1, <2>2, <2>3
<1> QED
  BY <1>2, <1>3 DEF u

(* Nothing is given to the pool, and nothing comes back from it.           *)
SameWork == /\ UNCHANGED <<working, nextReqSeq, inflight>>
            /\ Delivers(functors') = Delivers(functors)
            /\ Unique(functors) => Unique(functors')
            /\ Delivers(todo') = Delivers(todo)

(* Steps other than RunFunctor and DeliverResponse that leave the pool     *)
(* alone move no delivery.                                                 *)
LEMMA KeepsWork ==
  ASSUME TypeOK, StackInv, [Next]_vars, ~RunFunctor, ~DeliverResponse,
         UNCHANGED <<working, nextReqSeq, inflight>>
  PROVE  SameWork
<1>1. functors \in Seq(Functors) /\ todo \in Seq(Frames) /\ nextReqSeq \in Nat
      /\ Shape(todo)
  BY DEF TypeOK, LoopType, SeqType, StackInv
<1>2. ASSUME NEW f \in Functors, functors' = Append(functors, f), f.op # "deliver"
      PROVE  /\ Delivers(functors') = Delivers(functors)
             /\ Unique(functors) => Unique(functors')
  BY <1>1, <1>2, DeliversAppend
<1>3. /\ Delivers(functors') = Delivers(functors)
      /\ Unique(functors) => Unique(functors')
  <2>1. CASE \E why \in {"drained", "refused", "forced", "error"} : HandleClose(why)
    <3>1. functors' \in {functors, Append(functors, Functor("guard", 0, FALSE))}
      BY <2>1 DEF HandleClose, GuardFunctors
    <3> QED
      BY <1>2, <3>1, FramesTyped DEF Functor
  <2>2. CASE Worker
    BY <2>2 DEF Worker, WorkerDone
  <2>3. CASE \E op \in {"force", "shutdown"} : Post(op)
    BY <1>2, <2>3, FramesTyped DEF Post, Functor
  <2>4. CASE UNCHANGED functors
    BY <2>4
  <2> QED
    BY <2>1, <2>2, <2>3, <2>4, FunctorMoves
<1>4. Delivers(todo') = Delivers(todo)
  <2>1. CASE todo' = todo
    BY <2>1
  <2>2. CASE todo # <<>> /\ todo' = Tail(todo) /\ Head(todo).op # "deliver"
    BY <1>1, <2>2, DeliversTail
  <2>3. ASSUME Top("read") \/ Top("write")
        PROVE  todo # <<>> /\ Delivers(todo) = {}
    <3>1. todo # <<>> /\ Head(todo).op # "deliver"
      BY <2>3 DEF Top
    <3> QED
      BY <1>1, <3>1, HasOpTail, ShapeTail, DeliversEmpty
  <2>5. CASE Top("read") /\ todo' = (<<Frame("process")>> \o AfterRead) \o Tail(todo)
    BY <1>1, <2>3, <2>5, CallsShaped, DeliversEmpty
  <2>6. CASE Top("write") /\ todo' = AfterFlush \o Tail(todo)
    BY <1>1, <2>3, <2>6, CallsShaped, DeliversEmpty
  <2>4. CASE Dispatch /\ todo = <<>>
    BY <2>4, DispatchStack, DeliversEmpty, NewFrames
  <2>7. nextReqSeq' # nextReqSeq + 1
    BY <1>1
  <2> QED
    BY <2>1, <2>2, <2>4, <2>5, <2>6, <2>7, StackMoves
<1> QED
  BY <1>3, <1>4 DEF SameWork

(* The requests at work are finitely many.                                 *)
LEMMA AtWorkFinite ==
  ASSUME TypeOK, RangeInv
  PROVE  IsFiniteSet(AtWork) /\ Cardinality(AtWork) \in Nat
<1>1. IsFiniteSet(0 .. nextReqSeq - 1)
  BY FS_Interval DEF TypeOK, SeqType
<1> QED
  BY <1>1, FS_Subset, FS_CardinalityType DEF RangeInv

(* deliverResponse(n) takes n out of the pool and parks it.                *)
LEMMA DeliverMoves ==
  ASSUME TypeOK, StackInv, RangeInv, AccountInv, DeliverResponse, ~closed
  PROVE  RangeInv' /\ AccountInv'
<1> DEFINE n == Head(todo).seq
           F == Delivers(functors)
<1>1. /\ todo # <<>> /\ Head(todo).op = "deliver"
      /\ inflight' = InflightAfter
      /\ pendingResp' = IF n >= nextSendSeq THEN pendingResp \cup {n} ELSE pendingResp
      /\ todo' = AfterDeliver \o Tail(todo)
      /\ UNCHANGED <<working, functors, nextReqSeq, nextSendSeq, closed>>
  BY DEF DeliverResponse, Top, Call, closeVars
<1>2. todo \in Seq(Frames) /\ Shape(todo)
  BY DEF TypeOK, LoopType, StackInv
<1>3. Delivers(todo) = {n} /\ Delivers(todo') = {}
  <2>1. Delivers(Tail(todo)) = {}
    BY <1>1, <1>2, ShapeTail, DeliversEmpty
  <2>2. ~HasOp(AfterDeliver \o Tail(todo), "deliver")
    BY <1>1, <1>2, CallsShaped DEF Top
  <2> QED
    BY <1>1, <1>2, <2>1, <2>2, DeliversTail, DeliversEmpty
<1>4. AtWork = working \cup F \cup {n} /\ AtWork' = AtWork \ {n}
  <2>1. n \notin working /\ n \notin F
    BY <1>3 DEF AccountInv
  <2> QED
    BY <1>1, <1>3, <2>1 DEF AtWork
<1>5. n \in AtWork /\ n \in nextSendSeq .. nextReqSeq - 1
  BY <1>4 DEF AccountInv
<1>6. inflight' = Cardinality(AtWork')
  <2>1. Cardinality(AtWork \ {n}) = Cardinality(AtWork) - 1 /\ Cardinality(AtWork \ {n}) \in Nat
    BY <1>5, AtWorkFinite, FS_RemoveElement, FS_CardinalityType
  <2>2. inflight = Cardinality(AtWork)
    BY DEF AccountInv
  <2>3. inflight > 0 /\ inflight' = inflight - 1
    BY <1>1, <2>1, <2>2, AtWorkFinite DEF InflightAfter
  <2> QED
    BY <1>4, <2>1, <2>2, <2>3
<1>7. pendingResp' = pendingResp \cup {n}
  BY <1>1, <1>5 DEF TypeOK, SeqType
<1>8. RangeInv'
  BY <1>1, <1>4 DEF RangeInv
<1>9. /\ (AtWork \ {n}) \cup (pendingResp \cup {n}) = nextSendSeq .. nextReqSeq - 1
      /\ (AtWork \ {n}) \cap (pendingResp \cup {n}) = {}
  BY <1>5 DEF AccountInv
<1>10. /\ working' \cap Delivers(functors') = {}
       /\ working' \cap Delivers(todo') = {}
       /\ Delivers(functors') \cap Delivers(todo') = {}
       /\ Unique(functors')
  BY <1>1, <1>3 DEF AccountInv
<1> QED
  BY <1>1, <1>4, <1>6, <1>7, <1>8, <1>9, <1>10 DEF AccountInv

(* nextRequestSeq(): the new request goes to the pool, or to the answer    *)
(* that is delivered next.                                                 *)
LEMMA RequestMoves ==
  ASSUME TypeOK, StackInv, RangeInv, AccountInv, ~closed, UNCHANGED <<functors, closed>>,
         NextRequestSeq,
         \/ working' = working \cup {nextReqSeq} /\ Delivers(todo') = Delivers(todo)
         \/ UNCHANGED working /\ Delivers(todo') = {nextReqSeq} /\ Delivers(todo) = {}
  PROVE  RangeInv' /\ AccountInv'
<1>1. nextReqSeq' = nextReqSeq + 1 /\ inflight' = inflight + 1
      /\ UNCHANGED <<nextSendSeq, pendingResp>>
  BY DEF NextRequestSeq
<1>2. nextReqSeq \in Nat /\ nextSendSeq \in 0 .. nextReqSeq
  BY DEF TypeOK, SeqType
<1>3. AtWork' = AtWork \cup {nextReqSeq} /\ nextReqSeq \notin AtWork
  BY <1>2 DEF AtWork, RangeInv
<1>4. RangeInv'
  BY <1>1, <1>2, <1>3 DEF RangeInv
<1>5. inflight' = Cardinality(AtWork')
  <2>1. Cardinality(AtWork \cup {nextReqSeq}) = Cardinality(AtWork) + 1
    BY <1>3, AtWorkFinite, FS_AddElement
  <2> QED
    BY <1>1, <1>3, <2>1 DEF AccountInv
<1>6. AtWork' \cup pendingResp' = nextSendSeq' .. nextReqSeq' - 1
  <2>1. AtWork \cup pendingResp = nextSendSeq .. nextReqSeq - 1
    BY DEF AccountInv
  <2>2. nextSendSeq .. (nextReqSeq + 1) - 1 = (nextSendSeq .. nextReqSeq - 1) \cup {nextReqSeq}
    BY <1>2
  <2> QED
    BY <1>1, <1>3, <2>1, <2>2
<1>7. AtWork' \cap pendingResp' = {}
  <2>1. nextReqSeq \notin pendingResp
    BY <1>2 DEF TypeOK, SeqType
  <2> QED
    BY <1>1, <1>3, <2>1 DEF AccountInv
<1>8. /\ working' \cap Delivers(functors') = {}
      /\ working' \cap Delivers(todo') = {}
      /\ Delivers(functors') \cap Delivers(todo') = {}
      /\ Unique(functors')
  BY <1>3 DEF AccountInv, AtWork
<1> QED
  BY <1>4, <1>5, <1>6, <1>7, <1>8 DEF AccountInv

(* Every step, by what it does to the sequence numbers and the pool.       *)
LEMMA SeqMoves ==
  ASSUME TypeOK, [Next]_vars
  PROVE  \/ /\ UNCHANGED <<working, seqVars>> /\ ~RunFunctor /\ ~DeliverResponse
         \/ /\ UNCHANGED <<working, nextReqSeq, inflight>> /\ Drain
            /\ nextSendSeq \in pendingResp
            /\ pendingResp' = pendingResp \ {nextSendSeq}
            /\ nextSendSeq' = nextSendSeq + 1
            /\ todo' = todo
         \/ DeliverResponse
         \/ RunFunctor /\ UNCHANGED <<working, seqVars>>
         \/ Worker /\ UNCHANGED seqVars
         \/ /\ NextRequestSeq /\ ~closed /\ UNCHANGED <<functors, closed>> /\ Top("process")
            /\ \/ working' = working \cup {nextReqSeq} /\ todo' = todo
               \/ UNCHANGED working /\ todo' = <<DeliverFrame(nextReqSeq)>> \o todo
<1>1. CASE UNCHANGED vars
  <2>1. ~RunFunctor
    <3>1. functors \in Seq(Functors) /\ (functors # <<>> => Len(Tail(functors)) # Len(functors))
      BY HeadTailProperties DEF TypeOK, LoopType
    <3> QED
      BY <1>1, <3>1 DEF vars, RunFunctor
  <2>2. CASE ~DeliverResponse
    BY <1>1, <2>1, <2>2 DEF vars
  <2> QED
    BY <2>2
<1>2. CASE MaybeCloseAfterSend \/ Shutdown \/ Close
  BY <1>2 DEF MaybeCloseAfterSend, Shutdown, Close, RunFunctor, DeliverResponse, Top
<1>3. CASE Drain
  <2>1. todo # <<>> /\ Head(todo).op = "drain" /\ UNCHANGED working
    BY <1>3 DEF Drain, Top
  <2>2. CASE NextToSend = {}
    BY <1>3, <2>1, <2>2 DEF Drain, RunFunctor, DeliverResponse, Top
  <2>3. CASE NextToSend # {}
    BY <1>3, <2>1, <2>3 DEF Drain, NextToSend
  <2> QED
    BY <2>2, <2>3
<1>4. CASE ProcessEnd \/ SendContinue
  BY <1>4 DEF ProcessEnd, SendContinue, RunFunctor, DeliverResponse, Top
<1>5. CASE SubmitRequest
  BY <1>5 DEF SubmitRequest, MayProcess, closeVars
<1>6. CASE RefuseRequest \/ \E http11 \in BOOLEAN : RejectRequest(http11)
  BY <1>6 DEF RefuseRequest, RejectRequest, MayProcess, closeVars
<1>7. CASE Dispatch
  <2>1. UNCHANGED <<working, seqVars, functors>> /\ todo = <<>>
    BY <1>7 DEF Dispatch
  <2>2. functors \in Seq(Functors) /\ (functors # <<>> => Len(Tail(functors)) # Len(functors))
    BY HeadTailProperties DEF TypeOK, LoopType
  <2> QED
    BY <2>1, <2>2 DEF RunFunctor, DeliverResponse, Top
<1>8. CASE HandleRead \/ HandleWriteEmpty \/ WriteItem
  BY <1>8 DEF HandleRead, HandleWriteEmpty, WriteItem, RunFunctor, DeliverResponse, Top
<1>9. CASE WritePart \/ WriteShort \/ WriteFails
  BY <1>9 DEF WritePart, WriteShort, WriteFails, RunFunctor, DeliverResponse, Top
<1>10. CASE RunFunctor
  BY <1>10 DEF RunFunctor
<1>11. CASE Worker
  BY <1>11 DEF Worker, WorkerDone
<1>12. CASE Peer \/ Main
  <2>1. /\ UNCHANGED <<working, seqVars, todo>>
        /\ functors' = functors \/ \E f \in Functors : functors' = Append(functors, f)
    BY <1>12, FramesTyped
    DEF Peer, PeerSends, PeerStops, PeerReads, Main, Signal, Post
  <2>2. ~RunFunctor
    <3>1. functors \in Seq(Functors)
      BY DEF TypeOK, LoopType
    <3>2. ASSUME functors # <<>> PROVE functors' # Tail(functors)
      <4>1. Len(Tail(functors)) = Len(functors) - 1 /\ Len(functors) \in Nat
        BY <3>1, <3>2, HeadTailProperties, LenProperties
      <4>2. Len(functors') \in {Len(functors), Len(functors) + 1}
        BY <2>1, <3>1, AppendProperties
      <4> QED
        BY <4>1, <4>2
    <3> QED
      BY <3>2 DEF RunFunctor
  <2>3. CASE ~DeliverResponse
    BY <2>1, <2>2, <2>3
  <2> QED
    BY <2>3
<1> QED
  BY <1>1, <1>2, <1>3, <1>4, <1>5, <1>6, <1>7, <1>8, <1>9, <1>10, <1>11, <1>12
  DEF Next, IoThread

(* Every step keeps the account of the requests.                           *)
LEMMA AccountStep ==
  ASSUME TypeOK, StackInv, RangeInv, AccountInv, LifeInv, [Next]_vars
  PROVE  RangeInv' /\ AccountInv'
<1>1. /\ functors \in Seq(Functors) /\ todo \in Seq(Frames) /\ nextReqSeq \in Nat
      /\ nextSendSeq \in 0 .. nextReqSeq /\ Shape(todo) /\ closed \in BOOLEAN
  BY DEF TypeOK, LoopType, SeqType, StackInv, CloseType
<1>2. closed => closed'
  BY FunctorMoves, <1>1
<1>3. ASSUME UNCHANGED <<working, nextReqSeq, inflight>>, ~RunFunctor, ~DeliverResponse,
             \/ UNCHANGED <<nextSendSeq, pendingResp>>
             \/ /\ nextSendSeq \in pendingResp
                /\ pendingResp' = pendingResp \ {nextSendSeq}
                /\ nextSendSeq' = nextSendSeq + 1
      PROVE  RangeInv' /\ AccountInv'
  <2>1. SameWork
    BY <1>3, KeepsWork
  <2>2. AtWork' = AtWork
    BY <2>1 DEF SameWork, AtWork
  <2>3. RangeInv'
    BY <2>1, <2>2 DEF SameWork, RangeInv
  <2>4. ASSUME ~closed'
        PROVE  /\ AtWork \cup pendingResp' = nextSendSeq' .. nextReqSeq - 1
               /\ AtWork \cap pendingResp' = {}
    <3>1. AtWork \cup pendingResp = nextSendSeq .. nextReqSeq - 1 /\ AtWork \cap pendingResp = {}
      BY <1>2, <2>4 DEF AccountInv
    <3>2. CASE UNCHANGED <<nextSendSeq, pendingResp>>
      BY <3>1, <3>2
    <3>3. CASE /\ nextSendSeq \in pendingResp
               /\ pendingResp' = pendingResp \ {nextSendSeq}
               /\ nextSendSeq' = nextSendSeq + 1
      <4>1. nextSendSeq + 1 .. nextReqSeq - 1 = (nextSendSeq .. nextReqSeq - 1) \ {nextSendSeq}
        BY <1>1
      <4>2. nextSendSeq \notin AtWork
        BY <3>1, <3>3
      <4> QED
        BY <3>1, <3>3, <4>1, <4>2
    <3> QED
      BY <1>3, <3>2, <3>3
  <2>5. ASSUME ~closed'
        PROVE  /\ working' \cap Delivers(functors') = {}
               /\ working' \cap Delivers(todo') = {}
               /\ Delivers(functors') \cap Delivers(todo') = {}
               /\ Unique(functors')
               /\ inflight' = Cardinality(AtWork')
    BY <1>2, <2>1, <2>2, <2>5 DEF SameWork, AccountInv
  <2> QED
    BY <2>1, <2>2, <2>3, <2>4, <2>5 DEF AccountInv, SameWork
<1>4. CASE DeliverResponse
  <2>1. CASE closed
    <3>1. /\ todo # <<>> /\ todo' = Tail(todo) /\ UNCHANGED <<working, functors, nextReqSeq>>
      BY <1>4, <2>1 DEF DeliverResponse, Top, Return
    <3>2. AtWork' \subseteq AtWork
      BY <1>1, <3>1, DeliversTail DEF AtWork
    <3> QED
      BY <1>2, <2>1, <3>1, <3>2 DEF RangeInv, AccountInv
  <2> QED
    BY <1>4, <2>1, DeliverMoves
<1>5. CASE RunFunctor /\ UNCHANGED <<working, seqVars>>
  <2>1. /\ todo = <<>> /\ functors # <<>> /\ functors' = Tail(functors)
        /\ Head(functors).op = "deliver" => todo' = <<DeliverFrame(Head(functors).seq)>>
        /\ Head(functors).op # "deliver" =>
              todo' \in {<<>>, <<Frame("close")>>, <<Frame("shutdown")>>}
        /\ UNCHANGED closed
    BY <1>5 DEF RunFunctor
  <2>2. Delivers(todo) = {}
    BY <2>1, NewFrames, DeliversEmpty
  <2>3. Head(functors).op = "deliver" => Delivers(todo') = {Head(functors).seq}
    BY <2>1 DEF Delivers, DeliverFrame
  <2>4. Head(functors).op # "deliver" => Delivers(todo') = {}
    BY <2>1, NewFrames, DeliversEmpty
  <2>5. AtWork' = AtWork
    BY <1>1, <1>5, <2>1, <2>2, <2>3, <2>4, DeliversTail DEF AtWork
  <2>6. RangeInv'
    BY <1>5, <2>5 DEF RangeInv, seqVars
  <2>7. ASSUME ~closed
        PROVE  /\ working' \cap Delivers(functors') = {}
               /\ working' \cap Delivers(todo') = {}
               /\ Delivers(functors') \cap Delivers(todo') = {}
               /\ Unique(functors')
    <3>1. Unique(functors) /\ working \cap Delivers(functors) = {}
      BY <2>7 DEF AccountInv
    <3> QED
      BY <1>1, <1>5, <2>1, <2>3, <2>4, <3>1, DeliversTail
  <2> QED
    BY <1>5, <2>1, <2>5, <2>6, <2>7 DEF AccountInv, seqVars
<1>6. CASE Worker /\ UNCHANGED seqVars
  <2>1. PICK n \in working, close \in BOOLEAN : WorkerDone(n, close)
    BY <1>6 DEF Worker
  <2>2. /\ working' = working \ {n}
        /\ functors' = Append(functors, Functor("deliver", n, close \/ isShutdown))
        /\ UNCHANGED <<todo, closed>>
    BY <2>1 DEF WorkerDone, closeVars
  <2>3. /\ Functor("deliver", n, close \/ isShutdown) \in Functors
        /\ Functor("deliver", n, close \/ isShutdown).op = "deliver"
        /\ Functor("deliver", n, close \/ isShutdown).seq = n
    BY FramesTyped DEF Functor, TypeOK, SeqType, LoopType
  <2>4. /\ Delivers(functors') = Delivers(functors) \cup {n}
        /\ Unique(functors) /\ n \notin Delivers(functors) => Unique(functors')
    BY <1>1, <2>2, <2>3, DeliversAppend
  <2>5. AtWork' = AtWork
    BY <2>2, <2>4 DEF AtWork
  <2>6. ASSUME ~closed
        PROVE  /\ working' \cap Delivers(functors') = {}
               /\ working' \cap Delivers(todo') = {}
               /\ Delivers(functors') \cap Delivers(todo') = {}
               /\ Unique(functors')
    BY <2>2, <2>4, <2>6 DEF AccountInv
  <2> QED
    BY <1>6, <2>2, <2>5, <2>6 DEF RangeInv, AccountInv, seqVars
<1>7. CASE /\ NextRequestSeq /\ ~closed /\ UNCHANGED <<functors, closed>> /\ Top("process")
           /\ \/ working' = working \cup {nextReqSeq} /\ todo' = todo
              \/ UNCHANGED working /\ todo' = <<DeliverFrame(nextReqSeq)>> \o todo
  <2>1. CASE todo' = <<DeliverFrame(nextReqSeq)>> \o todo
    <3>1. /\ DeliverFrame(nextReqSeq) \in Frames /\ DeliverFrame(nextReqSeq).op = "deliver"
          /\ DeliverFrame(nextReqSeq).seq = nextReqSeq
      BY <1>1, FramesTyped DEF DeliverFrame
    <3>2. ~HasOp(todo, "deliver")
      BY <1>1, <1>7, <3>1, ShapePush DEF Top
    <3>3. Delivers(todo') = {nextReqSeq}
      <4> DEFINE t == <<DeliverFrame(nextReqSeq)>> \o todo
      <4>1. /\ t \in Seq(Frames) /\ Shape(t) /\ t # <<>> /\ Head(t) = DeliverFrame(nextReqSeq)
        <5>1. t \in Seq(Frames) /\ DOMAIN t = 1 .. 1 + Len(todo) /\ Len(todo) \in Nat
          <6>1. <<DeliverFrame(nextReqSeq)>> \in Seq(Frames) /\ Len(<<DeliverFrame(nextReqSeq)>>) = 1
            BY <3>1
          <6> QED
            BY <1>1, <6>1, ConcatElements
        <5>2. t # <<>>
          BY <5>1
        <5> QED
          BY <1>1, <1>7, <3>1, <5>1, <5>2, ShapePush DEF Top
      <4> HIDE DEF t
      <4>2. Delivers(Tail(t)) = {} /\ Delivers(t) = Delivers(Tail(t)) \cup {nextReqSeq}
        BY <3>1, <4>1, ShapeTail, DeliversEmpty, DeliversTail
      <4> QED
        BY <2>1, <4>2 DEF t
    <3> QED
      BY <1>7, <2>1, <3>2, <3>3, DeliversEmpty, RequestMoves
  <2>2. CASE working' = working \cup {nextReqSeq} /\ todo' = todo
    BY <1>7, <2>2, RequestMoves
  <2> QED
    BY <1>7, <2>1, <2>2
<1>8. CASE UNCHANGED <<working, seqVars>> /\ ~RunFunctor /\ ~DeliverResponse
  BY <1>3, <1>8 DEF seqVars
<1>9. CASE /\ UNCHANGED <<working, nextReqSeq, inflight>> /\ Drain
           /\ nextSendSeq \in pendingResp
           /\ pendingResp' = pendingResp \ {nextSendSeq}
           /\ nextSendSeq' = nextSendSeq + 1
  BY <1>3, <1>9 DEF Drain, RunFunctor, DeliverResponse, Top
<1> QED
  BY <1>4, <1>5, <1>6, <1>7, <1>8, <1>9, SeqMoves

-----------------------------------------------------------------------------
(* inProcess_, read off the stack: a processBufferedRequests() below the   *)
(* innermost call.                                                         *)
LEMMA InProcessTail ==
  ASSUME TypeOK, todo # <<>>
  PROVE  InProcess <=> HasOp(Tail(todo), "process")
<1>1. todo \in Seq(Frames)
  BY DEF TypeOK, LoopType
<1>2. /\ Len(todo) \in Nat
      /\ \A i \in DOMAIN Tail(todo) : i + 1 \in 2 .. Len(todo) /\ Tail(todo)[i] = todo[i + 1]
      /\ \A i \in 2 .. Len(todo) : i - 1 \in DOMAIN Tail(todo) /\ Tail(todo)[i - 1] = todo[i]
  <2>1. \A i \in 2 .. Len(todo) : i - 1 \in 1 .. Len(todo) - 1 /\ (i - 1) + 1 = i
    BY <1>1, TailElements
  <2> QED
    BY <1>1, <2>1, TailElements
<1> QED
  BY <1>2 DEF InProcess, HasOp

(* A frame stays on the stack until the call it stands for returns.        *)
LEMMA CallStays ==
  ASSUME TypeOK, [Next]_vars, NEW op \in {"process", "write"}, HasOp(todo, op)
  PROVE  \/ HasOp(todo', op)
         \/ op = "process" /\ ProcessEnd
         \/ op = "write" /\ (WritePart \/ WriteShort \/ WriteFails \/ HandleWriteEmpty)
<1>1. todo \in Seq(Frames) /\ todo # <<>> /\ nextReqSeq \in Nat
  BY NewFrames DEF TypeOK, LoopType, SeqType
<1>2. Tail(todo) \in Seq(Frames) /\ (Head(todo).op # op => HasOp(Tail(todo), op))
  BY <1>1, HasOpTail, TailElements
<1>3. CASE todo' = todo
  BY <1>3
<1>4. CASE /\ todo' = Tail(todo)
           /\ Head(todo).op = "process" => ProcessEnd
           /\ Head(todo).op = "write" => WritePart \/ WriteShort \/ WriteFails
  BY <1>2, <1>4
<1>5. CASE Top("deliver") /\ todo' = AfterDeliver \o Tail(todo)
  <2>1. AfterDeliver \in Seq(Frames)
    BY FramesTyped DEF AfterDeliver
  <2>2. HasOp(Tail(todo), op)
    BY <1>2, <1>5 DEF Top
  <2>3. HasOp(AfterDeliver \o Tail(todo), op)
    BY ONLY <1>2, <2>1, <2>2, HasOpConcat
  <2> QED
    BY <1>5, <2>3
<1>6. CASE Top("read") /\ todo' = (<<Frame("process")>> \o AfterRead) \o Tail(todo)
  <2> DEFINE f == <<Frame("process")>> \o AfterRead
  <2>1. f \in Seq(Frames)
    <3>1. <<Frame("process")>> \in Seq(Frames) /\ AfterRead \in Seq(Frames)
      BY FramesTyped DEF AfterRead, TypeOK, PeerType
    <3> QED
      BY ONLY <3>1, ConcatElements
  <2>2. HasOp(Tail(todo), op)
    BY <1>2, <1>6 DEF Top
  <2> HIDE DEF f
  <2>3. HasOp(f \o Tail(todo), op)
    BY ONLY <1>2, <2>1, <2>2, HasOpConcat
  <2> QED
    BY <1>6, <2>3 DEF f
<1>7. CASE HandleWriteEmpty /\ Top("write") /\ todo' = AfterFlush \o Tail(todo)
  <2>1. AfterFlush \in Seq(Frames)
    BY FramesTyped DEF AfterFlush
  <2>2. CASE op = "process"
    <3>1. HasOp(Tail(todo), op)
      BY <1>2, <1>7, <2>2 DEF Top
    <3>2. HasOp(AfterFlush \o Tail(todo), op)
      BY ONLY <1>2, <2>1, <3>1, HasOpConcat
    <3> QED
      BY <1>7, <3>2
  <2> QED
    BY <1>7, <2>2
<1>8. CASE todo' = <<DeliverFrame(nextReqSeq)>> \o todo
  <2>1. <<DeliverFrame(nextReqSeq)>> \in Seq(Frames)
    BY <1>1, FramesTyped
  <2>2. HasOp(<<DeliverFrame(nextReqSeq)>> \o todo, op)
    BY ONLY <1>1, <2>1, HasOp(todo, op), HasOpConcat
  <2> QED
    BY <1>8, <2>2
<1> QED
  BY <1>1, <1>3, <1>4, <1>5, <1>6, <1>7, <1>8, StackMoves

(* Every step keeps requests from being stranded in the buffer: a read is  *)
(* followed by the parsing, a nested processBufferedRequests() returns     *)
(* only to the outer one, and each delivery calls it.                      *)
LEMMA StrandStep ==
  ASSUME TypeOK, StrandInv, [Next]_vars PROVE StrandInv'
<1>1. /\ todo \in Seq(Frames) /\ nextReqSeq \in Nat /\ inflight \in 0 .. kMaxInflight
  BY DEF TypeOK, LoopType, SeqType
<1>2. CASE ProcessEnd
  <2>1. /\ todo # <<>> /\ todo' = Tail(todo) /\ ~MayProcess
        /\ UNCHANGED <<buffer, inflight, closed>>
    BY <1>2 DEF ProcessEnd, Top, Return, inputVars, seqVars, closeVars
  <2>2. CASE InProcess
    BY <2>1, <2>2, InProcessTail DEF StrandInv
  <2>3. CASE ~InProcess
    BY <1>1, <2>1, <2>3 DEF StrandInv, MayProcess, MoreInPool
  <2> QED
    BY <2>2, <2>3
<1>3. ASSUME UNCHANGED <<buffer, inflight>>, ~ProcessEnd
      PROVE  StrandInv'
  BY <1>3, FunctorMoves, CallStays DEF StrandInv, TypeOK, CloseType
<1>4. CASE DeliverResponse
  <2>1. CASE closed
    BY <1>4, <2>1 DEF StrandInv, DeliverResponse, closeVars
  <2>2. CASE ~closed
    <3>1. todo # <<>> /\ todo' = AfterDeliver \o Tail(todo)
      BY <1>4, <2>2 DEF DeliverResponse, Top, Call
    <3>2. AfterDeliver \in Seq(Frames) /\ HasOp(AfterDeliver, "process")
      BY FramesTyped DEF AfterDeliver, HasOp, Frame
    <3>3. Tail(todo) \in Seq(Frames)
      BY <1>1, <3>1, TailElements
    <3>4. HasOp(AfterDeliver \o Tail(todo), "process")
      BY ONLY <3>2, <3>3, HasOpConcat
    <3> QED
      BY <3>1, <3>4 DEF StrandInv
  <2> QED
    BY <2>1, <2>2
<1>5. CASE HandleRead
  <2>1. todo # <<>> /\ todo' = (<<Frame("process")>> \o AfterRead) \o Tail(todo)
    BY <1>5 DEF HandleRead, Top, Call
  <2> DEFINE p == <<Frame("process")>>
             f == p \o AfterRead
  <2>2. /\ p \in Seq(Frames) /\ HasOp(p, "process")
        /\ AfterRead \in Seq(Frames)
    BY FramesTyped DEF AfterRead, HasOp, Frame, TypeOK, PeerType
  <2>3. Tail(todo) \in Seq(Frames)
    BY <1>1, <2>1, TailElements
  <2> HIDE DEF p
  <2>4. f \in Seq(Frames) /\ HasOp(f, "process")
    BY ONLY <2>2, HasOpConcat, ConcatElements
  <2> HIDE DEF f
  <2>5. HasOp(f \o Tail(todo), "process")
    BY ONLY <2>3, <2>4, HasOpConcat
  <2> QED
    BY <2>1, <2>5 DEF StrandInv, f, p
<1>6. CASE /\ Top("process")
           /\ \/ todo' = todo
              \/ todo' = <<DeliverFrame(nextReqSeq)>> \o todo
  <2>1. HasOp(todo, "process")
    BY <1>1, <1>6, HasOpTail DEF Top
  <2>2. <<DeliverFrame(nextReqSeq)>> \in Seq(Frames)
    BY <1>1, FramesTyped
  <2>3. HasOp(<<DeliverFrame(nextReqSeq)>> \o todo, "process")
    BY ONLY <1>1, <2>1, <2>2, HasOpConcat
  <2> QED
    BY <1>6, <2>1, <2>3 DEF StrandInv
<1>7. CASE SubmitRequest \/ SendContinue
  BY <1>6, <1>7 DEF SubmitRequest, SendContinue
<1>8. CASE RefuseRequest \/ \E http11 \in BOOLEAN : RejectRequest(http11)
  BY <1>6, <1>8 DEF RefuseRequest, RejectRequest
<1>9. CASE UNCHANGED vars /\ ~ProcessEnd
  BY <1>3, <1>9 DEF vars, inputVars, seqVars
<1>10. CASE (MaybeCloseAfterSend \/ Shutdown \/ Close \/ Drain \/ Dispatch) /\ ~ProcessEnd
  <2>1. UNCHANGED <<buffer, inflight>>
    BY <1>10 DEF MaybeCloseAfterSend, Shutdown, Close, Drain, Dispatch, inputVars, seqVars
  <2> QED
    BY <1>3, <1>10, <2>1
<1>11. CASE (RunFunctor \/ HandleWriteEmpty \/ WriteItem \/ WritePart \/ WriteShort \/ WriteFails) /\ ~ProcessEnd
  <2>1. UNCHANGED <<buffer, inflight>>
    BY <1>11 DEF RunFunctor, HandleWriteEmpty, WriteItem, WritePart,
       WriteShort, WriteFails, inputVars, seqVars
  <2> QED
    BY <1>3, <1>11, <2>1
<1>12. CASE (Peer \/ Worker \/ Main) /\ ~ProcessEnd
  <2>1. UNCHANGED <<buffer, inflight>>
    BY <1>12 DEF Peer, PeerSends, PeerStops, PeerReads, Worker, WorkerDone,
       Main, Signal, Post, inputVars, seqVars
  <2> QED
    BY <1>3, <1>12, <2>1
<1> QED
  BY <1>2, <1>4, <1>5, <1>7, <1>8, <1>9, <1>10, <1>11, <1>12 DEF Next, IoThread

(* Nothing is read, parsed or written on a connection that is closed.      *)
LEMMA ClosedIsFinal ==
  ASSUME TypeOK, StackInv, OrderInv, closed, [Next]_vars
  PROVE  closed' /\ UNCHANGED <<cause, buffer, wire, nextReqSeq, sendQueue>>
<1>1. /\ todo \in Seq(Frames) /\ ~HasOp(todo, "read") /\ sendQueue = <<>>
  BY DEF TypeOK, LoopType, StackInv, OrderInv
<1>2. closed' /\ UNCHANGED cause
  BY FunctorMoves
<1>3. ~Top("read")
  BY <1>1, HasOpTail DEF Top
<1>4. ASSUME NEW why, HandleClose(why) PROVE UNCHANGED sendQueue
  BY <1>4 DEF HandleClose
<1>5. ASSUME NEW seq, NEW final, Send(seq, final) PROVE UNCHANGED <<sendQueue, wire>>
  BY <1>5 DEF Send, outVars
<1>6. CASE UNCHANGED vars
  BY <1>2, <1>6 DEF vars, inputVars, outVars, seqVars
<1>7. CASE MaybeCloseAfterSend
  BY <1>2, <1>4, <1>7 DEF MaybeCloseAfterSend, inputVars, seqVars
<1>8. CASE Shutdown
  BY <1>2, <1>4, <1>8 DEF Shutdown, inputVars, seqVars
<1>9. CASE Close
  BY <1>2, <1>4, <1>9 DEF Close, inputVars, seqVars
<1>10. CASE DeliverResponse \/ HandleRead \/ ProcessEnd
  BY <1>2, <1>3, <1>10 DEF DeliverResponse, HandleRead, ProcessEnd, inputVars,
     seqVars, outVars
<1>11. CASE Drain
  BY <1>2, <1>5, <1>11 DEF Drain, inputVars, outVars, seqVars
<1>12. CASE SubmitRequest \/ RefuseRequest \/ SendContinue \/ \E http11 \in BOOLEAN : RejectRequest(http11)
  BY <1>12 DEF SubmitRequest, RefuseRequest, SendContinue, RejectRequest, MayProcess
<1>13. CASE Dispatch \/ RunFunctor
  BY <1>2, <1>13 DEF Dispatch, RunFunctor, inputVars, outVars, seqVars
<1>14. CASE HandleWriteEmpty \/ WriteItem \/ WritePart \/ WriteShort \/ WriteFails
  BY <1>1, <1>2, <1>14 DEF HandleWriteEmpty, WriteItem, WritePart, WriteShort,
     WriteFails, inputVars, seqVars
<1>15. CASE Peer \/ Worker \/ Main
  BY <1>2, <1>15 DEF Peer, PeerSends, PeerStops, PeerReads, Worker, WorkerDone,
     Main, Signal, Post,
     inputVars, outVars, seqVars
<1> QED
  BY <1>6, <1>7, <1>8, <1>9, <1>10, <1>11, <1>12, <1>13, <1>14, <1>15 DEF Next, IoThread

(* Every step keeps DrainedInv: when maybeCloseAfterSend() or shutdown()   *)
(* finds the connection drained, inflight_ is zero, so that a buffer that  *)
(* is not empty would have a processBufferedRequests() on the stack.       *)
LEMMA DrainedStep ==
  ASSUME TypeOK, StackInv, OrderInv, StrandInv, DrainedInv, [Next]_vars, TypeOK'
  PROVE  DrainedInv'
<1>1. todo \in Seq(Frames) /\ Shape(todo) /\ closed \in BOOLEAN /\ closed' \in BOOLEAN
      /\ (closed' <=> cause' # "open")
  BY DEF TypeOK, LoopType, CloseType, StackInv
<1>2. CASE ~closed /\ closed'
  <2> SUFFICES ASSUME cause' = "drained" PROVE buffer' = <<>>
    BY DEF DrainedInv
  <2>1. /\ todo # <<>> /\ Drained /\ buffer' = buffer
        /\ Top("shutdown") \/ (Top("maybeClose") /\ ~InProcess)
    BY <1>2, ClosingMoves
  <2>2. ~HasOp(todo, "process")
    <3>1. CASE Top("shutdown")
      <4>1. /\ 1 \in DOMAIN todo /\ todo[1].op = "shutdown"
            /\ \A i \in DOMAIN todo : i = 1 \/ 1 < i
        BY <1>1, <2>1, <3>1, TailElements DEF Top
      <4> QED
        BY <1>1, <4>1 DEF Shape, Bottom, HasOp
    <3>2. CASE Top("maybeClose") /\ ~InProcess
      BY <1>1, <2>1, <3>2, InProcessTail, HasOpTail DEF Top
    <3> QED
      BY <2>1, <3>1, <3>2
  <2>3. inflight = 0 /\ kMaxInflight # 0
    BY <2>1 DEF Drained
  <2> QED
    BY <1>2, <2>1, <2>2, <2>3 DEF StrandInv
<1>3. CASE closed
  BY <1>3, ClosedIsFinal DEF DrainedInv
<1>4. CASE ~closed'
  BY <1>1, <1>4 DEF DrainedInv
<1> QED
  BY <1>1, <1>2, <1>3, <1>4

(* send() and sendFile() on an open connection, when it stays open.        *)
LEMMA SendMoves ==
  ASSUME TypeOK, NEW seq \in Nat, NEW final \in BOOLEAN, Send(seq, final), ~closed, ~closed'
  PROVE  \E short \in BOOLEAN :
            LET item == Item(seq, final, short)
            IN  \/ /\ sending /\ sendQueue' = Append(sendQueue, item)
                   /\ UNCHANGED <<space, outEdge, events, sending, wire>>
                \/ /\ ~sending /\ short /\ sending' = TRUE
                   /\ sendQueue' = Append(sendQueue, item)
                   /\ events' = events \cup {"out"} /\ UNCHANGED wire
                \/ /\ ~sending /\ Write(item) /\ space
                   /\ UNCHANGED <<space, outEdge, events, sending, sendQueue>>
                \/ /\ ~sending /\ sending' = TRUE /\ space' = FALSE
                   /\ sendQueue' = Append(sendQueue, item)
                   /\ events' = events \cup {"out"} /\ UNCHANGED wire
  BY DEF Send, NeedsQueue, Queue, SendShort, SendWhole, SendBlocked, EnableWriting,
         HandleClose, closeVars

(* send() called from any callback but handleWrite() leaves waiting output *)
(* with a waker.                                                           *)
LEMMA SendKeepsOutput ==
  ASSUME TypeOK, OutputInv, NEW seq \in Nat, NEW final \in BOOLEAN, Send(seq, final),
         ~Top("write"), UNCHANGED todo
  PROVE  OutputInv'
<1> SUFFICES ASSUME ~closed' PROVE OutputInv'
  BY DEF OutputInv
<1>1. ~closed /\ sendQueue \in Seq(Items) /\ sending \in BOOLEAN
  BY DEF Send, closeVars, HandleClose, TypeOK, CloseType, OutType
<1>2. /\ sendQueue # <<>> => sending
      /\ sending => /\ sendQueue # <<>>
                    /\ "out" \in events
                    /\ \/ ~space \/ outEdge \/ HasOp(todo, "write")
                       \/ sendQueue # <<>> /\ Head(sendQueue).short
  BY <1>1 DEF OutputInv
<1>3. PICK short \in BOOLEAN :
            LET item == Item(seq, final, short)
            IN  \/ /\ sending /\ sendQueue' = Append(sendQueue, item)
                   /\ UNCHANGED <<space, outEdge, events, sending, wire>>
                \/ /\ ~sending /\ short /\ sending' = TRUE
                   /\ sendQueue' = Append(sendQueue, item)
                   /\ events' = events \cup {"out"} /\ UNCHANGED wire
                \/ /\ ~sending /\ Write(item) /\ space
                   /\ UNCHANGED <<space, outEdge, events, sending, sendQueue>>
                \/ /\ ~sending /\ sending' = TRUE /\ space' = FALSE
                   /\ sendQueue' = Append(sendQueue, item)
                   /\ events' = events \cup {"out"} /\ UNCHANGED wire
  BY <1>1, SendMoves
<1> DEFINE item == Item(seq, final, short)
<1>4. /\ item \in Items /\ item.short = short
      /\ Append(sendQueue, item) # <<>>
      /\ sendQueue # <<>> => Head(Append(sendQueue, item)) = Head(sendQueue)
      /\ sendQueue = <<>> => Head(Append(sendQueue, item)) = item
  <2>1. item \in Items /\ item.short = short
    BY DEF Item, Items
  <2> HIDE DEF item
  <2>2. /\ Append(sendQueue, item) \in Seq(Items) /\ Append(sendQueue, item) # <<>>
        /\ Head(Append(sendQueue, item)) = Append(sendQueue, item)[1]
    BY <1>1, <2>1, AppendProperties, HeadTailProperties
  <2>3. sendQueue # <<>> => Append(sendQueue, item)[1] = sendQueue[1] /\ Head(sendQueue) = sendQueue[1]
    BY <1>1, <2>1, AppendElements, TailElements
  <2>4. sendQueue = <<>> => Append(sendQueue, item)[1] = item
    BY <1>1, <2>1, AppendElements, EmptySeq
  <2> QED
    BY <2>1, <2>2, <2>3, <2>4
<1> HIDE DEF item
<1>5. CASE /\ sending /\ sendQueue' = Append(sendQueue, item)
           /\ UNCHANGED <<space, outEdge, events, sending, wire>>
  BY <1>2, <1>4, <1>5 DEF OutputInv
<1>6. CASE /\ ~sending /\ short /\ sending' = TRUE
           /\ sendQueue' = Append(sendQueue, item)
           /\ events' = events \cup {"out"}
  BY <1>2, <1>4, <1>6 DEF OutputInv
<1>7. CASE /\ ~sending /\ UNCHANGED <<space, outEdge, events, sending, sendQueue>>
  BY <1>2, <1>7 DEF OutputInv
<1>8. CASE /\ ~sending /\ sending' = TRUE /\ space' = FALSE
           /\ sendQueue' = Append(sendQueue, item)
           /\ events' = events \cup {"out"}
  BY <1>2, <1>4, <1>8 DEF OutputInv
<1> QED
  BY <1>3, <1>5, <1>6, <1>7, <1>8 DEF item

(* Every step keeps a waker for waiting output.                            *)
LEMMA OutputStep ==
  ASSUME TypeOK, LifeInv, OutputInv, [Next]_vars PROVE OutputInv'
<1> SUFFICES ASSUME ~closed' PROVE OutputInv'
  BY DEF OutputInv
<1>1. /\ ~closed /\ functors \in Seq(Functors) /\ todo \in Seq(Frames)
      /\ sendQueue \in Seq(Items)
      /\ sending \in BOOLEAN /\ nextReqSeq \in Nat
  BY FunctorMoves DEF TypeOK, CloseType, OutType, LoopType, SeqType
<1>2. /\ sendQueue # <<>> => sending
      /\ sending => /\ sendQueue # <<>> \/ Top("write")
                    /\ "out" \in events
                    /\ \/ ~space \/ outEdge \/ HasOp(todo, "write")
                       \/ sendQueue # <<>> /\ Head(sendQueue).short
  BY <1>1 DEF OutputInv
<1>3. ASSUME NEW why, HandleClose(why) PROVE FALSE
  BY <1>1, <1>3 DEF HandleClose
(* What leaves the output alone keeps the way it will be resumed.          *)
<1>4. ASSUME UNCHANGED <<sendQueue, sending, space>>,
             outEdge => outEdge' \/ HasOp(todo', "write"),
             "out" \in events => "out" \in events',
             Top("write") => Top("write")',
             HasOp(todo, "write") => HasOp(todo', "write")
      PROVE  OutputInv'
  BY <1>2, <1>4 DEF OutputInv
<1>5. ASSUME ~(WritePart \/ WriteShort \/ WriteFails \/ HandleWriteEmpty)
      PROVE  HasOp(todo, "write") => HasOp(todo', "write")
  BY <1>5, CallStays
<1>6. CASE UNCHANGED vars
  BY <1>4, <1>6 DEF vars, peerVars, outVars, closeVars, Top
<1>7. CASE MaybeCloseAfterSend
  <2>1. Top("maybeClose") /\ UNCHANGED <<sendQueue, sending, events, peerVars>>
    BY <1>3, <1>7 DEF MaybeCloseAfterSend, closeVars
  <2>2. ~Top("write") /\ (HasOp(todo, "write") => HasOp(todo', "write"))
    BY <1>5, <2>1 DEF Top, WritePart, WriteShort, WriteFails, HandleWriteEmpty
  <2> QED
    BY <1>4, <2>1, <2>2 DEF peerVars
<1>8. CASE Shutdown
  <2>1. /\ Top("shutdown") /\ UNCHANGED <<sendQueue, sending, space>>
        /\ events' = events \ {"in"} /\ (outEdge => outEdge')
    BY <1>3, <1>8 DEF Shutdown
  <2>2. ~Top("write") /\ (HasOp(todo, "write") => HasOp(todo', "write"))
    BY <1>5, <2>1 DEF Top, WritePart, WriteShort, WriteFails, HandleWriteEmpty
  <2> QED
    BY <1>4, <2>1, <2>2
<1>9. CASE Close
  BY <1>3, <1>9 DEF Close
<1>10. CASE DeliverResponse \/ ProcessEnd \/ HandleRead
  <2>1. /\ Top("deliver") \/ Top("process") \/ Top("read")
        /\ UNCHANGED <<sendQueue, sending, space, outEdge, events>>
    BY <1>10 DEF DeliverResponse, ProcessEnd, HandleRead, outVars, closeVars, peerVars
  <2>2. ~Top("write") /\ (HasOp(todo, "write") => HasOp(todo', "write"))
    BY <1>5, <2>1 DEF Top, WritePart, WriteShort, WriteFails, HandleWriteEmpty
  <2> QED
    BY <1>4, <2>1, <2>2
<1>11. CASE Drain
  <2>1. ~Top("write")
    BY <1>11 DEF Drain, Top
  <2>2. CASE NextToSend = {}
    <3>1. UNCHANGED <<sendQueue, sending, space, outEdge, events>>
      BY <1>11, <2>2 DEF Drain, outVars, closeVars
    <3>2. HasOp(todo, "write") => HasOp(todo', "write")
      BY <1>5, <2>1 DEF WritePart, WriteShort, WriteFails, HandleWriteEmpty
    <3> QED
      BY <1>4, <2>1, <3>1, <3>2
  <2>3. CASE NextToSend # {}
    <3>1. PICK n \in NextToSend : Send(n, TRUE) /\ todo' = todo
      BY <1>11, <2>3 DEF Drain
    <3>2. n \in Nat
      BY DEF NextToSend, TypeOK, SeqType
    <3> QED
      BY <2>1, <3>1, <3>2, SendKeepsOutput
  <2> QED
    BY <2>2, <2>3
<1>12. CASE SubmitRequest \/ RefuseRequest \/ \E http11 \in BOOLEAN : RejectRequest(http11)
  <2>1. /\ Top("process") /\ UNCHANGED <<sendQueue, sending, space, outEdge, events>>
    BY <1>12 DEF SubmitRequest, RefuseRequest, RejectRequest, outVars, closeVars, peerVars
  <2>2. ~Top("write") /\ (HasOp(todo, "write") => HasOp(todo', "write"))
    BY <1>5, <2>1 DEF Top, WritePart, WriteShort, WriteFails, HandleWriteEmpty
  <2> QED
    BY <1>4, <2>1, <2>2
<1>13. CASE SendContinue
  BY <1>1, <1>13, SendKeepsOutput DEF SendContinue, Top
<1>14. CASE Dispatch
  <2>1. /\ todo = <<>> /\ UNCHANGED <<sendQueue, sending, space, events>>
        /\ outEdge /\ "out" \in events => HasOp(todo', "write")
        /\ outEdge => outEdge' \/ "out" \in events
    BY <1>14, DispatchStack DEF Dispatch, outVars, closeVars
  <2>2. ~Top("write") /\ ~HasOp(todo, "write")
    BY <2>1, NewFrames DEF Top
  <2> QED
    BY <1>4, <2>1, <2>2
<1>15. CASE RunFunctor
  <2>1. /\ todo = <<>> /\ functors # <<>> /\ UNCHANGED <<sendQueue, sending, space, outEdge>>
        /\ UNCHANGED events \/ Head(functors).op = "establish"
    BY <1>15 DEF RunFunctor, outVars, peerVars
  <2>2. ~Top("write") /\ ~HasOp(todo, "write")
    BY <2>1, NewFrames DEF Top
  <2>3. Head(functors).op = "establish" => events = {}
    <3>1. 1 \in DOMAIN functors /\ functors[1] = Head(functors)
      BY <1>1, <2>1, TailElements
    <3> QED
      BY <3>1 DEF LifeInv, TypeOK, CloseType
  <2> QED
    BY <1>4, <2>1, <2>2, <2>3
<1>16. CASE HandleWriteEmpty
  BY <1>16 DEF HandleWriteEmpty, OutputInv
<1>17. CASE WriteItem
  <2>1. /\ Top("write") /\ sendQueue # <<>> /\ UNCHANGED <<sending, todo, events>>
    BY <1>17 DEF WriteItem, closeVars
  <2>2. HasOp(todo', "write") /\ Top("write")'
    BY <1>1, <2>1, HasOpTail DEF Top
  <2> QED
    BY <1>2, <2>1, <2>2 DEF OutputInv
<1>18. CASE WritePart
  BY <1>2, <1>18 DEF WritePart, OutputInv, outVars, closeVars
<1>19. CASE WriteShort
  BY <1>2, <1>19 DEF WriteShort, OutputInv, outVars, closeVars
<1>20. CASE WriteFails
  BY <1>3, <1>20 DEF WriteFails
<1>21. CASE Peer
  <2>1. CASE PeerReads
    <3>1. /\ UNCHANGED <<sendQueue, sending, todo, events>>
          /\ "out" \in events => outEdge'
      BY <2>1 DEF PeerReads, outVars, closeVars
    <3> QED
      BY <1>2, <3>1 DEF OutputInv, Top
  <2>2. CASE ~PeerReads
    <3>1. UNCHANGED <<sendQueue, sending, todo, events, space, outEdge>>
      BY <1>21, <2>2 DEF Peer, PeerSends, PeerStops, outVars, closeVars
    <3> QED
      BY <1>2, <3>1 DEF OutputInv, Top
  <2> QED
    BY <2>1, <2>2
<1>22. CASE Worker \/ Main
  <2>1. UNCHANGED <<sendQueue, sending, todo, events, space, outEdge>>
    BY <1>22 DEF Worker, WorkerDone, Main, Signal, Post, outVars, closeVars, peerVars
  <2> QED
    BY <1>2, <2>1 DEF OutputInv, Top
<1> QED
  BY <1>6, <1>7, <1>8, <1>9, <1>10, <1>11, <1>12, <1>13, <1>14, <1>15, <1>16,
     <1>17, <1>18, <1>19, <1>20, <1>21, <1>22
  DEF Next, IoThread

-----------------------------------------------------------------------------
(* With an empty queue every answer handed to send() is on the wire.       *)
LEMMA OrderedEmpty ==
  ASSUME NEW w \in Nat, NEW n \in Nat
  PROVE  /\ Ordered(<<>>, w, n) => w = n
         /\ Ordered(<<>>, w, w)
<1>1. Ordered(<<>>, w, n) => w = n
  <2> SUFFICES ASSUME Ordered(<<>>, w, n) PROVE w = n
    OBVIOUS
  <2>1. \A k \in w .. n - 1 : FALSE
    BY DEF Ordered
  <2>2. w <= n
    BY DEF Ordered
  <2>3. w \notin w .. n - 1
    BY <2>1
  <2> QED
    BY <2>2, <2>3
<1> QED
  BY <1>1 DEF Ordered

(* send() queues the next answer, or an interim response, at the end.      *)
LEMMA OrderedAppend ==
  ASSUME NEW q \in Seq(Items), NEW e \in Items, NEW w \in Nat, NEW n \in Nat,
         Ordered(q, w, n)
  PROVE  /\ ~e.final => Ordered(Append(q, e), w, n)
         /\ e.final /\ e.seq = n => Ordered(Append(q, e), w, n + 1)
<1> DEFINE u == Append(q, e)
           l == Len(q) + 1
<1>1. /\ l \in DOMAIN u /\ u[l] = e
      /\ \A i \in DOMAIN q : i \in DOMAIN u /\ u[i] = q[i] /\ i < l
      /\ \A i \in DOMAIN u : i # l => i \in DOMAIN q
      /\ \A i \in DOMAIN u : ~(l < i)
      /\ \A i \in DOMAIN q : q[i] \in Items
  BY AppendElements
<1> HIDE DEF u, l
<1>2. ASSUME ~e.final PROVE Ordered(u, w, n)
  <2>1. \A i \in DOMAIN u : u[i].final => i \in DOMAIN q /\ u[i] = q[i]
    BY <1>1, <1>2
  <2>2. \A k \in w .. n - 1 : \E i \in DOMAIN u : u[i].final /\ u[i].seq = k
    <3> SUFFICES ASSUME NEW k \in w .. n - 1
                 PROVE  \E i \in DOMAIN u : u[i].final /\ u[i].seq = k
      OBVIOUS
    <3>1. PICK i \in DOMAIN q : q[i].final /\ q[i].seq = k
      BY DEF Ordered
    <3> QED
      BY <1>1, <3>1
  <2> QED
    BY <2>1, <2>2 DEF Ordered
<1>3. ASSUME e.final, e.seq = n PROVE Ordered(u, w, n + 1)
  <2>1. w <= n + 1
    BY DEF Ordered
  <2>2. \A i \in DOMAIN u : u[i].final => u[i].seq \in w .. (n + 1) - 1
    <3>1. n \in w .. (n + 1) - 1 /\ w .. n - 1 \subseteq w .. (n + 1) - 1
      BY DEF Ordered
    <3> QED
      BY <1>1, <1>3, <3>1 DEF Ordered
  <2>3. ASSUME NEW i \in DOMAIN u, NEW j \in DOMAIN u, i < j, u[i].final, u[j].final
        PROVE  u[i].seq < u[j].seq
    <3>1. i # l
      BY <1>1, <2>3
    <3>2. CASE j = l
      <4>1. q[i].seq \in w .. n - 1
        BY <1>1, <2>3, <3>1 DEF Ordered
      <4> QED
        BY <1>1, <1>3, <2>3, <3>1, <3>2, <4>1
    <3>3. CASE j # l
      BY <1>1, <2>3, <3>1, <3>3 DEF Ordered
    <3> QED
      BY <3>2, <3>3
  <2>4. ASSUME NEW k \in w .. (n + 1) - 1 PROVE \E i \in DOMAIN u : u[i].final /\ u[i].seq = k
    <3>1. CASE k = n
      BY <1>1, <1>3, <3>1
    <3>2. CASE k # n
      <4>1. k \in w .. n - 1
        BY <3>2
      <4>2. PICK i \in DOMAIN q : q[i].final /\ q[i].seq = k
        BY <4>1 DEF Ordered
      <4> QED
        BY <1>1, <4>2
    <3> QED
      BY <3>1, <3>2
  <2> QED
    BY <2>1, <2>2, <2>3, <2>4 DEF Ordered
<1> QED
  BY <1>2, <1>3 DEF u

(* The first answer in the queue is the next one the wire is due.          *)
LEMMA OrderedTail ==
  ASSUME NEW q \in Seq(Items), q # <<>>, NEW w \in Nat, NEW n \in Nat,
         Ordered(q, w, n)
  PROVE  /\ ~Head(q).final => Ordered(Tail(q), w, n)
         /\ Head(q).final => /\ Head(q).seq = w /\ w < n
                             /\ Ordered(Tail(q), w + 1, n)
<1> DEFINE u == Tail(q)
           h == Head(q)
<1>1. /\ 1 \in DOMAIN q /\ q[1] = h
      /\ \A i \in DOMAIN u : i + 1 \in DOMAIN q /\ u[i] = q[i + 1] /\ 1 < i + 1
      /\ \A i \in DOMAIN q : i # 1 => i - 1 \in DOMAIN u /\ u[i - 1] = q[i] /\ 1 < i
      /\ \A i, j \in DOMAIN u : i < j => i + 1 < j + 1
      /\ \A i \in DOMAIN q : q[i] \in Items
  <2>1. \A i \in 2 .. Len(q) : i - 1 \in 1 .. Len(q) - 1 /\ (i - 1) + 1 = i
    BY TailElements
  <2> QED
    BY <2>1, TailElements
<1> HIDE DEF u, h
<1>2. \A i, j \in DOMAIN u : i < j /\ u[i].final /\ u[j].final => u[i].seq < u[j].seq
  BY <1>1 DEF Ordered
<1>3. \A i \in DOMAIN u : u[i].final => u[i].seq \in w .. n - 1
  BY <1>1 DEF Ordered
<1>4. ASSUME NEW k \in w .. n - 1, ~h.final \/ h.seq # k
      PROVE  \E i \in DOMAIN u : u[i].final /\ u[i].seq = k
  <2>1. PICK i \in DOMAIN q : q[i].final /\ q[i].seq = k
    BY DEF Ordered
  <2>2. i # 1
    BY <1>1, <1>4, <2>1
  <2> QED
    BY <1>1, <2>1, <2>2
<1>5. ASSUME ~h.final PROVE Ordered(u, w, n)
  BY <1>2, <1>3, <1>4, <1>5 DEF Ordered
<1>6. ASSUME h.final PROVE h.seq = w /\ w < n /\ Ordered(u, w + 1, n)
  <2>1. h.seq \in w .. n - 1
    BY <1>1, <1>6 DEF Ordered
  <2>2. h.seq = w
    <3>1. PICK i \in DOMAIN q : q[i].final /\ q[i].seq = w
      BY <2>1 DEF Ordered
    <3>2. CASE i # 1
      <4>1. q[1].seq < q[i].seq
        BY <1>1, <1>6, <3>1, <3>2 DEF Ordered
      <4> QED
        BY <1>1, <2>1, <3>1, <4>1
    <3> QED
      BY <1>1, <3>1, <3>2
  <2>3. \A i \in DOMAIN u : u[i].final => u[i].seq \in w + 1 .. n - 1
    <3> SUFFICES ASSUME NEW i \in DOMAIN u, u[i].final PROVE u[i].seq \in w + 1 .. n - 1
      OBVIOUS
    <3>1. q[1].seq < q[i + 1].seq /\ u[i] = q[i + 1]
      BY <1>1, <1>6 DEF Ordered
    <3>2. u[i].seq \in w .. n - 1
      BY <1>3
    <3> QED
      BY <1>1, <2>2, <3>1, <3>2
  <2>4. \A k \in w + 1 .. n - 1 : \E i \in DOMAIN u : u[i].final /\ u[i].seq = k
    <3> SUFFICES ASSUME NEW k \in w + 1 .. n - 1
                 PROVE  \E i \in DOMAIN u : u[i].final /\ u[i].seq = k
      OBVIOUS
    <3>1. k \in w .. n - 1 /\ h.seq # k
      BY <2>2
    <3> QED
      BY <1>4, <3>1
  <2> QED
    BY <1>2, <2>1, <2>2, <2>3, <2>4 DEF Ordered
<1> QED
  BY <1>5, <1>6 DEF u, h

(* Every step on an open connection keeps the queue in order, and writes   *)
(* either nothing or the answer due next: the nth answer on the wire is    *)
(* the one to the nth request, and none overtakes.                         *)
LEMMA WireMoves ==
  ASSUME TypeOK, OutputInv, OrderInv, ~closed, [Next]_vars
  PROVE  /\ closed' => sendQueue' = <<>> /\ UNCHANGED <<wire, nextReqSeq>>
         /\ ~closed' => Ordered(sendQueue', Len(wire'), nextSendSeq')
         /\ \/ UNCHANGED wire
            \/ /\ Len(wire) < nextReqSeq /\ wire' = Append(wire, Len(wire))
               /\ UNCHANGED <<nextReqSeq, cause>>
<1>1. /\ sendQueue \in Seq(Items) /\ wire \in Seq(Nat) /\ Len(wire) \in Nat
      /\ nextReqSeq \in Nat /\ nextSendSeq \in 0 .. nextReqSeq
      /\ Ordered(sendQueue, Len(wire), nextSendSeq)
      /\ sendQueue # <<>> => sending
  BY LenProperties DEF TypeOK, OutType, SeqType, OrderInv, OutputInv, Items
<1>2. ASSUME UNCHANGED <<wire, nextReqSeq>>,
             closed' => sendQueue' = <<>>,
             ~closed' => UNCHANGED <<sendQueue, nextSendSeq>>
      PROVE  /\ closed' => sendQueue' = <<>> /\ UNCHANGED <<wire, nextReqSeq>>
             /\ ~closed' => Ordered(sendQueue', Len(wire'), nextSendSeq')
             /\ UNCHANGED wire
  BY <1>1, <1>2
<1>3. ASSUME NEW why, HandleClose(why) PROVE closed' /\ sendQueue' = <<>>
  BY <1>3 DEF HandleClose
<1>4. CASE UNCHANGED vars
  BY <1>2, <1>4 DEF vars, outVars, closeVars, seqVars
<1>5. CASE MaybeCloseAfterSend
  <2>1. UNCHANGED <<wire, nextReqSeq, nextSendSeq>>
    BY <1>5 DEF MaybeCloseAfterSend, seqVars
  <2>2. (closed' /\ sendQueue' = <<>>) \/ UNCHANGED <<closed, sendQueue>>
    BY <1>3, <1>5 DEF MaybeCloseAfterSend, closeVars
  <2> QED
    BY <1>2, <2>1, <2>2
<1>6. CASE Shutdown
  <2>1. UNCHANGED <<wire, nextReqSeq, nextSendSeq>>
    BY <1>6 DEF Shutdown, seqVars
  <2>2. (closed' /\ sendQueue' = <<>>) \/ UNCHANGED <<closed, sendQueue>>
    BY <1>3, <1>6 DEF Shutdown
  <2> QED
    BY <1>2, <2>1, <2>2
<1>7. CASE Close \/ WriteFails
  BY <1>2, <1>3, <1>7 DEF Close, WriteFails, seqVars
<1>8. CASE DeliverResponse \/ ProcessEnd \/ HandleRead \/ Dispatch \/ RunFunctor
  BY <1>2, <1>8 DEF DeliverResponse, ProcessEnd, HandleRead, Dispatch, RunFunctor, outVars,
     closeVars, seqVars
<1>9. CASE SubmitRequest \/ RefuseRequest \/ \E http11 \in BOOLEAN : RejectRequest(http11)
  <2>1. UNCHANGED <<closed, sendQueue, wire, nextSendSeq>>
    BY <1>9 DEF SubmitRequest, RefuseRequest, RejectRequest, NextRequestSeq,
       outVars, closeVars
  <2> QED
    BY <1>1, <2>1
<1>10. CASE HandleWriteEmpty \/ WritePart \/ WriteShort
  BY <1>2, <1>10 DEF HandleWriteEmpty, WritePart, WriteShort, outVars, closeVars, seqVars
<1>11. CASE Peer \/ Worker \/ Main
  BY <1>2, <1>11
  DEF Peer, PeerSends, PeerStops, PeerReads, Worker, WorkerDone, Main, Signal,
     Post, outVars,
      closeVars, seqVars
<1>12. CASE WriteItem
  <2> DEFINE h == Head(sendQueue)
  <2>1. /\ sendQueue # <<>> /\ sendQueue' = Tail(sendQueue)
        /\ wire' = IF h.final THEN Append(wire, h.seq) ELSE wire
        /\ UNCHANGED <<closed, cause, nextReqSeq, nextSendSeq>>
    BY <1>12 DEF WriteItem, Write, closeVars, seqVars
  <2>2. /\ ~h.final => Ordered(Tail(sendQueue), Len(wire), nextSendSeq)
        /\ h.final => /\ h.seq = Len(wire) /\ Len(wire) < nextSendSeq
                      /\ Ordered(Tail(sendQueue), Len(wire) + 1, nextSendSeq)
    BY <1>1, <2>1, OrderedTail
  <2>3. CASE ~h.final
    BY <2>1, <2>2, <2>3
  <2>4. CASE h.final
    <3>1. Len(Append(wire, h.seq)) = Len(wire) + 1
      BY <1>1, <2>2, <2>4, AppendProperties
    <3> QED
      BY <1>1, <2>1, <2>2, <2>4, <3>1
  <2> QED
    BY <2>3, <2>4
<1>13. ASSUME NEW seq \in Nat, NEW final \in BOOLEAN, Send(seq, final), UNCHANGED nextReqSeq,
              IF final THEN seq = nextSendSeq /\ nextSendSeq < nextReqSeq /\ nextSendSeq' = nextSendSeq + 1
                       ELSE UNCHANGED nextSendSeq
       PROVE  /\ closed' => sendQueue' = <<>> /\ UNCHANGED <<wire, nextReqSeq>>
              /\ ~closed' => Ordered(sendQueue', Len(wire'), nextSendSeq')
              /\ \/ UNCHANGED wire
                 \/ /\ Len(wire) < nextReqSeq /\ wire' = Append(wire, Len(wire))
                    /\ UNCHANGED <<nextReqSeq, cause>>
  <2>1. CASE closed'
    BY <1>13, <2>1 DEF Send, SendShort, SendWhole, SendBlocked, HandleClose, closeVars
  <2>2. CASE ~closed'
    <3>0. UNCHANGED cause
      BY <2>2, FunctorMoves
    <3>1. PICK short \in BOOLEAN :
             \/ /\ sendQueue' = Append(sendQueue, Item(seq, final, short))
                /\ UNCHANGED wire
             \/ ~sending /\ Write(Item(seq, final, short)) /\ UNCHANGED sendQueue
      BY <1>13, <2>2, SendMoves
    <3> DEFINE item == Item(seq, final, short)
    <3>2. item \in Items /\ item.seq = seq /\ item.final = final
      BY DEF Item, Items
    <3> HIDE DEF item
    <3>3. CASE sendQueue' = Append(sendQueue, item) /\ UNCHANGED wire
      <4>1. /\ ~final => Ordered(Append(sendQueue, item), Len(wire), nextSendSeq)
            /\ final /\ seq = nextSendSeq => Ordered(Append(sendQueue, item), Len(wire), nextSendSeq + 1)
        BY <1>1, <3>2, OrderedAppend
      <4> QED
        BY <1>13, <2>2, <3>3, <4>1
    <3>4. CASE ~sending /\ Write(item) /\ UNCHANGED sendQueue
      <4>1. sendQueue = <<>> /\ Len(wire) = nextSendSeq
        BY <1>1, <3>4, OrderedEmpty
      <4>2. CASE ~final
        BY <1>1, <1>13, <2>2, <3>2, <3>4, <4>2 DEF Write
      <4>3. CASE final
        <5>1. wire' = Append(wire, Len(wire)) /\ Len(wire') = nextSendSeq + 1
          BY <1>1, <1>13, <3>2, <3>4, <4>1, <4>3, AppendProperties DEF Write
        <5>2. Ordered(<<>>, nextSendSeq + 1, nextSendSeq + 1)
          BY <1>1, OrderedEmpty
        <5> QED
          BY <1>13, <2>2, <3>0, <3>4, <4>1, <4>3, <5>1, <5>2
      <4> QED
        BY <4>2, <4>3
    <3> QED
      BY <3>1, <3>3, <3>4 DEF item
  <2> QED
    BY <2>1, <2>2
<1>14. CASE Drain
  <2>1. CASE NextToSend = {}
    BY <1>2, <1>14, <2>1 DEF Drain, outVars, closeVars, seqVars
  <2>2. CASE NextToSend # {}
    <3>1. PICK n \in NextToSend :
            Send(n, TRUE) /\ nextSendSeq' = nextSendSeq + 1 /\ UNCHANGED nextReqSeq
      BY <1>14, <2>2 DEF Drain
    <3>2. n \in Nat /\ n = nextSendSeq /\ nextSendSeq < nextReqSeq
      BY <1>1 DEF NextToSend, TypeOK, SeqType
    <3> QED
      BY <1>13, <3>1, <3>2
  <2> QED
    BY <2>1, <2>2
<1>15. CASE SendContinue
  BY <1>1, <1>13, <1>15 DEF SendContinue, seqVars
<1> QED
  BY <1>4, <1>5, <1>6, <1>7, <1>8, <1>9, <1>10, <1>11, <1>12, <1>14,
     <1>15 DEF Next, IoThread

(* Every step keeps the output queue in order.                             *)
LEMMA OrderStep ==
  ASSUME TypeOK, StackInv, OutputInv, OrderInv, [Next]_vars, TypeOK' PROVE OrderInv'
<1>1. CASE closed
  BY <1>1, ClosedIsFinal DEF OrderInv
<1>2. CASE ~closed
  BY <1>2, WireMoves DEF OrderInv
<1> QED
  BY <1>1, <1>2 DEF TypeOK, CloseType

-----------------------------------------------------------------------------
(* The inductive invariant.  Its parts need each other: the account of the *)
(* requests needs the shape of the stack, the drained close needs the      *)
(* account and the strand, the order of the output needs sending_.         *)
IInv == /\ TypeOK /\ LifeInv /\ StackInv /\ RangeInv /\ AccountInv
        /\ OutputInv /\ GuardInv /\ ForceInv /\ StrandInv /\ OrderInv
        /\ DrainedInv

(* A new connection satisfies the invariant.                               *)
LEMMA InitIInv == Init => IInv
<1> SUFFICES ASSUME Init PROVE IInv
  OBVIOUS
<1> USE DEF Init
<1>1. /\ todo = <<>> /\ functors = <<Functor("establish", 0, FALSE)>>
      /\ ~HasOp(todo, "deliver") /\ Shape(todo) /\ \A op : ~HasOp(todo, op)
  BY NewFrames
<1>2. /\ functors \in Seq(Functors) /\ DOMAIN functors = {1} /\ functors # <<>>
      /\ functors[1].op = "establish"
  <2>1. Functor("establish", 0, FALSE) \in Functors
    BY FramesTyped
  <2> QED
    BY <2>1 DEF Functor
<1>3. TypeOK
  <2>0. \A S : <<>> \in Seq(S)
    OBVIOUS
  <2>1. PeerType
    <3>1. sock \in Seq(Kinds \cup {"body"}) /\ asked \in 0 .. MaxRequests
      BY <2>0
    <3> QED
      BY <3>1 DEF PeerType
  <2>4. CloseType
    BY DEF CloseType
  <2>5. OutType
    BY <2>0 DEF OutType
  <2>2. SeqType
    BY DEF SeqType
  <2>3. LoopType
    BY <1>2, <2>0 DEF LoopType
  <2> QED
    BY <2>1, <2>2, <2>3, <2>4, <2>5 DEF TypeOK
<1>4. LifeInv
  BY <1>2 DEF LifeInv
<1>5. StackInv /\ GuardInv /\ StrandInv /\ DrainedInv /\ OutputInv
  BY <1>1 DEF StackInv, GuardInv, StrandInv, DrainedInv, OutputInv
<1>6. ForceInv
  BY <1>1, <1>2 DEF ForceInv, HasOp
<1>7. AtWork = {} /\ Delivers(functors) = {} /\ Delivers(todo) = {} /\ Unique(functors)
  BY <1>1, <1>2, DeliversEmpty DEF AtWork, HasOp, Unique
<1>8. RangeInv /\ AccountInv
  BY <1>7, FS_EmptySet DEF RangeInv, AccountInv
<1>9. OrderInv
  <2>1. Len(wire) = 0
    OBVIOUS
  <2> QED
    BY <2>1, OrderedEmpty DEF OrderInv
<1> QED
  BY <1>3, <1>4, <1>5, <1>6, <1>8, <1>9 DEF IInv

(* Every step keeps the invariant.                                         *)
LEMMA StepIInv == IInv /\ [Next]_vars => IInv'
<1> SUFFICES ASSUME IInv, [Next]_vars PROVE IInv'
  OBVIOUS
<1> USE DEF IInv
<1>1. TypeOK'
  BY TypeStep
<1>2. LifeInv' /\ StackInv' /\ RangeInv' /\ AccountInv'
  BY LifeStep, StackStep, AccountStep
<1>3. OutputInv' /\ GuardInv' /\ ForceInv' /\ StrandInv'
  BY OutputStep, GuardStep, ForceStep, StrandStep
<1>4. OrderInv' /\ DrainedInv'
  BY <1>1, OrderStep, DrainedStep
<1> QED
  BY <1>1, <1>2, <1>3, <1>4

(* The inductive invariant holds in every state of every run, for any      *)
(* kMaxInflight_, any number of requests of any kinds, and with files that *)
(* shrink or do not.                                                       *)
THEOREM Invariance == Spec => []IInv
  BY InitIInv, StepIInv, PTL DEF Spec

(* TypeOK: in particular inflight_ stays within 0 .. kMaxInflight_ and a   *)
(* closed connection has left epoll, for all values of the constants.      *)
THEOREM TypeCorrect == Spec => []TypeOK
<1>1. IInv => TypeOK
  BY DEF IInv
<1> QED
  BY <1>1, Invariance, PTL

(* A request is delivered at most once, so that counting its deliveries is *)
(* asking whether it has one.                                              *)
LEMMA CountDelivers ==
  ASSUME NEW t, Unique(t), NEW n
  PROVE  Cardinality({i \in DOMAIN t : t[i].op = "deliver" /\ t[i].seq = n})
            = IF n \in Delivers(t) THEN 1 ELSE 0
<1> DEFINE P == {i \in DOMAIN t : t[i].op = "deliver" /\ t[i].seq = n}
<1>1. CASE n \in Delivers(t)
  <2>1. PICK i \in DOMAIN t : t[i].op = "deliver" /\ t[i].seq = n
    BY <1>1 DEF Delivers
  <2>2. P = {i}
    BY <2>1 DEF Unique
  <2> QED
    BY <1>1, <2>2, FS_Singleton
<1>2. CASE n \notin Delivers(t)
  <2>1. P = {}
    BY <1>2 DEF Delivers
  <2> QED
    BY <1>2, <2>1, FS_EmptySet
<1> QED
  BY <1>1, <1>2

(* RequestsAccounted: processBufferedRequests(), the workers and           *)
(* deliverResponse() together never lose a request, never answer one       *)
(* twice, and never leak a place in the pool.                              *)
THEOREM Accounted == Spec => []RequestsAccounted
<1>1. ASSUME IInv PROVE RequestsAccounted
  <2> SUFFICES ASSUME ~closed
               PROVE  /\ \A n \in 0 .. nextReqSeq - 1 :
                            (IF n < nextSendSeq THEN 1 ELSE 0) + (IF n \in pendingResp THEN 1 ELSE 0)
                               + (IF n \in working THEN 1 ELSE 0) + Delivering(n) = 1
                      /\ inflight = Cardinality({n \in 0 .. nextReqSeq - 1 :
                                                    n \in working \/ Delivering(n) > 0})
    BY DEF RequestsAccounted
  <2>1. /\ TypeOK /\ Shape(todo) /\ RangeInv
        /\ AtWork \cup pendingResp = nextSendSeq .. nextReqSeq - 1
        /\ AtWork \cap pendingResp = {}
        /\ working \cap Delivers(functors) = {}
        /\ working \cap Delivers(todo) = {}
        /\ Delivers(functors) \cap Delivers(todo) = {}
        /\ Unique(functors)
        /\ inflight = Cardinality(AtWork)
    BY <1>1 DEF IInv, AccountInv, StackInv
  <2>2. Unique(todo)
    BY <2>1 DEF Shape, Unique
  <2>3. \A n : Delivering(n) = (IF n \in Delivers(functors) THEN 1 ELSE 0)
                             + (IF n \in Delivers(todo) THEN 1 ELSE 0)
    BY <2>1, <2>2, CountDelivers DEF Delivering
  <2>4. ASSUME NEW n \in 0 .. nextReqSeq - 1
        PROVE  (IF n < nextSendSeq THEN 1 ELSE 0) + (IF n \in pendingResp THEN 1 ELSE 0)
                  + (IF n \in working THEN 1 ELSE 0) + Delivering(n) = 1
    <3>1. nextSendSeq \in Nat /\ nextReqSeq \in Nat
      BY <2>1 DEF TypeOK, SeqType
    <3>2. n < nextSendSeq <=> n \notin AtWork \cup pendingResp
      BY <2>1, <3>1
    <3> QED
      BY <2>1, <2>3, <3>2 DEF AtWork
  <2>5. {n \in 0 .. nextReqSeq - 1 : n \in working \/ Delivering(n) > 0} = AtWork
    BY <2>1, <2>3 DEF AtWork, RangeInv
  <2> QED
    BY <2>1, <2>4, <2>5
<1> QED
  BY <1>1, Invariance, PTL

(* NoStrandedRequest: no complete request waits in inputBuffer_ for an     *)
(* edge that will not come, while the connection still has room for it.    *)
THEOREM NothingStranded == Spec => []NoStrandedRequest
<1>1. ASSUME IInv PROVE NoStrandedRequest
  BY <1>1, NewFrames DEF IInv, StrandInv, NoStrandedRequest
<1> QED
  BY <1>1, Invariance, PTL

(* DrainedMeansServed: a close that found nothing owed to the peer has     *)
(* left no request in inputBuffer_ either.                                 *)
THEOREM DrainedServed == Spec => []DrainedMeansServed
<1>1. ASSUME IInv PROVE DrainedMeansServed
  BY <1>1 DEF IInv, DrainedInv, DrainedMeansServed
<1> QED
  BY <1>1, Invariance, PTL

(* BlockedOutputHasWaker: with edge-triggered epoll and a send() that      *)
(* writes directly when it can, queued output always has an EPOLLOUT edge  *)
(* to come, but for a file that shrank.                                    *)
THEOREM OutputWoken == Spec => []BlockedOutputHasWaker
<1>1. ASSUME IInv PROVE BlockedOutputHasWaker
  <2> SUFFICES ASSUME todo = <<>>, ~closed
               PROVE  /\ sending <=> sendQueue # <<>>
                      /\ sending => /\ "out" \in events
                                    /\ ~space \/ outEdge \/ Head(sendQueue).short
    BY DEF BlockedOutputHasWaker
  <2>1. ~HasOp(todo, "write") /\ ~Top("write") /\ sending \in BOOLEAN
    BY <1>1, NewFrames DEF Top, IInv, TypeOK, OutType
  <2> QED
    BY <1>1, <2>1 DEF IInv, OutputInv
<1> QED
  BY <1>1, Invariance, PTL

(* EventsOutliveClose: the raw Channel pointers that epoll_wait returned   *)
(* are dispatched while handleClose()'s guard still owns the connection.   *)
THEOREM EventsOwned == Spec => []EventsOutliveClose
<1>1. ASSUME IInv PROVE EventsOutliveClose
  BY <1>1 DEF IInv, GuardInv, EventsOutliveClose, HasOp
<1> QED
  BY <1>1, Invariance, PTL

(* HalfCloseKeepsAnswers: a FIN alone never makes handleRead() or          *)
(* handleClose() cut the answers off.                                      *)
THEOREM HalfCloseSafe == Spec => []HalfCloseKeepsAnswers
<1>1. ASSUME IInv PROVE HalfCloseKeepsAnswers
  BY <1>1 DEF IInv, ForceInv, Forced, HalfCloseKeepsAnswers
<1> QED
  BY <1>1, Invariance, PTL

(* TcpConnection implements ResponsePipeline: answers reach the peer in    *)
(* request order, one each, and after a graceful end none is owed.         *)
(* Initial states map to initial states, and every step to a step of the   *)
(* pipeline or to a stutter.                                               *)
THEOREM PipelineRefined == Spec => ImplementsPipeline
<1> DEFINE ended == CASE cause = "open" -> "open"
                      [] cause \in {"drained", "refused"} -> "gracefully"
                      [] OTHER -> "abruptly"
<1>1. Init => Pipeline!Init
  BY DEF Init, Pipeline!Init
<1>2. ASSUME IInv, [Next]_vars PROVE [Pipeline!Next]_(Pipeline!vars)
  <2>0. TypeOK' /\ IInv'
    BY <1>2, StepIInv DEF IInv
  <2>1. CASE closed
    <3>1. UNCHANGED <<cause, wire, nextReqSeq>>
      BY <1>2, <2>1, ClosedIsFinal DEF IInv
    <3> QED
      BY <3>1 DEF Pipeline!vars
  <2>2. CASE ~closed /\ closed'
    <3>1. /\ UNCHANGED <<wire, nextReqSeq>>
          /\ cause = "open" /\ cause' \in {"drained", "refused", "forced", "error"}
      BY <1>2, <2>0, <2>2, WireMoves DEF IInv, TypeOK, CloseType
    <3>2. CASE cause' \in {"drained", "refused"}
      <4>1. Drained
        BY <1>2, <2>2, <3>2, ClosingMoves DEF IInv
      <4>2. /\ sendQueue = <<>> /\ inflight = 0 /\ pendingResp = {}
            /\ nextSendSeq \in 0 .. nextReqSeq /\ nextReqSeq \in Nat
            /\ Len(wire) \in Nat
            /\ Ordered(sendQueue, Len(wire), nextSendSeq)
            /\ AtWork \cup pendingResp = nextSendSeq .. nextReqSeq - 1
            /\ Cardinality(AtWork) = 0 /\ IsFiniteSet(AtWork)
        BY <1>2, <2>2, <4>1, AtWorkFinite, LenProperties
        DEF Drained, IInv, TypeOK, SeqType, OutType, OrderInv, AccountInv
      <4>3. AtWork = {}
        BY <4>2, FS_EmptySet
      <4>4. nextSendSeq = nextReqSeq
        <5>1. nextSendSeq \notin nextSendSeq .. nextReqSeq - 1
          BY <4>2, <4>3
        <5> QED
          BY <4>2, <5>1
      <4>5. Len(wire) = nextReqSeq
        BY <4>2, <4>4, OrderedEmpty
      <4>6. Pipeline!EndGracefully
        BY <3>1, <3>2, <4>5 DEF Pipeline!EndGracefully
      <4> QED
        BY <4>6 DEF Pipeline!Next
    <3>3. CASE cause' \in {"forced", "error"}
      <4>1. Pipeline!EndAbruptly
        BY <3>1, <3>3 DEF Pipeline!EndAbruptly
      <4> QED
        BY <4>1 DEF Pipeline!Next
    <3> QED
      BY <3>1, <3>2, <3>3
  <2>3. CASE ~closed /\ ~closed'
    <3>1. cause = "open" /\ cause' = "open"
      BY <1>2, <2>0, <2>3 DEF IInv, TypeOK, CloseType
    <3>2. CASE UNCHANGED <<wire, nextReqSeq>>
      BY <3>1, <3>2 DEF Pipeline!vars
    <3>3. CASE /\ Len(wire) < nextReqSeq /\ wire' = Append(wire, Len(wire))
               /\ UNCHANGED nextReqSeq
      <4>1. Pipeline!Answer
        BY <3>1, <3>3 DEF Pipeline!Answer
      <4> QED
        BY <4>1 DEF Pipeline!Next
    <3>4. CASE UNCHANGED wire /\ nextReqSeq' = nextReqSeq + 1
      <4>1. Pipeline!Parse
        BY <3>1, <3>4 DEF Pipeline!Parse
      <4> QED
        BY <4>1 DEF Pipeline!Next
    <3>5. UNCHANGED nextReqSeq \/ nextReqSeq' = nextReqSeq + 1
      BY <1>2, SeqMoves DEF IInv, seqVars, NextRequestSeq, DeliverResponse
    <3>6. \/ UNCHANGED wire
          \/ /\ Len(wire) < nextReqSeq /\ wire' = Append(wire, Len(wire))
             /\ UNCHANGED nextReqSeq
      BY <1>2, <2>3, WireMoves DEF IInv
    <3> QED
      BY <3>2, <3>3, <3>4, <3>5, <3>6
  <2> QED
    BY <2>0, <2>1, <2>2, <2>3 DEF TypeOK, CloseType
<1> QED
  BY <1>1, <1>2, Invariance, PTL DEF Spec, ImplementsPipeline, Pipeline!Spec

=============================================================================
