------------------------------ MODULE HttpContext ------------------------------
(***************************************************************************)
(* A connection's input: readFd fills the Buffer, processBufferedRequests  *)
(* calls the message callback, which parses one request with HttpContext   *)
(* and keeps the parser's state for the bytes that have not come yet.      *)
(*                                                                         *)
(* The client sends the bytes of a script of messages (HttpMessages); TCP  *)
(* cuts them anywhere, inside a CRLF or a body too.  A line's text is one  *)
(* byte here.  What happens to a request afterwards (workers, the order of *)
(* the answers, closing) is TcpConnection's matter: here an answer is only *)
(* what lets the loop go on when kMaxInflight_ had stopped it.             *)
(*                                                                         *)
(* The client sends only while the thread is not parsing: parsing does not *)
(* look at the socket.                                                     *)
(***************************************************************************)
EXTENDS Buffer, HttpMessages

CONSTANTS Scripts,         \* what clients send: sequences of messages
          MaxInflight      \* kMaxInflight_

ASSUME InputAssumption ==
    /\ MaxInflight \in Nat \ {0}
    /\ MaxHeaderLine \in Nat /\ MaxHeaderBytes \in Nat /\ MaxBodyBytes \in Nat
    /\ \A s \in Scripts : s \in Seq(ToSet(s)) /\ \A m \in ToSet(s) : IsMessage(m)

VARIABLES
    script,      \* what this client sends
    sent,        \* how many bytes of it are on their way or have arrived
    received,    \* how many the server has read from the socket
    consumed,    \* history: how many of those the parser has taken
    input,       \* inputBuffer_
    ctx,         \* the HttpContext
    pc,          \* where the IO thread stands
    oldLen,      \* oldLen in processBufferedRequests
    inflight,    \* inflight_
    closed,      \* the connection is closed after an error
    outcomes,    \* what the callback made of the bytes, in order
    continued    \* the messages for which 100 Continue was sent, in order

callVars == <<pc, oldLen>>
outVars  == <<inflight, closed, outcomes, continued>>
vars == <<script, sent, received, consumed, input, ctx, callVars, outVars>>

NewContext ==
    [state |-> "line", line |-> "", headers |-> <<>>, headerBytes |-> 0,
     length |-> 0, lengthSeen |-> FALSE, hostSeen |-> FALSE,
     expect |-> FALSE, continueSent |-> FALSE]

Init ==
    /\ script \in Scripts
    /\ sent = 0 /\ received = 0 /\ consumed = 0
    /\ input = NewBuffer
    /\ ctx = NewContext
    /\ pc = "wait" /\ oldLen = 0
    /\ inflight = 0 /\ closed = FALSE
    /\ outcomes = <<>> /\ continued = <<>>

StreamOf == [s \in Scripts |-> Bytes(s)]
Stream == StreamOf[script]
ReadableBytes == input.w - input.r

(***************************************************************************)
(* The socket                                                              *)
(***************************************************************************)
ClientSends ==
    /\ pc \in {"wait", "read"}
    /\ \E n \in 1 .. Len(Stream) - sent : sent' = sent + n
    /\ UNCHANGED <<script, received, consumed, input, ctx, callVars, outVars>>

(* handleRead, when epoll reports what has arrived.                        *)
HandleRead ==
    /\ pc = "wait" /\ ~closed
    /\ sent > received
    /\ pc' = "read"
    /\ UNCHANGED <<script, sent, received, consumed, input, ctx, oldLen, outVars>>

Readv ==
    /\ pc = "read" /\ sent > received
    /\ LET n == ReadSize(input, sent - received)
       IN  /\ input' = ReadInto(input, SubSeq(Stream, received + 1, received + n))
           /\ received' = received + n
    /\ UNCHANGED <<script, sent, consumed, ctx, callVars, outVars>>

(* EAGAIN ends the reading.                                                *)
ReadDone ==
    /\ pc = "read" /\ sent = received
    /\ pc' = "process"
    /\ UNCHANGED <<script, sent, received, consumed, input, ctx, oldLen, outVars>>

(* reset(): the parser forgets the request it has finished.                *)
Reset_mutated == [NewContext EXCEPT !.hostSeen = ctx.hostSeen]
Reset == NewContext

(***************************************************************************)
(* processBufferedRequests                                                 *)
(***************************************************************************)
CallBack ==
    /\ pc = "process"
    /\ IF ~closed /\ inflight < MaxInflight /\ ReadableBytes > 0
       THEN pc' = "parse" /\ oldLen' = ReadableBytes
       ELSE pc' = "wait" /\ UNCHANGED oldLen
    /\ UNCHANGED <<script, sent, received, consumed, input, ctx, outVars>>

(* What was consumed decides whether the callback is called again.         *)
Returns ==
    pc' = IF input'.w - input'.r >= oldLen THEN "wait" ELSE "process"

Takes(n) == /\ input' = Consumed(input, n)
            /\ consumed' = consumed + n

(* The callback finds no whole request: 100 Continue, once, for a client   *)
(* that waits for it before it sends the body.                             *)
ShouldSendContinue ==
    ctx.expect /\ ~ctx.continueSent /\ ctx.state = "body"

Incomplete ==
    /\ IF ShouldSendContinue
       THEN /\ continued' = Append(continued, Len(outcomes) + 1)
            /\ ctx' = [ctx EXCEPT !.continueSent = TRUE]
       ELSE UNCHANGED <<continued, ctx>>
    /\ UNCHANGED <<input, consumed, inflight, closed, outcomes>>
    /\ Returns

(* An error is answered in the callback, in its turn, and the connection   *)
(* is marked for closing: it closes at once if nothing is in flight and    *)
(* the peer takes the answer.                                              *)
Fails(code, n) ==
    /\ outcomes' = Append(outcomes, [code |-> code, line |-> "",
                                     headers |-> <<>>, body |-> <<>>])
    /\ closed' \in IF inflight = 0 THEN BOOLEAN ELSE {FALSE}
    /\ ctx' = Reset
    /\ Takes(n)
    /\ Returns
    /\ UNCHANGED <<inflight, continued>>

(* A request goes to the pool, or is answered with 503 if that is full.    *)
Completes(body, n) ==
    /\ outcomes' = Append(outcomes, [code |-> 200, line |-> ctx.line,
                                     headers |-> ctx.headers, body |-> body])
    /\ inflight' \in {inflight, inflight + 1}
    /\ ctx' = Reset
    /\ Takes(n)
    /\ Returns
    /\ UNCHANGED <<closed, continued>>

GoesOn(context, n) ==
    /\ ctx' = context
    /\ Takes(n)
    /\ UNCHANGED <<pc, outVars>>

(***************************************************************************)
(* HttpContext::parseRequest: a line at a time while there is one.         *)
(***************************************************************************)

(* findCrlf: where the first CRLF of the readable bytes begins, or 0.      *)
FindCrlf ==
    LET bytes == Readable(input)
        ends == {i \in 1 .. Len(bytes) - 1 : SubSeq(bytes, i, i + 1) = CRLF}
    IN  Min(ends \union {Len(bytes) + 1})
HasLine == FindCrlf < ReadableBytes
Line == SubSeq(Readable(input), 1, FindCrlf - 1)
WholeLine == Len(Line) + Len(CRLF)

(* A line the client did not mean as one, after an error, has no meaning.  *)
TextOf(line) == IF Len(line) = 1 THEN line[1] ELSE "garbage"
SizeOf(line) == IF TextOf(line) \in DOMAIN Size THEN Size[TextOf(line)] ELSE Len(line)

(* parseRequestLine: the first thing wrong with the line, in this order.   *)
LineError(text) ==
    IF text = "PATCH" THEN 405
    ELSE IF text = "HTTP/2" THEN 505
    ELSE IF text \notin {"GET-1.1", "GET-1.0"} THEN 400
    ELSE 0

ParseRequestLine ==
    /\ pc = "parse" /\ ctx.state = "line"
    /\ IF ~HasLine THEN Incomplete
       ELSE IF SizeOf(Line) > MaxHeaderLine THEN Fails(413, WholeLine)
       ELSE IF LineError(TextOf(Line)) # 0 THEN Fails(LineError(TextOf(Line)), WholeLine)
       ELSE GoesOn([ctx EXCEPT !.line = TextOf(Line), !.state = "headers"], WholeLine)
    /\ UNCHANGED <<script, sent, received, oldLen>>

(* parseHeader: what is refused, with what the context has seen.           *)
Names == {"host", "host-empty", "encoding", "length-bad", "expect",
          "expect-other", "big"} \union Lengths
HeaderError(text) ==
    IF text \notin Names \union {"long"} THEN 400
    ELSE IF text = "encoding" THEN 501
    ELSE IF text = "length-bad" \/ text = "host-empty" THEN 400
    ELSE IF text \in Lengths /\ ctx.lengthSeen /\ LengthOf[text] # ctx.length THEN 400
    ELSE IF text = "host" /\ ctx.hostSeen THEN 400
    ELSE IF text = "expect-other" THEN 417
    ELSE 0

WithHeader(text, size) ==
    [ctx EXCEPT
        !.headers = Append(@, text),
        !.headerBytes = @ + size,
        !.length = IF text \in Lengths THEN LengthOf[text] ELSE @,
        !.lengthSeen = @ \/ text \in Lengths,
        !.hostSeen = @ \/ text = "host",
        !.expect = @ \/ text = "expect"]

ParseHeader ==
    /\ pc = "parse" /\ ctx.state = "headers"
    /\ HasLine => Line # <<>>
    /\ IF ~HasLine THEN Incomplete
       ELSE LET text == TextOf(Line)
                size == SizeOf(Line)
            IN  IF size > MaxHeaderLine \/ ctx.headerBytes + size > MaxHeaderBytes
                THEN Fails(413, WholeLine)
                ELSE IF HeaderError(text) # 0 THEN Fails(HeaderError(text), WholeLine)
                ELSE GoesOn(WithHeader(text, size), WholeLine)
    /\ UNCHANGED <<script, sent, received, oldLen>>

(* The empty line ends the headers; what they leave wrong is refused       *)
(* before the state changes, and so before a 100 Continue.                 *)
HeadersError_mutated == IF ctx.line = "GET-1.1" /\ ~ctx.hostSeen THEN 400 ELSE 0
HeadersError ==
    IF ctx.line = "GET-1.1" /\ ~ctx.hostSeen THEN 400
    ELSE IF ctx.length > MaxBodyBytes THEN 413
    ELSE 0

EndOfHeaders ==
    /\ pc = "parse" /\ ctx.state = "headers"
    /\ HasLine /\ Line = <<>>
    /\ IF HeadersError # 0 THEN Fails(HeadersError, WholeLine)
       ELSE IF ctx.length > 0 THEN GoesOn([ctx EXCEPT !.state = "body"], WholeLine)
       ELSE Completes(<<>>, WholeLine)
    /\ UNCHANGED <<script, sent, received, oldLen>>

ParseBody ==
    /\ pc = "parse" /\ ctx.state = "body"
    /\ IF ReadableBytes < ctx.length THEN Incomplete
       ELSE Completes(SubSeq(Readable(input), 1, ctx.length), ctx.length)
    /\ UNCHANGED <<script, sent, received, oldLen>>

(* An answer is delivered: deliverResponse ends with another call of       *)
(* processBufferedRequests, or with closing the connection.                *)
Answered ==
    /\ pc = "wait" /\ ~closed /\ inflight > 0
    /\ inflight' = inflight - 1
    /\ closed' \in IF inflight = 1 /\ \E i \in DOMAIN outcomes : outcomes[i].code # 200
                   THEN BOOLEAN ELSE {closed}
    /\ pc' = "process"
    /\ UNCHANGED <<script, sent, received, consumed, input, ctx, oldLen,
                   outcomes, continued>>

Next == \/ ClientSends \/ HandleRead \/ Readv \/ ReadDone \/ CallBack
        \/ ParseRequestLine \/ ParseHeader \/ EndOfHeaders \/ ParseBody
        \/ Answered

Spec == Init /\ [][Next]_vars

-----------------------------------------------------------------------------
(***************************************************************************)
(* Properties                                                              *)
(***************************************************************************)

(* The indices stay within the buffer and keep their order, through every  *)
(* move, growth and reset, so that readFd and the parser touch only bytes  *)
(* that are there.                                                         *)
TypeOK ==
    /\ kPrependSize <= input.r /\ input.r <= input.w /\ input.w <= Len(input.store)
    /\ ctx.state \in {"line", "headers", "body"}
    /\ ctx.length \in Nat /\ ctx.headerBytes \in 0 .. MaxHeaderBytes
    /\ pc \in {"wait", "read", "process", "parse"}
    /\ consumed \in 0 .. received /\ received \in 0 .. sent /\ sent \in 0 .. Len(Stream)
    /\ inflight \in 0 .. MaxInflight

(* The readable bytes are the ones the socket delivered and the parser has *)
(* not taken, in their order, none lost, none twice: however readv splits  *)
(* them between the buffer and extrabuf and whatever makeSpace moves.      *)
BufferHolds == Readable(input) = SubSeq(Stream, consumed + 1, received)

PromisedOf == [s \in Scripts |-> Promised(s)]
Promise == PromisedOf[script]

(* Where each message ends in the stream, and how many have arrived whole. *)
EndsOf == [s \in Scripts |-> [k \in DOMAIN s |-> Len(Bytes(SubSeq(s, 1, k)))]]
Ends == EndsOf[script]
Arrived == Cardinality({k \in DOMAIN Ends : Ends[k] <= received})

Idle == pc = "wait" /\ ~closed /\ inflight < MaxInflight

(* However the bytes are cut, up to the first error the callback sees each *)
(* message as it was sent and with the same verdict; and when the thread   *)
(* waits, with room for requests, it has seen every one that has arrived.  *)
SameRequests ==
    /\ \A i \in DOMAIN outcomes \intersect DOMAIN Promise :
          outcomes[i] = Promise[i]
    /\ Idle => Len(outcomes) >= Min({Arrived, Len(Promise)})

(* The head of message i has arrived, the body has not.                    *)
AwaitsBody(i) ==
    Ends[i] - Len(script[i].body) <= received /\ received < Ends[i]

(* 100 Continue is a promise: it is sent at most once for a message, and   *)
(* only for one whose verdict is not an error; and a client that waits for *)
(* it before it sends the body does get it.                                *)
ContinueExact ==
    /\ \A j, k \in DOMAIN continued : j < k => continued[j] < continued[k]
    /\ \A i \in DOMAIN Promise :
          /\ (\E j \in DOMAIN continued : continued[j] = i) =>
                /\ Promise[i].code = 200
                /\ "expect" \in ToSet(script[i].headers)
          /\ /\ Idle /\ Len(outcomes) = i - 1 /\ AwaitsBody(i)
             /\ Promise[i].code = 200
             /\ "expect" \in ToSet(script[i].headers)
             => \E j \in DOMAIN continued : continued[j] = i
=============================================================================
