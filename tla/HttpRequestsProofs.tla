-------------------------- MODULE HttpRequestsProofs --------------------------
EXTENDS HttpContextProofs, FiniteSetTheorems

(* The message that is being parsed: the one behind those with an outcome. *)
K == Len(outcomes) + 1

(* Where message k of a script begins in the stream.                       *)
Start(s, k) == IF k = 1 THEN 0 ELSE EndsOf[s][k - 1]

(* The context c holds what the request line and the first n headers of m  *)
(* say, and nothing of them is to be refused.                              *)
Knows(c, m, n) ==
    /\ n \in 0 .. Len(m.headers)
    /\ LineVerdict(m.line) = 200 /\ c.line = m.line
    /\ Len(c.headers) = n /\ \A i \in 1 .. n : c.headers[i] = m.headers[i]
    /\ \A i \in 1 .. n : HeaderVerdict(m, i) = 200
    /\ c.headerBytes = SizeUpTo(m, n)
    /\ \A g \in Before(m, n + 1) \intersect Lengths : LengthOf[g] = c.length
    /\ c.lengthSeen <=> Before(m, n + 1) \intersect Lengths # {}
    /\ ~ c.lengthSeen => c.length = 0
    /\ c.hostSeen <=> "host" \in Before(m, n + 1)
    /\ c.expect <=> "expect" \in Before(m, n + 1)

(* A parser in context c, with pos bytes consumed, stands in message m,    *)
(* which begins after byte at.                                             *)
Stands(c, pos, m, at) ==
    /\ c.state = "line" => c = NewContext /\ pos = at
    /\ c.state = "headers" => Knows(c, m, Len(c.headers)) /\ pos = at + (3 + 3 * Len(c.headers))
    /\ c.state = "body" =>
          /\ Knows(c, m, Len(m.headers)) /\ pos = at + (5 + 3 * Len(m.headers))
          /\ Verdict(m) = 200 /\ c.length = BodyLength(m)

(* While an outcome is still promised (the promise ends with the first     *)
(* error), the parser stands in message K where its state says.            *)
AlignedInv == K <= Len(Promise) => Stands(ctx, consumed, script[K], Start(script, K))

(* The outcomes so far are the ones promised, in their order.              *)
OutcomeInv ==
    \A i \in 1 .. Len(outcomes) : i <= Len(Promise) => outcomes[i] = Promise[i]

(* parse() would find nothing to do: no line that is whole, or not the     *)
(* whole body.                                                             *)
Stuck == IF ctx.state = "body" THEN ReadableBytes < ctx.length ELSE ~ HasLine

(* The parser never has more to read than the callback was called with,    *)
(* and the thread goes back to wait only when it would find nothing to do, *)
(* the limit is reached or the input is closed.                            *)
ProgressInv ==
    /\ ctx.state = "body" => ctx.length > 0
    /\ oldLen \in Nat
    /\ pc = "parse" => ReadableBytes <= oldLen
    /\ pc = "wait" => closed \/ inflight >= MaxInflight \/ Stuck

(* A 100 Continue went only to messages that will be accepted and asked    *)
(* for one; the flag of the context stands for the one being parsed; and   *)
(* who waits for a body that was announced that way has been told to go    *)
(* on.                                                                     *)
PromiseInv ==
    /\ \A j \in 1 .. Len(continued) : continued[j] <= Len(Promise) =>
          /\ Promise[continued[j]].code = 200
          /\ "expect" \in ToSet(script[continued[j]].headers)
    /\ ctx.continueSent => \E j \in 1 .. Len(continued) : continued[j] = K
    /\ pc # "parse" /\ ctx.state = "body" /\ ctx.expect => ctx.continueSent

(* What the steps keep, with IInv.                                         *)
Exact == AlignedInv /\ OutcomeInv /\ ProgressInv /\ PromiseInv

-----------------------------------------------------------------------------
(* Where the i-th piece begins.                                            *)
Offset(f, i) == IF i = 1 THEN 0 ELSE Len(f[i - 1])

(* g has the piece p behind its first o bytes.                             *)
Has(g, o, p) == \A j \in 1 .. Len(p) : g[o + j] = p[j]

(* The first k pieces on their own make what they make in the whole.       *)
LEMMA FlatOfPrefix ==
  ASSUME NEW B, NEW n, NEW ss, NEW f, Flattens(f, ss, n, B),
         NEW k \in 1 .. n, NEW tt, tt \in [1 .. k -> Seq(B)], \A i \in 1 .. k : tt[i] = ss[i]
  PROVE  FlattenSeq(tt) = f[k]
<1> n \in Nat /\ n # 0 /\ ss \in [1 .. n -> Seq(B)]
  BY DEF Flattens
<1>1. PICK g : Flattens(g, tt, k, B)
  <2>1. k \in Nat /\ k # 0
    OBVIOUS
  <2> QED
    BY <2>1, FlattenIs, Zenon
<1> DEFINE P == {i \in Nat : i + 1 <= k => g[i + 1] = f[i + 1]}
<1>2. 0 \in P
  BY <1>1 DEF Flattens
<1>3. ASSUME NEW i \in Nat, i \in P PROVE i + 1 \in P
  <2> SUFFICES ASSUME (i + 1) + 1 <= k PROVE g[(i + 1) + 1] = f[(i + 1) + 1]
    OBVIOUS
  <2>1. (i + 1) + 1 \in 2 .. k /\ (i + 1) + 1 \in 2 .. n /\ ((i + 1) + 1) - 1 = i + 1
        /\ (i + 1) + 1 \in 1 .. k
    OBVIOUS
  <2>2. g[(i + 1) + 1] = g[i + 1] \o tt[(i + 1) + 1]
    BY <1>1, <2>1 DEF Flattens
  <2>3. f[(i + 1) + 1] = f[i + 1] \o ss[(i + 1) + 1]
    BY <2>1 DEF Flattens
  <2>4. g[i + 1] = f[i + 1] /\ tt[(i + 1) + 1] = ss[(i + 1) + 1]
    BY <1>3, <2>1
  <2> QED
    BY <2>2, <2>3, <2>4
<1>4. k - 1 \in P
  <2>1. Nat \subseteq P
    <3> HIDE DEF P
    <3> QED
      BY <1>2, <1>3, Inductive
  <2>2. k - 1 \in Nat
    OBVIOUS
  <2> QED
    BY <2>1, <2>2
<1>5. g[k] = f[k]
  <2>1. (k - 1) + 1 = k
    OBVIOUS
  <2> QED
    BY <1>4, <2>1
<1> QED
  BY <1>1, <1>5 DEF Flattens

(* Piece i stands behind the i - 1 before it.                              *)
LEMMA PieceEnds ==
  ASSUME NEW B, NEW n, NEW ss, NEW f, Flattens(f, ss, n, B), NEW i \in 1 .. n
  PROVE  /\ Offset(f, i) \in Nat /\ Len(f[i]) \in Nat /\ f[i] \in Seq(B)
         /\ Len(ss[i]) \in Nat /\ ss[i] \in Seq(B)
         /\ Len(f[i]) = Offset(f, i) + Len(ss[i])
         /\ Has(f[i], Offset(f, i), ss[i])
<1> n \in Nat /\ n # 0 /\ ss \in [1 .. n -> Seq(B)]
  BY DEF Flattens
<1>1. f[i] \in Seq(B) /\ ss[i] \in Seq(B)
  BY DEF Flattens
<1>2. Len(f[i]) \in Nat /\ Len(ss[i]) \in Nat
  BY <1>1, LenProperties
<1>3. CASE i = 1
  <2>1. f[i] = ss[i] /\ Offset(f, i) = 0
    BY <1>3 DEF Flattens, Offset
  <2>2. Has(f[i], Offset(f, i), ss[i])
    BY <1>2, <2>1 DEF Has
  <2> QED
    BY <1>1, <1>2, <2>1, <2>2
<1>4. CASE i # 1
  <2>1. i \in 2 .. n /\ i - 1 \in 1 .. n
    BY <1>4
  <2>2. f[i] = f[i - 1] \o ss[i] /\ f[i - 1] \in Seq(B)
    BY <2>1 DEF Flattens
  <2> DEFINE p == f[i - 1]
             q == ss[i]
             o == Offset(f, i)
  <2>3. o = Len(p)
    BY <1>4 DEF Offset
  <2>4. p \in Seq(B) /\ q \in Seq(B) /\ f[i] = p \o q
    BY <1>1, <2>2
  <2> HIDE DEF p, q, o
  <2>5. o \in Nat
    BY <2>3, <2>4, LenProperties
  <2>6. /\ Len(p \o q) = Len(p) + Len(q)
        /\ \A j \in 1 .. Len(p) + Len(q) :
              (p \o q)[j] = IF j <= Len(p) THEN p[j] ELSE q[j - Len(p)]
    BY <2>4, ConcatProperties
  <2>7. ASSUME NEW j \in 1 .. Len(q) PROVE (p \o q)[o + j] = q[j]
    <3>1. Len(q) \in Nat
      BY <2>4, LenProperties
    <3>2. o + j \in 1 .. Len(p) + Len(q) /\ ~ (o + j <= Len(p)) /\ (o + j) - Len(p) = j
      BY <2>3, <2>5, <3>1
    <3> QED
      BY <2>6, <3>2
  <2>8. Has(f[i], o, q)
    BY <2>4, <2>7 DEF Has
  <2> QED
    BY <1>1, <1>2, <2>3, <2>4, <2>5, <2>6, <2>8 DEF q, o
<1> QED
  BY <1>3, <1>4

(* A piece is found at its place in every longer part of the whole.        *)
LEMMA PieceStays ==
  ASSUME NEW B, NEW n, NEW ss, NEW f, Flattens(f, ss, n, B), NEW i \in 1 .. n, NEW k \in i .. n
  PROVE  /\ Len(f[i]) <= Len(f[k])
         /\ Has(f[k], Offset(f, i), ss[i])
<1> n \in Nat /\ n # 0 /\ ss \in [1 .. n -> Seq(B)]
  BY DEF Flattens
<1> DEFINE Good(m) == /\ Len(f[i]) <= Len(f[m])
                      /\ Has(f[m], Offset(f, i), ss[i])
           P == {d \in Nat : i + d <= n => Good(i + d)}
<1>1. /\ Offset(f, i) \in Nat /\ Len(f[i]) \in Nat /\ Len(ss[i]) \in Nat
      /\ Len(f[i]) = Offset(f, i) + Len(ss[i])
      /\ Has(f[i], Offset(f, i), ss[i])
  BY PieceEnds
<1>2. 0 \in P
  BY <1>1
<1>3. ASSUME NEW d \in Nat, d \in P PROVE d + 1 \in P
  <2> DEFINE m == i + d
             l == m + 1
  <2> SUFFICES ASSUME i + (d + 1) <= n PROVE Good(i + (d + 1))
    OBVIOUS
  <2>1. m \in 1 .. n /\ l \in 2 .. n /\ l - 1 = m /\ i + (d + 1) = l /\ l \in 1 .. n
    OBVIOUS
  <2>2. Good(m)
    BY <1>3, <2>1
  <2> HIDE DEF m
  <2>3. f[m] \in Seq(B) /\ ss[l] \in Seq(B) /\ f[l] = f[m] \o ss[l]
    BY <2>1 DEF Flattens
  <2> DEFINE p == f[m]
             q == ss[l]
  <2>4. p \in Seq(B) /\ q \in Seq(B) /\ f[l] = p \o q
    BY <2>3
  <2> HIDE DEF l
  <2>5. Len(f[i]) <= Len(p)
        /\ \A j \in 1 .. Len(ss[i]) : p[Offset(f, i) + j] = ss[i][j]
    BY <2>2 DEF Has
  <2> HIDE DEF p, q
  <2>6. /\ Len(p \o q) = Len(p) + Len(q)
        /\ \A j \in 1 .. Len(p) + Len(q) :
              (p \o q)[j] = IF j <= Len(p) THEN p[j] ELSE q[j - Len(p)]
    BY <2>4, ConcatProperties
  <2>7. Len(p) \in Nat /\ Len(q) \in Nat
    BY <2>4, LenProperties
  <2>8. ASSUME NEW j \in 1 .. Len(ss[i]) PROVE (p \o q)[Offset(f, i) + j] = ss[i][j]
    <3>1. Offset(f, i) + j \in 1 .. Len(p) + Len(q) /\ Offset(f, i) + j <= Len(p)
      BY <1>1, <2>5, <2>7
    <3> QED
      BY <2>5, <2>6, <3>1
  <2>9. Len(f[i]) <= Len(p \o q)
    BY <1>1, <2>5, <2>6, <2>7
  <2>10. Good(l)
    BY <2>4, <2>8, <2>9 DEF Has
  <2> QED
    BY <2>1, <2>10
<1>4. k - i \in P
  <2>1. Nat \subseteq P
    <3> HIDE DEF P
    <3> QED
      BY <1>2, <1>3, Inductive
  <2>2. k - i \in Nat
    OBVIOUS
  <2> QED
    BY <2>1, <2>2
<1> HIDE DEF Good
<1>5. Good(k)
  <2>1. i + (k - i) = k
    OBVIOUS
  <2> QED
    BY <1>4, <2>1
<1> QED
  BY <1>5 DEF Good

(* What stands in a sequence stays when another is put behind it,          *)
LEMMA HasLeft ==
  ASSUME NEW B, NEW s \in Seq(B), NEW t \in Seq(B), NEW p \in Seq(B), NEW o \in Nat,
         o + Len(p) <= Len(s), Has(s, o, p)
  PROVE  Has(s \o t, o, p)
<1>1. Len(s) \in Nat /\ Len(t) \in Nat /\ Len(p) \in Nat
  BY LenProperties
<1>2. \A i \in 1 .. Len(s) + Len(t) :
         (s \o t)[i] = IF i <= Len(s) THEN s[i] ELSE t[i - Len(s)]
  BY ConcatProperties
<1>3. ASSUME NEW j \in 1 .. Len(p) PROVE (s \o t)[o + j] = p[j]
  <2>1. o + j \in 1 .. Len(s) + Len(t) /\ o + j <= Len(s)
    BY <1>1
  <2> QED
    BY <1>2, <2>1 DEF Has
<1> QED
  BY <1>3 DEF Has

(* stands further right when another is put in front of it,                *)
LEMMA HasRight ==
  ASSUME NEW B, NEW s \in Seq(B), NEW t \in Seq(B), NEW p \in Seq(B), NEW o \in Nat,
         o + Len(p) <= Len(t), Has(t, o, p)
  PROVE  Has(s \o t, Len(s) + o, p)
<1>1. Len(s) \in Nat /\ Len(t) \in Nat /\ Len(p) \in Nat
  BY LenProperties
<1>2. \A i \in 1 .. Len(s) + Len(t) :
         (s \o t)[i] = IF i <= Len(s) THEN s[i] ELSE t[i - Len(s)]
  BY ConcatProperties
<1>3. ASSUME NEW j \in 1 .. Len(p) PROVE (s \o t)[(Len(s) + o) + j] = p[j]
  <2>1. /\ (Len(s) + o) + j \in 1 .. Len(s) + Len(t)
        /\ ~ ((Len(s) + o) + j <= Len(s))
        /\ ((Len(s) + o) + j) - Len(s) = o + j
    BY <1>1
  <2> QED
    BY <1>2, <2>1 DEF Has
<1> QED
  BY <1>3 DEF Has

(* and what stands in a part stands in the whole.                          *)
LEMMA HasWithin ==
  ASSUME NEW g, NEW o \in Nat, NEW p, NEW a \in Nat, NEW q, Len(p) \in Nat, Len(q) \in Nat,
         Has(g, o, p), Has(p, a, q), a + Len(q) <= Len(p)
  PROVE  Has(g, o + a, q)
<1>1. ASSUME NEW j \in 1 .. Len(q) PROVE g[(o + a) + j] = q[j]
  <2>1. a + j \in 1 .. Len(p) /\ (o + a) + j = o + (a + j)
    OBVIOUS
  <2> QED
    BY <2>1 DEF Has
<1> QED
  BY <1>1 DEF Has

(* The lines of the headers, one behind the other.                         *)
HeaderLines(m) == [i \in DOMAIN m.headers |-> LineBytes(m.headers[i])]

(* The header lines of a message follow each other, three bytes each.      *)
LEMMA HeadersLayout ==
  ASSUME NEW m \in Messages
  PROVE  LET n == Len(m.headers)
             h == FlattenSeq(HeaderLines(m)) IN
         /\ n \in Nat /\ h \in Seq(Byte) /\ Len(h) = 3 * n
         /\ \A i \in 1 .. n : /\ m.headers[i] \in HeaderTexts /\ m.headers[i] \in Byte
                              /\ Has(h, 3 * (i - 1), LineBytes(m.headers[i]))
<1> DEFINE n == Len(m.headers)
           hs == HeaderLines(m)
           h == FlattenSeq(hs)
<1>1. n \in Nat /\ DOMAIN m.headers = 1 .. n /\ \A i \in 1 .. n : m.headers[i] \in HeaderTexts
  <2>1. m.headers \in Seq(HeaderTexts)
    BY InputAssumption DEF Messages, IsMessage
  <2> QED
    BY <2>1, LenProperties, ElementOfSeq
<1>2. \A i \in 1 .. n : m.headers[i] \in Byte
  BY <1>1 DEF Byte
<1>3. \A i \in 1 .. n : /\ hs[i] = LineBytes(m.headers[i])
                        /\ hs[i] \in Seq(Byte) /\ Len(hs[i]) = 3
  <2>1. {"r", "n"} \subseteq Byte
    BY DEF Byte
  <2> QED
    BY <1>1, <1>2, <2>1, LineIs DEF HeaderLines
<1>4. hs \in [1 .. n -> Seq(Byte)]
  BY <1>1, <1>3 DEF HeaderLines
<1>5. h \in Seq(Byte)
  <2> HIDE DEF hs, n
  <2> QED
    BY <1>1, <1>4, FlatIs
<1> HIDE DEF hs
<1>6. CASE n = 0
  <2>1. Len(hs) = 0
    BY <1>4, <1>6
  <2>2. h = hs
    BY <2>1 DEF FlattenSeq
  <2> QED
    BY <1>1, <1>5, <1>6, <2>1, <2>2 DEF hs
<1>7. CASE n # 0
  <2> HIDE DEF n
  <2>1. PICK f : Flattens(f, hs, n, Byte)
    <3>1. n \in Nat /\ n # 0
      BY <1>1, <1>7
    <3> QED
      BY <1>4, <3>1, FlattenIs, Zenon
  <2> DEFINE P == {i \in Nat : i + 1 <= n => Len(f[i + 1]) = 3 * (i + 1)}
  <2>2. 0 \in P
    <3>1. 1 \in 1 .. n
      BY <1>1, <1>7
    <3>2. Len(f[1]) = Len(hs[1])
      BY <2>1 DEF Flattens
    <3> QED
      BY <1>3, <3>1, <3>2
  <2>3. ASSUME NEW i \in Nat, i \in P PROVE i + 1 \in P
    <3> SUFFICES ASSUME (i + 1) + 1 <= n PROVE Len(f[(i + 1) + 1]) = 3 * ((i + 1) + 1)
      OBVIOUS
    <3> DEFINE l == (i + 1) + 1
    <3>1. l \in 1 .. n /\ l # 1 /\ l - 1 = i + 1 /\ i + 1 <= n
      BY <1>1
    <3>2. Offset(f, l) = Len(f[i + 1])
      BY <3>1 DEF Offset
    <3>3. Len(f[i + 1]) = 3 * (i + 1)
      BY <2>3, <3>1
    <3> HIDE DEF l
    <3>4. Len(f[l]) = Offset(f, l) + Len(hs[l])
      BY <2>1, <3>1, PieceEnds
    <3>5. Len(hs[l]) = 3
      BY <1>3, <3>1
    <3>6. Len(f[l]) = 3 * l
      BY <3>1, <3>2, <3>3, <3>4, <3>5
    <3> QED
      BY <3>6 DEF l
  <2>4. \A i \in 1 .. n : Len(f[i]) = 3 * i
    <3>1. Nat \subseteq P
      <4> HIDE DEF P
      <4> QED
        BY <2>2, <2>3, Inductive
    <3> SUFFICES ASSUME NEW i \in 1 .. n PROVE Len(f[i]) = 3 * i
      OBVIOUS
    <3>2. i - 1 \in Nat /\ (i - 1) + 1 = i /\ i <= n
      BY <1>1
    <3>3. i - 1 \in P
      BY <3>1, <3>2
    <3> QED
      BY <3>2, <3>3
  <2>5. h = f[n] /\ n \in 1 .. n
    BY <1>1, <1>7, <2>1 DEF Flattens
  <2>6. ASSUME NEW i \in 1 .. n PROVE Has(h, 3 * (i - 1), hs[i])
    <3>1. Offset(f, i) = 3 * (i - 1)
      <4>1. CASE i = 1
        BY <4>1 DEF Offset
      <4>2. CASE i # 1
        <5>1. i - 1 \in 1 .. n
          BY <1>1, <4>2
        <5> QED
          BY <2>4, <4>2, <5>1 DEF Offset
      <4> QED
        BY <4>1, <4>2
    <3>2. n \in i .. n
      BY <1>1
    <3>3. Has(f[n], Offset(f, i), hs[i])
      BY <2>1, <3>2, PieceStays
    <3> QED
      BY <2>5, <3>1, <3>3
  <2>7. Len(h) = 3 * n
    BY <2>4, <2>5
  <2> QED
    BY <1>1, <1>2, <1>3, <1>5, <2>6, <2>7 DEF n, hs
<1> QED
  BY <1>6, <1>7

(* Where the parts of a message are.                                       *)
Laid(g, at, m) ==
    LET n == Len(m.headers) IN
    /\ Has(g, at, LineBytes(m.line))
    /\ \A i \in 1 .. n : Has(g, at + 3 * i, LineBytes(m.headers[i]))
    /\ Has(g, at + (3 + 3 * n), CRLF)
    /\ Has(g, at + (5 + 3 * n), m.body)

(* A message is its request line, its header lines, the empty line and its *)
(* body.                                                                   *)
LEMMA MessageLayout ==
  ASSUME NEW m \in Messages
  PROVE  /\ MessageBytes(m) \in Seq(Byte)
         /\ Len(m.body) \in Nat /\ m.body \in Seq(Byte)
         /\ Len(MessageBytes(m)) = 5 + 3 * Len(m.headers) + Len(m.body)
         /\ Laid(MessageBytes(m), 0, m)
<1> DEFINE n == Len(m.headers)
           l == LineBytes(m.line)
           h == FlattenSeq(HeaderLines(m))
           b == m.body
           lh == l \o h
           lhc == lh \o CRLF
<1>1. /\ n \in Nat /\ h \in Seq(Byte) /\ Len(h) = 3 * n
      /\ \A i \in 1 .. n : /\ m.headers[i] \in Byte
                           /\ Has(h, 3 * (i - 1), LineBytes(m.headers[i]))
  BY HeadersLayout
<1>2. {"r", "n"} \subseteq Byte
  BY DEF Byte
<1>3. l \in Seq(Byte) /\ Len(l) = 3 /\ CRLF \in Seq(Byte) /\ Len(CRLF) = 2
  <2>1. m.line \in Byte
    BY InputAssumption DEF Messages, IsMessage, Byte
  <2> QED
    BY <1>2, <2>1, LineIs DEF CRLF
<1>4. b \in Seq(Byte) /\ Len(b) \in Nat
  <2>1. b \in Seq(ToSet(b))
    BY InputAssumption DEF Messages, IsMessage
  <2>2. ToSet(b) \subseteq Byte
    BY DEF Byte
  <2> HIDE DEF b
  <2> QED
    BY <2>1, <2>2, SeqMonotonic, LenProperties
<1>5. MessageBytes(m) = lhc \o b
  BY DEF MessageBytes, HeaderLines
<1> HIDE DEF l, h, b, n
<1>6. lh \in Seq(Byte) /\ Len(lh) = 3 + 3 * n
  <2>1. lh \in Seq(Byte) /\ Len(lh) = Len(l) + Len(h)
    BY <1>1, <1>3, ConcatProperties
  <2> QED
    BY <1>1, <1>3, <2>1
<1>7. Has(lh, 0, l)
  <2>1. Has(l, 0, l)
    BY DEF Has
  <2>2. 0 + Len(l) <= Len(l)
    BY <1>3
  <2> QED
    BY <1>1, <1>3, <2>1, <2>2, HasLeft
<1>8. ASSUME NEW i \in 1 .. n
      PROVE  Has(lh, 3 * i, LineBytes(m.headers[i])) /\ LineBytes(m.headers[i]) \in Seq(Byte)
             /\ 3 * i + Len(LineBytes(m.headers[i])) <= Len(lh)
  <2> DEFINE p == LineBytes(m.headers[i])
  <2>1. p \in Seq(Byte) /\ Len(p) = 3
    BY <1>1, <1>2, LineIs
  <2>2. Has(h, 3 * (i - 1), p)
    BY <1>1
  <2>3. 3 * (i - 1) \in Nat /\ 3 * (i - 1) + 3 <= 3 * n /\ Len(l) + 3 * (i - 1) = 3 * i
        /\ 3 * i + 3 <= 3 + 3 * n
    BY <1>1, <1>3
  <2> HIDE DEF p
  <2>4. Has(l \o h, Len(l) + 3 * (i - 1), p)
    BY <1>1, <1>3, <2>1, <2>2, <2>3, HasRight
  <2> QED
    BY <1>6, <2>1, <2>3, <2>4 DEF p
<1> HIDE DEF lh
<1>9. lhc \in Seq(Byte) /\ Len(lhc) = 5 + 3 * n
  <2>1. lhc \in Seq(Byte) /\ Len(lhc) = Len(lh) + Len(CRLF)
    BY <1>3, <1>6, ConcatProperties
  <2> QED
    BY <1>1, <1>3, <1>6, <2>1
<1>10. Has(lhc, 0, l)
  <2>1. 0 + Len(l) <= Len(lh)
    BY <1>1, <1>3, <1>6
  <2> QED
    BY <1>3, <1>6, <1>7, <2>1, HasLeft
<1>11. ASSUME NEW i \in 1 .. n
       PROVE  Has(lhc, 3 * i, LineBytes(m.headers[i]))
  <2>1. 3 * i \in Nat
    BY <1>1
  <2> QED
    BY <1>3, <1>6, <1>8, <2>1, HasLeft
<1>12. Has(lhc, 3 + 3 * n, CRLF)
  <2>1. Has(CRLF, 0, CRLF) /\ 0 + Len(CRLF) <= Len(CRLF) /\ Len(lh) + 0 = 3 + 3 * n
    BY <1>1, <1>3, <1>6 DEF Has
  <2>2. Has(lh \o CRLF, Len(lh) + 0, CRLF)
    BY <1>3, <1>6, <2>1, HasRight
  <2> QED
    BY <2>1, <2>2
<1> HIDE DEF lhc
<1>13. lhc \o b \in Seq(Byte) /\ Len(lhc \o b) = (5 + 3 * n) + Len(b)
  BY <1>4, <1>9, ConcatProperties
<1>14. Has(lhc \o b, 0, l)
  <2>1. 0 + Len(l) <= Len(lhc)
    BY <1>1, <1>3, <1>9
  <2> QED
    BY <1>3, <1>4, <1>9, <1>10, <2>1, HasLeft
<1>15. ASSUME NEW i \in 1 .. n PROVE Has(lhc \o b, 3 * i, LineBytes(m.headers[i]))
  <2>1. 3 * i \in Nat /\ 3 * i + Len(LineBytes(m.headers[i])) <= Len(lhc)
    <3>1. 3 * i + Len(LineBytes(m.headers[i])) <= 3 + 3 * n
      BY <1>6, <1>8
    <3>2. Len(LineBytes(m.headers[i])) \in Nat
      BY <1>8, LenProperties
    <3> QED
      BY <1>1, <1>9, <3>1, <3>2
  <2>2. LineBytes(m.headers[i]) \in Seq(Byte)
    BY <1>8
  <2> QED
    BY <1>4, <1>9, <1>11, <2>1, <2>2, HasLeft
<1>16. Has(lhc \o b, 3 + 3 * n, CRLF)
  <2>1. 3 + 3 * n \in Nat /\ 3 + 3 * n + Len(CRLF) <= Len(lhc)
    BY <1>1, <1>3, <1>9
  <2> QED
    BY <1>3, <1>4, <1>9, <1>12, <2>1, HasLeft
<1>17. Has(lhc \o b, 5 + 3 * n, b)
  <2>1. Has(b, 0, b) /\ 0 + Len(b) <= Len(b) /\ Len(lhc) + 0 = 5 + 3 * n
    BY <1>1, <1>4, <1>9 DEF Has
  <2>2. Has(lhc \o b, Len(lhc) + 0, b)
    BY <1>4, <1>9, <2>1, HasRight
  <2> QED
    BY <2>1, <2>2
<1>18. Laid(lhc \o b, 0, m)
  <2>1. \A x \in Nat : 0 + x = x
    OBVIOUS
  <2>2. 3 + 3 * n \in Nat /\ 5 + 3 * n \in Nat /\ \A i \in 1 .. n : 3 * i \in Nat
    BY <1>1
  <2> HIDE DEF Has
  <2> QED
    BY <1>14, <1>15, <1>16, <1>17, <2>1, <2>2 DEF Laid, l, b, n
<1> QED
  BY <1>4, <1>5, <1>13, <1>18 DEF n, b

(* The pieces that a script is made of.                                    *)
Pieces(s) == [i \in DOMAIN s |-> MessageBytes(s[i])]

(* A script is a sequence of messages, and its bytes are theirs, one after *)
(* the other.                                                              *)
LEMMA ScriptIs ==
  ASSUME NEW s \in Scripts
  PROVE  /\ Len(s) \in Nat /\ DOMAIN s = 1 .. Len(s)
         /\ \A i \in 1 .. Len(s) : s[i] \in Messages
         /\ Pieces(s) \in [1 .. Len(s) -> Seq(Byte)]
         /\ Bytes(s) = FlattenSeq(Pieces(s))
<1>1. s \in Seq(ToSet(s)) /\ ToSet(s) \subseteq Messages
  BY InputAssumption DEF Messages
<1>2. Len(s) \in Nat /\ DOMAIN s = 1 .. Len(s) /\ \A i \in 1 .. Len(s) : s[i] \in Messages
  BY <1>1, LenProperties, ElementOfSeq
<1>3. Pieces(s) \in [1 .. Len(s) -> Seq(Byte)]
  BY <1>2, MessageIs DEF Pieces
<1> QED
  BY <1>2, <1>3 DEF Bytes, Pieces

(* EndsOf says where message k ends.                                       *)
LEMMA EndIs ==
  ASSUME NEW s \in Scripts, NEW f, Flattens(f, Pieces(s), Len(s), Byte), NEW k \in 1 .. Len(s)
  PROVE  EndsOf[s][k] = Len(f[k])
<1> DEFINE n == Len(s)
           t == SubSeq(s, 1, k)
           ms == [i \in DOMAIN t |-> MessageBytes(t[i])]
<1>1. /\ n \in Nat /\ DOMAIN s = 1 .. n /\ \A i \in 1 .. n : s[i] \in Messages
      /\ Pieces(s) \in [1 .. n -> Seq(Byte)]
  BY ScriptIs
<1>2. /\ DOMAIN t = 1 .. k /\ \A i \in 1 .. k : t[i] = s[i]
  <2>1. s \in Seq(ToSet(s))
    BY InputAssumption
  <2>2. 0 \in Nat /\ k \in Nat /\ 0 <= k /\ k <= Len(s)
    BY <1>1
  <2>3. /\ SubSeq(s, 0 + 1, k) \in Seq(ToSet(s))
        /\ Len(SubSeq(s, 0 + 1, k)) = k - 0
        /\ \A i \in 1 .. k - 0 : SubSeq(s, 0 + 1, k)[i] = s[0 + i]
    BY <2>1, <2>2, PartIs
  <2>4. 0 + 1 = 1 /\ k - 0 = k /\ \A i \in 1 .. k : 0 + i = i
    OBVIOUS
  <2> QED
    BY <2>3, <2>4, LenProperties
<1> HIDE DEF t
<1>3. ms \in [1 .. k -> Seq(Byte)] /\ \A i \in 1 .. k : ms[i] = Pieces(s)[i]
  <2>1. ASSUME NEW i \in 1 .. k
        PROVE  ms[i] = Pieces(s)[i] /\ ms[i] \in Seq(Byte)
    <3>1. i \in 1 .. n
      BY <1>1
    <3>2. ms[i] = MessageBytes(s[i]) /\ Pieces(s)[i] = MessageBytes(s[i])
      BY <1>1, <1>2, <3>1 DEF Pieces
    <3> QED
      BY <1>1, <3>1, <3>2
  <2>2. DOMAIN ms = 1 .. k
    BY <1>2
  <2>3. ms = [i \in 1 .. k |-> ms[i]]
    BY <1>2
  <2> HIDE DEF ms
  <2> QED
    BY <2>1, <2>2, <2>3
<1>4. EndsOf[s][k] = Len(FlattenSeq(ms))
  BY <1>1 DEF EndsOf, Bytes, t
<1> HIDE DEF ms
<1>5. FlattenSeq(ms) = f[k]
  <2>1. n \in Nat /\ n # 0
    BY <1>1
  <2> QED
    BY <1>3, <2>1, FlatOfPrefix
<1> QED
  BY <1>4, <1>5

(* Where the bytes of a message stand, its parts stand in their places.    *)
LEMMA LaidWithin ==
  ASSUME NEW m \in Messages, NEW g, NEW at \in Nat, Has(g, at, MessageBytes(m))
  PROVE  Laid(g, at, m)
<1> SUFFICES ASSUME NEW p, p = MessageBytes(m), NEW n, n = Len(m.headers),
                    NEW line, line = LineBytes(m.line)
             PROVE  Laid(g, at, m)
  OBVIOUS
<1>1. p \in Seq(Byte) /\ Len(m.body) \in Nat /\ Len(p) = 5 + 3 * n + Len(m.body)
      /\ Laid(p, 0, m)
  BY MessageLayout
<1>2. n \in Nat /\ \A i \in 1 .. n : m.headers[i] \in Byte
  BY HeadersLayout
<1>3. Len(p) \in Nat
  BY <1>1, LenProperties
<1>4. /\ Len(CRLF) = 2 /\ Len(line) = 3
      /\ \A i \in 1 .. n : Len(LineBytes(m.headers[i])) = 3
  <2>1. {"r", "n"} \subseteq Byte /\ m.line \in Byte
    BY InputAssumption DEF Messages, IsMessage, Byte
  <2> QED
    BY <1>2, <2>1, LineIs DEF CRLF
<1>5. /\ Has(p, 0, line)
      /\ \A i \in 1 .. n : Has(p, 0 + 3 * i, LineBytes(m.headers[i]))
      /\ Has(p, 0 + (3 + 3 * n), CRLF) /\ Has(p, 0 + (5 + 3 * n), m.body)
  BY <1>1 DEF Laid
<1>6. PICK b \in Nat : b = Len(m.body) /\ Len(p) = 5 + 3 * n + b
  BY <1>1
<1>14. /\ 0 + 3 <= 5 + 3 * n + b /\ (3 + 3 * n) + 2 <= 5 + 3 * n + b
      /\ 3 + 3 * n \in Nat /\ 0 + (3 + 3 * n) = 3 + 3 * n
      /\ \A i \in 1 .. n : 3 * i \in Nat /\ 0 + 3 * i = 3 * i /\ 3 * i + 3 <= 5 + 3 * n + b
  <2>1. n \in Nat
    BY <1>2
  <2> QED
    BY <2>1
<1>7. Has(g, at + 0, line)
  <2>1. 0 + Len(line) <= Len(p) /\ Len(line) \in Nat
    <3>1. Len(line) = 3
      BY <1>4
    <3>2. 0 + 3 <= Len(p)
      BY <1>6, <1>14
    <3> QED
      BY <3>1, <3>2
  <2>2. 0 \in Nat
    OBVIOUS
  <2> QED
    BY <1>3, <1>5, <2>1, <2>2, HasWithin
<1>8. ASSUME NEW i \in 1 .. n PROVE Has(g, at + 3 * i, LineBytes(m.headers[i]))
  <2>1. Len(LineBytes(m.headers[i])) = 3
    BY <1>4
  <2>2. 3 * i \in Nat /\ 0 + 3 * i = 3 * i /\ 3 * i + 3 <= Len(p)
    BY <1>6, <1>14
  <2>3. Has(p, 3 * i, LineBytes(m.headers[i]))
    BY <1>5, <2>2
  <2>4. 3 * i + Len(LineBytes(m.headers[i])) <= Len(p) /\ Len(LineBytes(m.headers[i])) \in Nat
    BY <2>1, <2>2
  <2> QED
    BY <1>3, <2>2, <2>3, <2>4, HasWithin
<1>9. Has(g, at + (3 + 3 * n), CRLF)
  <2>1. 3 + 3 * n \in Nat /\ 0 + (3 + 3 * n) = 3 + 3 * n /\ (3 + 3 * n) + 2 <= Len(p)
    BY <1>6, <1>14
  <2>2. Has(p, 3 + 3 * n, CRLF) /\ Len(CRLF) \in Nat /\ (3 + 3 * n) + Len(CRLF) <= Len(p)
    BY <1>4, <1>5, <2>1
  <2> QED
    BY <1>3, <2>1, <2>2, HasWithin
<1>10. Has(g, at + (5 + 3 * n), m.body)
  <2>1. 5 + 3 * n \in Nat /\ 0 + (5 + 3 * n) = 5 + 3 * n /\ (5 + 3 * n) + b <= Len(p)
    BY <1>2, <1>3, <1>6
  <2>2. Has(p, 5 + 3 * n, m.body) /\ (5 + 3 * n) + Len(m.body) <= Len(p)
        /\ Len(m.body) \in Nat
    BY <1>5, <1>6, <2>1
  <2> QED
    BY <1>3, <2>1, <2>2, HasWithin
<1>11. at + 0 = at
  OBVIOUS
<1> QED
  BY <1>7, <1>8, <1>9, <1>10, <1>11 DEF Laid

(* Message k stands in the stream from where it starts to where it ends.   *)
LEMMA StreamLayout ==
  ASSUME NEW s \in Scripts, NEW k \in 1 .. Len(s)
  PROVE  /\ Start(s, k) \in Nat
         /\ EndsOf[s][k] = Start(s, k) + (5 + 3 * Len(s[k].headers) + Len(s[k].body))
         /\ EndsOf[s][k] <= Len(Bytes(s))
         /\ Laid(Bytes(s), Start(s, k), s[k])
<1> DEFINE n == Len(s)
           m == s[k]
           ss == Pieces(s)
           at == Start(s, k)
           hn == Len(m.headers)
<1>1. /\ n \in Nat /\ n # 0 /\ DOMAIN s = 1 .. n /\ m \in Messages
      /\ ss \in [1 .. n -> Seq(Byte)] /\ Bytes(s) = FlattenSeq(ss)
      /\ ss[k] = MessageBytes(m)
  BY ScriptIs DEF Pieces
<1>2. PICK f : Flattens(f, ss, n, Byte)
  <2> HIDE DEF ss, n
  <2> QED
    BY <1>1, FlattenIs
<1>3. Bytes(s) = f[n]
  BY <1>1, <1>2 DEF Flattens
<1>4. Offset(f, k) = at
  <2>1. CASE k = 1
    BY <2>1 DEF Offset, Start
  <2>2. CASE k # 1
    <3>1. k - 1 \in 1 .. n
      BY <1>1, <2>2
    <3>2. EndsOf[s][k - 1] = Len(f[k - 1])
      BY <1>2, <3>1, EndIs
    <3> QED
      BY <2>2, <3>2 DEF Offset, Start
  <2> QED
    BY <2>1, <2>2
<1>5. EndsOf[s][k] = Len(f[k])
  BY <1>2, EndIs
<1>6. at \in Nat /\ Len(f[k]) = at + Len(ss[k])
  BY <1>2, <1>4, PieceEnds
<1>7. Len(f[k]) <= Len(f[n]) /\ Has(f[n], at, ss[k])
  <2>1. n \in k .. n
    BY <1>1
  <2> QED
    BY <1>2, <1>4, <2>1, PieceStays
<1>8. /\ MessageBytes(m) \in Seq(Byte) /\ Len(m.body) \in Nat /\ m.body \in Seq(Byte)
      /\ Len(MessageBytes(m)) = 5 + 3 * hn + Len(m.body)
      /\ Laid(MessageBytes(m), 0, m)
  BY <1>1, MessageLayout
<1>9. /\ hn \in Nat /\ \A i \in 1 .. hn : m.headers[i] \in Byte
  BY <1>1, HeadersLayout
<1>10. Laid(Bytes(s), at, m)
  BY <1>1, <1>3, <1>6, <1>7, LaidWithin
<1> QED
  BY <1>1, <1>3, <1>5, <1>6, <1>7, <1>8, <1>10

(* A CRLF is an r and an n behind it.                                      *)
LEMMA PairIs ==
  ASSUME NEW B, NEW s \in Seq(B), NEW i \in 1 .. Len(s) - 1
  PROVE  SubSeq(s, i, i + 1) = CRLF <=> s[i] = "r" /\ s[i + 1] = "n"
<1> DEFINE a == i - 1
           c == i + 1
           p == SubSeq(s, a + 1, c)
<1>1. Len(s) \in Nat
  OBVIOUS
<1>2. a \in Nat /\ c \in Nat /\ a <= c /\ c <= Len(s) /\ a + 1 = i /\ a + 2 = i + 1 /\ c - a = 2
  BY <1>1
<1> HIDE DEF a, c
<1>3. p \in Seq(B) /\ Len(p) = 2 /\ p[1] = s[i] /\ p[2] = s[i + 1]
  <2>1. p \in Seq(B) /\ Len(p) = c - a /\ \A j \in 1 .. c - a : p[j] = s[a + j]
    BY <1>2, PartIs
  <2> QED
    BY <1>2, <2>1
<1>4. p = SubSeq(s, i, i + 1)
  BY <1>2 DEF c
<1> HIDE DEF p
<1>5. p = CRLF <=> p[1] = "r" /\ p[2] = "n"
  <2>1. p = <<p[1], p[2]>>
    BY <1>3
  <2> QED
    BY <2>1 DEF CRLF
<1> QED
  BY <1>3, <1>4, <1>5

(* The bytes the buffer holds, one by one, and where a CRLF begins.        *)
LEMMA BytesHeld ==
  ASSUME IInv
  PROVE  /\ Readable(input) \in Seq(Byte) /\ Len(Readable(input)) = ReadableBytes
         /\ ReadableBytes \in Nat /\ consumed \in Nat /\ received \in Nat
         /\ ReadableBytes = received - consumed
         /\ \A i \in 1 .. ReadableBytes : Readable(input)[i] = Stream[consumed + i]
         /\ FindCrlf = Min({i \in 1 .. ReadableBytes - 1 :
                               Stream[consumed + i] = "r" /\ Stream[consumed + (i + 1)] = "n"}
                             \union {ReadableBytes + 1})
<1> DEFINE bytes == Readable(input)
           n == ReadableBytes
<1>1. Stream \in Seq(Byte) /\ Len(Stream) \in Nat
  BY StreamIs DEF IInv, StateInv
<1>2. bytes \in Seq(Byte) /\ Len(bytes) = n /\ n \in Nat /\ n = received - consumed
  BY HeldIs DEF IInv
<1>3. consumed \in Nat /\ received \in Nat /\ consumed <= received /\ received <= Len(Stream)
  BY <1>1 DEF IInv, InputInv
<1>4. \A i \in 1 .. n : bytes[i] = Stream[consumed + i]
  <2>1. bytes = SubSeq(Stream, consumed + 1, received)
    BY DEF IInv, InputInv, BufferHolds
  <2>2. \A i \in 1 .. received - consumed :
           SubSeq(Stream, consumed + 1, received)[i] = Stream[consumed + i]
    BY <1>1, <1>3, PartIs
  <2> QED
    BY <1>2, <2>1, <2>2
<1> HIDE DEF bytes, n
<1>5. ASSUME NEW i \in 1 .. n - 1
      PROVE  SubSeq(bytes, i, i + 1) = CRLF
                <=> Stream[consumed + i] = "r" /\ Stream[consumed + (i + 1)] = "n"
  <2>1. i \in 1 .. n /\ i + 1 \in 1 .. n /\ i \in 1 .. Len(bytes) - 1
    BY <1>2
  <2>2. SubSeq(bytes, i, i + 1) = CRLF <=> bytes[i] = "r" /\ bytes[i + 1] = "n"
    BY <1>2, <2>1, PairIs
  <2> QED
    BY <1>4, <2>1, <2>2
<1>6. {i \in 1 .. n - 1 : SubSeq(bytes, i, i + 1) = CRLF}
        = {i \in 1 .. n - 1 : Stream[consumed + i] = "r" /\ Stream[consumed + (i + 1)] = "n"}
  BY <1>5, Zenon
<1>7. FindCrlf = Min({i \in 1 .. n - 1 : SubSeq(bytes, i, i + 1) = CRLF} \union {n + 1})
  BY <1>2 DEF FindCrlf, bytes
<1> QED
  BY <1>2, <1>3, <1>4, <1>6, <1>7 DEF bytes, n

(* A line at the place the parser stands at is found when it has arrived   *)
(* whole, and read as it was meant.                                        *)
LEMMA LineThere ==
  ASSUME IInv, NEW t \in Byte, Has(Stream, consumed, LineBytes(t))
  PROVE  /\ HasLine <=> ReadableBytes >= 3
         /\ HasLine => Line = <<t>> /\ WholeLine = 3 /\ TextOf(Line) = t
<1> DEFINE n == ReadableBytes
           S == {i \in 1 .. n - 1 : Stream[consumed + i] = "r" /\ Stream[consumed + (i + 1)] = "n"}
                  \union {n + 1}
<1>1. /\ Readable(input) \in Seq(Byte) /\ Len(Readable(input)) = n /\ n \in Nat
      /\ \A i \in 1 .. n : Readable(input)[i] = Stream[consumed + i]
      /\ consumed \in Nat /\ FindCrlf = Min(S)
  BY BytesHeld
<1>2. Stream[consumed + 1] = t /\ Stream[consumed + 2] = "r" /\ Stream[consumed + 3] = "n"
  <2> DEFINE l == LineBytes(t)
  <2>1. "r" \in Byte /\ "n" \in Byte
    BY DEF Byte
  <2>2. <<t>> \in Seq(Byte) /\ CRLF \in Seq(Byte) /\ Len(<<t>>) = 1 /\ Len(CRLF) = 2
        /\ CRLF[1] = "r" /\ CRLF[2] = "n" /\ <<t>>[1] = t
    <3> HIDE DEF Byte
    <3> QED
      BY <2>1 DEF CRLF
  <2>3. /\ Len(<<t>> \o CRLF) = 3
        /\ \A i \in 1 .. 3 : (<<t>> \o CRLF)[i] = IF i <= 1 THEN <<t>>[i] ELSE CRLF[i - 1]
    <3>1. /\ Len(<<t>> \o CRLF) = Len(<<t>>) + Len(CRLF)
          /\ \A i \in 1 .. Len(<<t>>) + Len(CRLF) :
                (<<t>> \o CRLF)[i] = IF i <= Len(<<t>>) THEN <<t>>[i] ELSE CRLF[i - Len(<<t>>)]
      BY <2>2, ConcatProperties
    <3> QED
      BY <2>2, <3>1
  <2>4. l = <<t>> \o CRLF
    BY DEF LineBytes
  <2>5. Len(l) = 3 /\ l[1] = t /\ l[2] = "r" /\ l[3] = "n"
    BY <2>2, <2>3, <2>4
  <2> HIDE DEF l
  <2>6. \A i \in 1 .. Len(l) : Stream[consumed + i] = l[i]
    BY DEF Has, l
  <2> QED
    BY <2>5, <2>6
<1>3. S \in SUBSET Nat /\ S # {}
  BY <1>1
<1>4. Min(S) \in S /\ \A y \in S : Min(S) <= y
  <2> HIDE DEF S
  <2> QED
    BY <1>3, MinIs
<1>5. 1 \notin S \/ n = 0
  BY <1>1, <1>2
<1>6. CASE n >= 3
  <2>1. 2 \in S
    BY <1>1, <1>2, <1>6
  <2>2. Min(S) = 2
    <3>1. Min(S) \in Nat /\ Min(S) <= 2 /\ Min(S) # 1 /\ Min(S) # 0
      BY <1>1, <1>3, <1>4, <1>5, <1>6, <2>1
    <3> QED
      BY <3>1
  <2> HIDE DEF S
  <2>3. HasLine
    BY <1>1, <1>6, <2>2 DEF HasLine
  <2>4. Line = <<t>>
    <3>1. Line = SubSeq(Readable(input), 0 + 1, 1)
      BY <1>1, <2>2 DEF Line
    <3>2. 0 \in Nat /\ 1 \in Nat /\ 0 <= 1 /\ 1 <= Len(Readable(input))
      BY <1>1, <1>6
    <3>3. Line \in Seq(Byte) /\ Len(Line) = 1 - 0
          /\ \A i \in 1 .. 1 - 0 : Line[i] = Readable(input)[0 + i]
      BY <1>1, <3>1, <3>2, PartIs
    <3>4. Line[1] = t
      BY <1>1, <1>2, <1>6, <3>3
    <3> QED
      BY <3>3, <3>4
  <2>5. Len(CRLF) = 2 /\ Len(<<t>>) = 1 /\ <<t>>[1] = t
    BY DEF CRLF
  <2> QED
    BY <1>6, <2>3, <2>4, <2>5 DEF WholeLine, TextOf
<1>7. CASE ~ (n >= 3)
  <2>1. ASSUME NEW i \in 1 .. n - 1 PROVE i = 1
    BY <1>1, <1>7
  <2>2. S = {n + 1}
    BY <1>2, <2>1
  <2>3. FindCrlf = n + 1
    <3> HIDE DEF S
    <3> QED
      BY <1>1, <1>4, <2>2
  <2> HIDE DEF S
  <2>4. ~ HasLine
    BY <1>1, <2>3 DEF HasLine
  <2> QED
    BY <1>7, <2>4
<1> QED
  BY <1>6, <1>7

(* So is the empty line that ends the headers.                             *)
LEMMA EmptyLineThere ==
  ASSUME IInv, Has(Stream, consumed, CRLF)
  PROVE  /\ HasLine <=> ReadableBytes >= 2
         /\ HasLine => Line = <<>> /\ WholeLine = 2
<1> DEFINE n == ReadableBytes
           S == {i \in 1 .. n - 1 : Stream[consumed + i] = "r" /\ Stream[consumed + (i + 1)] = "n"}
                  \union {n + 1}
<1>1. /\ Readable(input) \in Seq(Byte) /\ Len(Readable(input)) = n /\ n \in Nat
      /\ consumed \in Nat /\ FindCrlf = Min(S)
  BY BytesHeld
<1>2. Stream[consumed + 1] = "r" /\ Stream[consumed + 2] = "n"
  BY DEF Has, CRLF
<1>3. S \in SUBSET Nat /\ S # {}
  BY <1>1
<1>4. Min(S) \in S /\ \A y \in S : Min(S) <= y
  <2> HIDE DEF S
  <2> QED
    BY <1>3, MinIs
<1>5. CASE n >= 2
  <2>1. 1 \in S
    BY <1>1, <1>2, <1>5
  <2>2. Min(S) = 1
    <3>1. Min(S) \in Nat /\ Min(S) <= 1 /\ Min(S) # 0
      BY <1>1, <1>3, <1>4, <1>5, <2>1
    <3> QED
      BY <3>1
  <2> HIDE DEF S
  <2>3. HasLine
    BY <1>1, <1>5, <2>2 DEF HasLine
  <2>4. Line = <<>>
    <3>1. Line = SubSeq(Readable(input), 0 + 1, 0)
      BY <1>1, <2>2 DEF Line
    <3>2. 0 \in Nat /\ 0 <= 0 /\ 0 <= Len(Readable(input))
      BY <1>1, <1>5
    <3>3. Line \in Seq(Byte) /\ Len(Line) = 0 - 0
      BY <1>1, <3>1, <3>2, PartIs
    <3> QED
      BY <3>3
  <2>5. Len(CRLF) = 2 /\ Len(<<>>) = 0
    BY DEF CRLF
  <2> QED
    BY <1>5, <2>3, <2>4, <2>5 DEF WholeLine
<1>6. CASE ~ (n >= 2)
  <2>1. S = {n + 1}
    BY <1>1, <1>6
  <2>2. FindCrlf = n + 1
    <3> HIDE DEF S
    <3> QED
      BY <1>1, <1>4, <2>1
  <2> HIDE DEF S
  <2>3. ~ HasLine
    BY <1>1, <2>2 DEF HasLine
  <2> QED
    BY <1>6, <2>3
<1> QED
  BY <1>5, <1>6

(* The bytes of a body that has arrived whole.                             *)
LEMMA BodyThere ==
  ASSUME IInv, NEW body \in Seq(Byte), Has(Stream, consumed, body), Len(body) <= ReadableBytes
  PROVE  SubSeq(Readable(input), 1, Len(body)) = body
<1> DEFINE l == Len(body)
           g == Readable(input)
           p == SubSeq(g, 0 + 1, l)
<1>1. /\ g \in Seq(Byte) /\ Len(g) = ReadableBytes
      /\ \A i \in 1 .. ReadableBytes : g[i] = Stream[consumed + i]
      /\ ReadableBytes \in Nat
  BY BytesHeld
<1>2. l \in Nat
  BY LenProperties
<1>3. \A i \in 1 .. l : Stream[consumed + i] = body[i]
  BY DEF Has
<1> HIDE DEF g
<1>4. p \in Seq(Byte) /\ Len(p) = l - 0 /\ \A i \in 1 .. l - 0 : p[i] = g[0 + i]
  <2>1. 0 \in Nat /\ 0 <= l /\ l <= Len(g)
    BY <1>1, <1>2
  <2> HIDE DEF l
  <2> QED
    BY <1>1, <1>2, <2>1, PartIs
<1> HIDE DEF p
<1>5. Len(p) = Len(body)
  BY <1>2, <1>4
<1>6. ASSUME NEW i \in 1 .. Len(body) PROVE p[i] = body[i]
  <2>1. i \in 1 .. l - 0 /\ i \in 1 .. ReadableBytes /\ 0 + i = i
    BY <1>1, <1>2
  <2> QED
    BY <1>1, <1>3, <1>4, <2>1
<1>7. p = body
  BY <1>4, <1>5, <1>6, SeqEqual
<1>8. p = SubSeq(g, 1, l)
  BY DEF p
<1> QED
  BY <1>7, <1>8 DEF g

(* The sum that SizeUpTo makes.                                            *)
Sums(f, m, n) == f = [j \in 0 .. n |-> IF j = 0 THEN 0 ELSE f[j - 1] + Size[m.headers[j]]]

(* There is such a function,                                               *)
LEMMA SumsExist ==
  ASSUME NEW m, NEW n \in Nat
  PROVE  \E f : Sums(f, m, n)
<1> DEFINE P == {k \in Nat : \E f : Sums(f, m, k)}
<1>1. 0 \in P
  <2> DEFINE g == [j \in 0 .. 0 |-> 0]
  <2>1. Sums(g, m, 0)
    BY DEF Sums
  <2> QED
    BY <2>1
<1>2. ASSUME NEW k \in Nat, k \in P PROVE k + 1 \in P
  <2>1. PICK e : Sums(e, m, k)
    BY <1>2
  <2> DEFINE g == [j \in 0 .. k + 1 |-> IF j \in 0 .. k THEN e[j] ELSE e[k] + Size[m.headers[j]]]
  <2>2. ASSUME NEW j \in 0 .. k + 1
        PROVE g[j] = IF j = 0 THEN 0 ELSE g[j - 1] + Size[m.headers[j]]
    <3>1. CASE j = 0
      BY <2>1, <3>1 DEF Sums
    <3>2. CASE j \in 1 .. k
      <4>1. j - 1 \in 0 .. k /\ j - 1 \in 0 .. k + 1 /\ j \in 0 .. k /\ j # 0
        BY <3>2
      <4>2. g[j - 1] = e[j - 1] /\ g[j] = e[j]
        BY <4>1
      <4>3. e[j] = e[j - 1] + Size[m.headers[j]]
        BY <2>1, <4>1 DEF Sums
      <4> QED
        BY <4>1, <4>2, <4>3
    <3>3. CASE j = k + 1
      BY <3>3
    <3> QED
      BY <3>1, <3>2, <3>3
  <2>3. Sums(g, m, k + 1)
    <3> HIDE DEF g
    <3>1. g = [j \in 0 .. k + 1 |-> g[j]]
      BY DEF g
    <3> QED
      BY <2>2, <3>1, Zenon DEF Sums
  <2> HIDE DEF g
  <2> QED
    BY <2>3
<1>3. Nat \subseteq P
  <2> HIDE DEF P
  <2> QED
    BY <1>1, <1>2, Inductive
<1> QED
  BY <1>3

(* and SizeUpTo is its value for n headers.                                *)
LEMMA SumIs ==
  ASSUME NEW m, NEW n \in Nat
  PROVE  \E f : Sums(f, m, n) /\ SizeUpTo(m, n) = f[n]
<1> DEFINE sum == CHOOSE f : Sums(f, m, n)
<1>1. Sums(sum, m, n)
  BY SumsExist, Zenon
<1>2. SizeUpTo(m, n) = sum[n]
  BY DEF SizeUpTo, Sums
<1> QED
  BY <1>1, <1>2, Zenon

(* The size of the headers grows with each.                                *)
LEMMA SizeIs ==
  ASSUME NEW m, NEW n \in Nat
  PROVE  /\ SizeUpTo(m, 0) = 0
         /\ SizeUpTo(m, n + 1) = SizeUpTo(m, n) + Size[m.headers[n + 1]]
<1>1. SizeUpTo(m, 0) = 0
  <2>1. PICK f : Sums(f, m, 0) /\ SizeUpTo(m, 0) = f[0]
    BY SumIs
  <2> QED
    BY <2>1 DEF Sums
<1>2. SizeUpTo(m, n + 1) = SizeUpTo(m, n) + Size[m.headers[n + 1]]
  <2>1. PICK f : Sums(f, m, n) /\ SizeUpTo(m, n) = f[n]
    BY SumIs
  <2>2. PICK g : Sums(g, m, n + 1) /\ SizeUpTo(m, n + 1) = g[n + 1]
    <3>1. n + 1 \in Nat
      OBVIOUS
    <3> QED
      BY <3>1, SumIs
  <2> DEFINE P == {k \in Nat : k <= n => f[k] = g[k]}
  <2>3. 0 \in P
    BY <2>1, <2>2 DEF Sums
  <2>4. ASSUME NEW k \in Nat, k \in P PROVE k + 1 \in P
    <3> SUFFICES ASSUME k + 1 <= n PROVE f[k + 1] = g[k + 1]
      OBVIOUS
    <3>1. f[k] = g[k] /\ k + 1 \in 0 .. n /\ k + 1 \in 0 .. n + 1 /\ (k + 1) - 1 = k /\ k + 1 # 0
      BY <2>4
    <3>2. f[k + 1] = f[k] + Size[m.headers[k + 1]]
      BY <2>1, <3>1 DEF Sums
    <3>3. g[k + 1] = g[k] + Size[m.headers[k + 1]]
      BY <2>2, <3>1 DEF Sums
    <3> QED
      BY <3>1, <3>2, <3>3
  <2>5. f[n] = g[n]
    <3>1. Nat \subseteq P
      <4> HIDE DEF P
      <4> QED
        BY <2>3, <2>4, Inductive
    <3> QED
      BY <3>1
  <2>6. n + 1 \in 0 .. n + 1 /\ n + 1 # 0 /\ (n + 1) - 1 = n
    OBVIOUS
  <2>7. g[n + 1] = g[n] + Size[m.headers[n + 1]]
    BY <2>2, <2>6 DEF Sums
  <2> QED
    BY <2>1, <2>2, <2>5, <2>7
<1> QED
  BY <1>1, <1>2

-----------------------------------------------------------------------------
(* What is promised: the outcomes up to the first error, and no further.   *)
LEMMA PromiseIs ==
  ASSUME NEW s \in Scripts
  PROVE  /\ Len(Promised(s)) \in Nat /\ Len(Promised(s)) <= Len(s)
         /\ DOMAIN Promised(s) = 1 .. Len(Promised(s))
         /\ \A k \in 1 .. Len(Promised(s)) :
               /\ Promised(s)[k] = Outcome(s[k])
               /\ Verdict(s[k]) # 200 => k = Len(Promised(s))
<1> DEFINE n == Len(s)
           S == {i \in DOMAIN s : Verdict(s[i]) # 200} \union {Len(s) + 1}
           F == FirstError(s)
           p == Min({F, n})
<1>1. n \in Nat /\ DOMAIN s = 1 .. n
  BY ScriptIs
<1>2. S \in SUBSET Nat /\ S # {}
  BY <1>1
<1>3. F \in S /\ \A y \in S : F <= y
  <2>1. F = Min(S)
    BY DEF FirstError
  <2> HIDE DEF S, F
  <2> QED
    BY <1>2, <2>1, MinIs
<1>4. F \in Nat
  BY <1>2, <1>3
<1> HIDE DEF F
<1>5. p = IF F <= n THEN F ELSE n
  <2> HIDE DEF n
  <2> QED
    BY <1>1, <1>4, MinOfTwo
<1>6. p \in Nat /\ p <= n
  BY <1>1, <1>4, <1>5
<1>7. Promised(s) = [i \in 1 .. p |-> Outcome(s[i])]
  BY DEF Promised, F
<1> HIDE DEF p
<1>8. Len(Promised(s)) = p /\ DOMAIN Promised(s) = 1 .. p
  BY <1>6, <1>7
<1>9. ASSUME NEW k \in 1 .. p
      PROVE  Promised(s)[k] = Outcome(s[k]) /\ (Verdict(s[k]) # 200 => k = p)
  <2>1. Promised(s)[k] = Outcome(s[k])
    BY <1>7
  <2>2. ASSUME Verdict(s[k]) # 200 PROVE k = p
    <3>1. k \in S
      BY <1>1, <1>6, <2>2
    <3>2. F <= k
      BY <1>3, <3>1
    <3> HIDE DEF n
    <3>3. k \in Nat /\ k <= p /\ n \in Nat
      BY <1>1, <1>6
    <3>4. p = F
      BY <1>4, <1>5, <3>2, <3>3
    <3> QED
      BY <1>4, <3>2, <3>3, <3>4
  <2> QED
    BY <2>1, <2>2
<1> QED
  BY <1>1, <1>6, <1>8, <1>9

(* The parser and the protocol agree about a request line.                 *)
LEMMA LineAgrees ==
  ASSUME NEW line \in LineTexts
  PROVE  /\ line \in DOMAIN Size
         /\ Size[line] > MaxHeaderLine => LineVerdict(line) = 413
         /\ ~ (Size[line] > MaxHeaderLine) /\ LineError(line) # 0
               => LineVerdict(line) = LineError(line) /\ LineError(line) # 200
         /\ ~ (Size[line] > MaxHeaderLine) /\ LineError(line) = 0
               => LineVerdict(line) = 200
<1>1. line \in DOMAIN Size
  BY TextsAssumption
<1>2. Size[line] > MaxHeaderLine <=> line = "long-line"
  BY TextsAssumption
<1> QED
  BY <1>1, <1>2 DEF LineVerdict, LineError, LineTexts

(* The verdict on a message whose line is refused,                         *)
LEMMA LineRefused ==
  ASSUME NEW m, LineVerdict(m.line) # 200
  PROVE  Verdict(m) = LineVerdict(m.line)
BY DEF Verdict

(* on one with a header that is refused, those before it being accepted,   *)
LEMMA HeaderRefused ==
  ASSUME NEW m \in Messages, LineVerdict(m.line) = 200, NEW n \in 1 .. Len(m.headers),
         \A i \in 1 .. n - 1 : HeaderVerdict(m, i) = 200, HeaderVerdict(m, n) # 200
  PROVE  Verdict(m) = HeaderVerdict(m, n)
<1> DEFINE bad == {i \in DOMAIN m.headers : HeaderVerdict(m, i) # 200}
<1>1. Len(m.headers) \in Nat /\ DOMAIN m.headers = 1 .. Len(m.headers)
  BY InputAssumption, LenProperties DEF Messages, IsMessage
<1>2. n \in bad /\ bad \in SUBSET Nat /\ bad # {}
  BY <1>1
<1>3. Min(bad) \in bad /\ \A y \in bad : Min(bad) <= y
  <2> HIDE DEF bad
  <2> QED
    BY <1>2, MinIs
<1>4. Min(bad) = n
  <2>1. Min(bad) \in 1 .. Len(m.headers) /\ Min(bad) \notin 1 .. n - 1 /\ Min(bad) <= n
    BY <1>1, <1>2, <1>3
  <2> QED
    BY <1>1, <2>1
<1>5. Verdict(m) = HeaderVerdict(m, Min(bad))
  BY <1>2 DEF Verdict
<1> QED
  BY <1>4, <1>5

(* and on one whose headers are accepted one by one.                       *)
LEMMA HeadersAccepted ==
  ASSUME NEW m \in Messages, LineVerdict(m.line) = 200,
         \A i \in 1 .. Len(m.headers) : HeaderVerdict(m, i) = 200
  PROVE  Verdict(m) = IF m.line = "GET-1.1" /\ "host" \notin Range(m.headers) THEN 400
                      ELSE IF BodyLength(m) > MaxBodyBytes THEN 413
                      ELSE 200
<1>1. DOMAIN m.headers = 1 .. Len(m.headers)
  BY InputAssumption, LenProperties DEF Messages, IsMessage
<1>2. {i \in DOMAIN m.headers : HeaderVerdict(m, i) # 200} = {}
  BY <1>1
<1> QED
  BY <1>2 DEF Verdict

(* The size of the headers so far, and of one more.                        *)
LEMMA SizeKnown ==
  ASSUME NEW m, NEW n \in Nat, Knows(ctx, m, n), NEW h, h = m.headers[n + 1]
  PROVE  SizeUpTo(m, n + 1) = ctx.headerBytes + Size[h]
<1>1. SizeUpTo(m, n + 1) = SizeUpTo(m, n) + Size[m.headers[n + 1]]
  BY SizeIs
<1>2. ctx.headerBytes = SizeUpTo(m, n)
  BY DEF Knows
<1> QED
  BY <1>1, <1>2

(* What the parser knows after n headers decides about the next as the     *)
(* protocol does.                                                          *)
LEMMA HeaderAgrees ==
  ASSUME NEW m \in Messages, NEW n \in Nat, n < Len(m.headers), Knows(ctx, m, n),
         NEW h, h = m.headers[n + 1]
  PROVE  LET tooLong == Size[h] > MaxHeaderLine \/ ctx.headerBytes + Size[h] > MaxHeaderBytes
         IN  /\ h \in HeaderTexts /\ h \in DOMAIN Size
             /\ tooLong => HeaderVerdict(m, n + 1) = 413
             /\ ~ tooLong /\ HeaderError(h) # 0
                   => HeaderVerdict(m, n + 1) = HeaderError(h) /\ HeaderError(h) # 200
             /\ ~ tooLong /\ HeaderError(h) = 0 => HeaderVerdict(m, n + 1) = 200
<1> DEFINE tooLong == Size[h] > MaxHeaderLine \/ ctx.headerBytes + Size[h] > MaxHeaderBytes
           v == HeaderVerdict(m, n + 1)
           e == HeaderError(h)
           seen == Before(m, n + 1)
           differs == \E g \in seen \intersect Lengths : LengthOf[g] # LengthOf[h]
<1>1. h \in HeaderTexts
  <2>1. n + 1 \in 1 .. Len(m.headers)
    BY HeadersLayout
  <2> QED
    BY <2>1, HeadersLayout
<1>2. h \in DOMAIN Size
  BY <1>1, TextsAssumption
<1>3. SizeUpTo(m, n + 1) = ctx.headerBytes + Size[h]
  BY SizeKnown
<1>4. differs <=> ctx.lengthSeen /\ LengthOf[h] # ctx.length
  BY DEF Knows
<1>5. ctx.hostSeen <=> "host" \in seen
  BY DEF Knows
<1>6. v = IF tooLong THEN 413
          ELSE CASE h \in {"no-colon", "length-bad", "host-empty"} -> 400
                 [] h = "encoding" -> 501
                 [] h = "expect-other" -> 417
                 [] h = "host" /\ "host" \in seen -> 400
                 [] h \in Lengths /\ differs -> 400
                 [] OTHER -> 200
  BY <1>3 DEF HeaderVerdict
<1> HIDE DEF tooLong, v, seen, differs
<1>7. CASE tooLong
  BY <1>1, <1>2, <1>6, <1>7 DEF tooLong, v
<1>8. CASE ~ tooLong
  <2>1. CASE h \in Lengths
    <3>1. h \notin OtherTexts
      BY <2>1, TextsAssumption
    <3>2. v = IF differs THEN 400 ELSE 200
      BY <1>6, <1>8, <2>1, <3>1 DEF OtherTexts
    <3>3. e = IF differs THEN 400 ELSE 0
      BY <1>4, <2>1, <3>1 DEF OtherTexts, HeaderError, Names
    <3> QED
      BY <1>1, <1>2, <1>8, <3>2, <3>3 DEF tooLong, v
  <2>2. CASE h \notin Lengths
    <3>1. h \in OtherTexts
      BY <1>1, <2>2 DEF HeaderTexts
    <3>2. v = CASE h \in {"no-colon", "length-bad", "host-empty"} -> 400
                [] h = "encoding" -> 501
                [] h = "expect-other" -> 417
                [] h = "host" /\ "host" \in seen -> 400
                [] OTHER -> 200
      BY <1>6, <1>8, <2>2
    <3>3. v = IF e = 0 THEN 200 ELSE e
      BY <1>5, <2>2, <3>1, <3>2 DEF OtherTexts, HeaderError, Names
    <3>4. e # 200
      BY <1>5, <2>2, <3>1 DEF OtherTexts, HeaderError, Names
    <3> HIDE DEF e
    <3> QED
      BY <1>1, <1>2, <1>8, <3>3, <3>4 DEF tooLong, v, e
  <2> QED
    BY <2>1, <2>2
<1> QED
  BY <1>7, <1>8

(* Knowing one header more.                                                *)
LEMMA HeaderKnown ==
  ASSUME ctx \in Context, NEW m \in Messages, NEW n \in Nat, n < Len(m.headers),
         Knows(ctx, m, n), NEW h, h = m.headers[n + 1], HeaderVerdict(m, n + 1) = 200,
         HeaderError(h) = 0
  PROVE  Knows(WithHeader(h, Size[h]), m, n + 1)
<1> DEFINE c == WithHeader(h, Size[h])
           seen == Before(m, n + 1)
           now == Before(m, (n + 1) + 1)
<1>1. Len(m.headers) \in Nat /\ h \in HeaderTexts
  <2>1. n + 1 \in 1 .. Len(m.headers)
    BY HeadersLayout
  <2> QED
    BY <2>1, HeadersLayout
<1>2. now = seen \union {h}
  <2>1. 1 .. ((n + 1) + 1) - 1 = (1 .. n) \union {n + 1} /\ 1 .. (n + 1) - 1 = 1 .. n
    OBVIOUS
  <2>2. now = {m.headers[j] : j \in 1 .. ((n + 1) + 1) - 1}
        /\ seen = {m.headers[j] : j \in 1 .. (n + 1) - 1}
    BY DEF Before
  <2>3. now = {m.headers[j] : j \in (1 .. n) \union {n + 1}}
        /\ seen = {m.headers[j] : j \in 1 .. n}
    BY <2>1, <2>2
  <2> HIDE DEF now, seen
  <2> QED
    BY <2>3
<1> HIDE DEF seen, now
<1>3. /\ c.line = ctx.line /\ c.headers = Append(ctx.headers, h)
      /\ c.headerBytes = ctx.headerBytes + Size[h]
      /\ c.length = (IF h \in Lengths THEN LengthOf[h] ELSE ctx.length)
      /\ c.lengthSeen = (ctx.lengthSeen \/ h \in Lengths)
      /\ c.hostSeen = (ctx.hostSeen \/ h = "host")
      /\ c.expect = (ctx.expect \/ h = "expect")
  BY DEF WithHeader, Context
<1> HIDE DEF c
<1>4. /\ Len(c.headers) = n + 1 /\ \A i \in 1 .. n + 1 : c.headers[i] = m.headers[i]
  <2>1. ctx.headers \in Seq(Text) /\ Len(ctx.headers) = n
        /\ \A i \in 1 .. n : ctx.headers[i] = m.headers[i]
    BY DEF Context, Knows
  <2>2. h \in Text
    BY <1>1 DEF Text, Byte
  <2> HIDE DEF Text
  <2>3. /\ Len(Append(ctx.headers, h)) = n + 1
        /\ \A i \in 1 .. n : Append(ctx.headers, h)[i] = ctx.headers[i]
        /\ Append(ctx.headers, h)[n + 1] = h
    BY <2>1, <2>2, AppendProperties
  <2> QED
    BY <1>3, <2>1, <2>3
<1>5. \A i \in 1 .. n + 1 : HeaderVerdict(m, i) = 200
  BY DEF Knows
<1>6. c.headerBytes = SizeUpTo(m, n + 1)
  BY <1>3, SizeKnown
<1>7. /\ \A g \in seen \intersect Lengths : LengthOf[g] = ctx.length
      /\ ctx.lengthSeen <=> seen \intersect Lengths # {}
      /\ ~ ctx.lengthSeen => ctx.length = 0
      /\ ctx.hostSeen <=> "host" \in seen
      /\ ctx.expect <=> "expect" \in seen
      /\ n \in 0 .. Len(m.headers)
      /\ LineVerdict(m.line) = 200 /\ ctx.line = m.line
  BY DEF Knows, seen
<1>8. \A g \in now \intersect Lengths : LengthOf[g] = c.length
  <2>1. CASE h \in Lengths
    <3>1. ~ (ctx.lengthSeen /\ LengthOf[h] # ctx.length)
      <4>1. h \notin {"encoding", "length-bad", "host-empty"} /\ h \in Names
        BY <2>1, TextsAssumption DEF OtherTexts, Names
      <4> QED
        BY <2>1, <4>1 DEF HeaderError
    <3> QED
      BY <1>2, <1>3, <1>7, <2>1, <3>1
  <2>2. CASE h \notin Lengths
    BY <1>2, <1>3, <1>7, <2>2
  <2> QED
    BY <2>1, <2>2
<1>9. c.lengthSeen <=> now \intersect Lengths # {}
  BY <1>2, <1>3, <1>7
<1>10. ~ c.lengthSeen => c.length = 0
  BY <1>3, <1>7
<1>11. c.hostSeen <=> "host" \in now
  BY <1>2, <1>3, <1>7
<1>12. c.expect <=> "expect" \in now
  BY <1>2, <1>3, <1>7
<1>13. n + 1 \in 0 .. Len(m.headers)
  BY <1>1
<1> QED
  BY <1>3, <1>4, <1>5, <1>6, <1>7, <1>8, <1>9, <1>10, <1>11, <1>12, <1>13 DEF Knows, c, now

(* What the parser knows after all the headers is what the protocol says   *)
(* of the message.                                                         *)
LEMMA MessageAgrees ==
  ASSUME ctx \in Context, NEW m \in Messages, Knows(ctx, m, Len(m.headers))
  PROVE  /\ ctx.headers = m.headers /\ ctx.line = m.line
         /\ BodyLength(m) = ctx.length
         /\ ctx.expect <=> "expect" \in ToSet(m.headers)
         /\ HeadersError # 0 => Verdict(m) = HeadersError /\ HeadersError # 200
         /\ HeadersError = 0 => Verdict(m) = 200
<1> DEFINE n == Len(m.headers)
           seen == Before(m, n + 1)
<1>1. m.headers \in Seq(HeaderTexts) /\ n \in Nat /\ DOMAIN m.headers = 1 .. n
  BY InputAssumption, LenProperties DEF Messages, IsMessage
<1>2. seen = Range(m.headers) /\ seen = ToSet(m.headers)
  <2>1. 1 .. (n + 1) - 1 = 1 .. n
    BY <1>1
  <2> QED
    BY <1>1, <2>1 DEF Before, Range, ToSet
<1>3. ctx.headers = m.headers
  <2>1. ctx.headers \in Seq(Text)
    BY DEF Context
  <2>2. m.headers \in Seq(Text)
    <3>1. HeaderTexts \subseteq Text
      BY DEF Text, Byte
    <3> QED
      BY <1>1, <3>1, SeqMonotonic
  <2>3. Len(ctx.headers) = Len(m.headers)
        /\ \A i \in 1 .. Len(ctx.headers) : ctx.headers[i] = m.headers[i]
    BY DEF Knows
  <2> HIDE DEF Text
  <2> QED
    BY <2>1, <2>2, <2>3, SeqEqual
<1>4. /\ \A g \in seen \intersect Lengths : LengthOf[g] = ctx.length
      /\ ctx.lengthSeen <=> seen \intersect Lengths # {}
      /\ ~ ctx.lengthSeen => ctx.length = 0
      /\ ctx.hostSeen <=> "host" \in seen
      /\ ctx.expect <=> "expect" \in seen
      /\ LineVerdict(m.line) = 200 /\ ctx.line = m.line
      /\ \A i \in 1 .. n : HeaderVerdict(m, i) = 200
  BY DEF Knows
<1> HIDE DEF seen
<1>5. BodyLength(m) = ctx.length
  <2> DEFINE said == {LengthOf[h] : h \in seen \intersect Lengths}
  <2>1. BodyLength(m) = IF said = {} THEN 0 ELSE Max(said)
    BY <1>2 DEF BodyLength
  <2>2. CASE seen \intersect Lengths = {}
    <3>1. said = {}
      BY <2>2
    <3> QED
      BY <1>4, <2>1, <2>2, <3>1
  <2>3. CASE seen \intersect Lengths # {}
    <3>1. said = {ctx.length}
      BY <1>4, <2>3
    <3>2. ctx.length \in Nat
      BY DEF Context
    <3>3. Max({ctx.length}) = ctx.length
      BY <3>2 DEF Max
    <3> HIDE DEF said
    <3> QED
      BY <2>1, <3>1, <3>3
  <2> QED
    BY <2>2, <2>3
<1>6. Verdict(m) = IF m.line = "GET-1.1" /\ "host" \notin Range(m.headers) THEN 400
                   ELSE IF BodyLength(m) > MaxBodyBytes THEN 413
                   ELSE 200
  BY <1>4, HeadersAccepted
<1>7. Verdict(m) = IF ctx.line = "GET-1.1" /\ ~ ctx.hostSeen THEN 400
                   ELSE IF ctx.length > MaxBodyBytes THEN 413
                   ELSE 200
  BY <1>2, <1>4, <1>5, <1>6
<1>8. Verdict(m) = (IF HeadersError = 0 THEN 200 ELSE HeadersError) /\ HeadersError # 200
  BY <1>7 DEF HeadersError
<1> QED
  BY <1>2, <1>3, <1>4, <1>5, <1>8

(* The message that is being parsed, while something is still promised.    *)
LEMMA Here ==
  ASSUME IInv, K <= Len(Promise), NEW m, m = script[K], NEW at, at = Start(script, K)
  PROVE  /\ K \in 1 .. Len(script) /\ script \in Scripts /\ m \in Messages
         /\ at \in Nat /\ Laid(Stream, at, m)
         /\ EndsOf[script][K] = at + (5 + 3 * Len(m.headers) + Len(m.body))
         /\ Len(m.headers) \in Nat /\ Len(m.body) \in Nat /\ m.body \in Seq(Byte)
         /\ Len(Promise) \in Nat /\ Len(outcomes) \in Nat
         /\ Promise[K] = Outcome(m) /\ (Verdict(m) # 200 => K = Len(Promise))
<1>1. script \in Scripts /\ outcomes \in Seq(Seen)
  BY DEF IInv, StateInv
<1>2. Promise = Promised(script) /\ Stream = Bytes(script)
  BY <1>1 DEF Promise, PromisedOf, Stream, StreamOf
<1>3. Len(outcomes) \in Nat
  BY <1>1
<1>4. /\ Len(Promise) \in Nat /\ Len(Promise) <= Len(script) /\ Len(script) \in Nat
      /\ \A k \in 1 .. Len(Promise) :
            /\ Promise[k] = Outcome(script[k])
            /\ Verdict(script[k]) # 200 => k = Len(Promise)
  BY <1>1, <1>2, PromiseIs, ScriptIs
<1>5. K \in 1 .. Len(Promise) /\ K \in 1 .. Len(script)
  BY <1>3, <1>4 DEF K
<1>6. m \in Messages
  BY <1>1, <1>5, ScriptIs
<1>7. /\ at \in Nat
      /\ EndsOf[script][K] = at + (5 + 3 * Len(m.headers) + Len(m.body))
      /\ Laid(Stream, at, m)
  BY <1>1, <1>2, <1>5, StreamLayout
<1>8. Len(m.headers) \in Nat /\ Len(m.body) \in Nat /\ m.body \in Seq(Byte)
  BY <1>6, HeadersLayout, MessageLayout
<1> QED
  BY <1>1, <1>3, <1>4, <1>5, <1>6, <1>7, <1>8

(* What is promised depends on the script only.                            *)
LEMMA PromiseStays ==
  ASSUME script' = script
  PROVE  Promise' = Promise /\ Stream' = Stream
BY DEF Promise, Stream

(* One outcome more: it is the promised one.                               *)
LEMMA OutcomeMore ==
  ASSUME IInv, OutcomeInv, script' = script, NEW o, outcomes' = Append(outcomes, o),
         K <= Len(Promise) => o = Promise[K]
  PROVE  OutcomeInv' /\ K' = K + 1
<1>1. outcomes \in Seq(Seen)
  BY DEF IInv, StateInv
<1>2. Len(outcomes) \in Nat /\ K = Len(outcomes) + 1 /\ K' = Len(outcomes') + 1
  BY <1>1 DEF K
<1>3. /\ Len(outcomes') = K
      /\ \A i \in 1 .. Len(outcomes) : outcomes'[i] = outcomes[i]
      /\ outcomes'[K] = o
  BY <1>1, <1>2
<1>4. Promise' = Promise
  BY PromiseStays
<1> HIDE DEF K
<1>5. ASSUME NEW i \in 1 .. Len(outcomes'), i <= Len(Promise')
      PROVE  outcomes'[i] = Promise'[i]
  <2>1. CASE i = K
    BY <1>3, <1>4, <1>5, <2>1
  <2>2. CASE i # K
    <3>1. i \in 1 .. Len(outcomes)
      BY <1>2, <1>3, <2>2
    <3> QED
      BY <1>3, <1>4, <1>5, <3>1 DEF OutcomeInv
  <2> QED
    BY <2>1, <2>2
<1> QED
  BY <1>2, <1>3, <1>5 DEF OutcomeInv

(* After an error nothing more is promised.                                *)
LEMMA FailsExact ==
  ASSUME IInv, OutcomeInv, Parsing, NEW code, NEW n, Fails(code, n),
         K <= Len(Promise) => Verdict(script[K]) = code /\ code # 200
  PROVE  OutcomeInv' /\ AlignedInv'
<1> DEFINE o == [code |-> code, line |-> "", headers |-> <<>>, body |-> <<>>]
<1>1. outcomes' = Append(outcomes, o) /\ script' = script
  BY DEF Fails, Parsing
<1>2. ASSUME K <= Len(Promise)
      PROVE  o = Promise[K] /\ K = Len(Promise) /\ Len(Promise) \in Nat
  <2>1. /\ Promise[K] = Outcome(script[K]) /\ Len(Promise) \in Nat
        /\ Verdict(script[K]) # 200 => K = Len(Promise)
    BY <1>2, Here
  <2>2. Verdict(script[K]) = code /\ code # 200
    BY <1>2
  <2>3. Outcome(script[K]) = o
    BY <2>2 DEF Outcome
  <2> QED
    BY <2>1, <2>2, <2>3
<1> HIDE DEF o
<1>3. OutcomeInv' /\ K' = K + 1
  BY <1>1, <1>2, OutcomeMore
<1>4. ~ (K' <= Len(Promise'))
  <2>1. Promise' = Promise
    BY <1>1, PromiseStays
  <2>2. K \in Nat /\ Len(Promise) \in Nat
    <3>1. outcomes \in Seq(Seen) /\ script \in Scripts
      BY DEF IInv, StateInv
    <3>2. Promise = Promised(script)
      BY <3>1 DEF Promise, PromisedOf
    <3> QED
      BY <3>1, <3>2, PromiseIs DEF K
  <2> QED
    BY <1>2, <1>3, <2>1, <2>2
<1> QED
  BY <1>3, <1>4 DEF AlignedInv

(* A request that is taken as it was meant leaves the parser at the next.  *)
LEMMA CompletesExact ==
  ASSUME IInv, OutcomeInv, Parsing, NEW body, NEW n, Completes(body, n),
         K <= Len(Promise) =>
            /\ Verdict(script[K]) = 200
            /\ ctx.line = script[K].line /\ ctx.headers = script[K].headers
            /\ body = script[K].body
            /\ consumed + n = EndsOf[script][K]
  PROVE  OutcomeInv' /\ AlignedInv'
<1> DEFINE o == [code |-> 200, line |-> ctx.line, headers |-> ctx.headers, body |-> body]
<1>1. outcomes' = Append(outcomes, o) /\ script' = script /\ ctx' = NewContext
      /\ consumed' = consumed + n
  BY DEF Completes, Parsing, Reset, Takes
<1>2. ASSUME K <= Len(Promise) PROVE o = Promise[K]
  <2>1. Promise[K] = Outcome(script[K])
    BY <1>2, Here
  <2>2. Outcome(script[K]) = o
    BY <1>2 DEF Outcome
  <2> QED
    BY <2>1, <2>2
<1> HIDE DEF o
<1>3. OutcomeInv' /\ K' = K + 1
  BY <1>1, <1>2, OutcomeMore
<1>4. ASSUME K' <= Len(Promise')
      PROVE  Stands(ctx', consumed', script'[K'], Start(script', K'))
  <2>1. Promise' = Promise
    BY <1>1, PromiseStays
  <2>2. K \in Nat \ {0} /\ Len(Promise) \in Nat
    <3>1. outcomes \in Seq(Seen) /\ script \in Scripts
      BY DEF IInv, StateInv
    <3>2. Promise = Promised(script)
      BY <3>1 DEF Promise, PromisedOf
    <3> QED
      BY <3>1, <3>2, PromiseIs DEF K
  <2>3. K <= Len(Promise) /\ K + 1 # 1 /\ (K + 1) - 1 = K
    BY <1>3, <1>4, <2>1, <2>2
  <2>4. Start(script, K + 1) = EndsOf[script][K]
    BY <2>3 DEF Start
  <2>5. consumed' = Start(script', K')
    BY <1>1, <1>3, <2>3, <2>4
  <2> QED
    BY <1>1, <2>5 DEF Stands, NewContext
<1> QED
  BY <1>3, <1>4 DEF AlignedInv

(* What retrieve takes is no longer readable.                              *)
LEMMA TakesLeaves ==
  ASSUME IInv, NEW n \in 0 .. ReadableBytes, Takes(n)
  PROVE  ReadableBytes' = ReadableBytes - n
<1> DEFINE held == Readable(input)
           b == Consumed(input, n)
           r == ReadableBytes
<1>1. /\ IsBuffer(input, Byte) /\ Junk \in Byte /\ r = input.w - input.r
  BY DEF IInv, InputInv, Byte, ReadableBytes
<1>2. held \in Seq(Byte) /\ Len(held) = r /\ r \in Nat
  BY BytesHeld
<1>3. n \in Nat /\ n <= r
  BY <1>2
<1>4. IsBuffer(b, Byte) /\ Readable(b) = SubSeq(held, n + 1, r)
  BY <1>1, ConsumedIs
<1>5. Len(SubSeq(held, n + 1, r)) = r - n
  <2> HIDE DEF held, r
  <2> QED
    BY <1>2, <1>3, PartIs
<1>6. b.w - b.r = r - n
  <2> HIDE DEF b
  <2>1. Len(Readable(b)) = b.w - b.r
    BY <1>4, ReadableIs
  <2> QED
    BY <1>4, <1>5, <2>1
<1>7. input' = b
  BY DEF Takes
<1> HIDE DEF b
<1> QED
  BY <1>6, <1>7 DEF ReadableBytes

(* After an outcome there is something left to try, or the buffer is       *)
(* looked at again: the thread does not go to sleep.                       *)
LEMMA OutcomeGoesOn ==
  ASSUME IInv, ProgressInv, PromiseInv, Parsing, ctx' = NewContext, UNCHANGED continued,
         Returns, NEW n \in 1 .. ReadableBytes, Takes(n)
  PROVE  ProgressInv' /\ PromiseInv'
<1>1. ReadableBytes \in Nat /\ n \in 0 .. ReadableBytes
  BY BytesHeld
<1>2. input'.w - input'.r = ReadableBytes - n /\ ReadableBytes' = input'.w - input'.r
  <2>1. ReadableBytes' = ReadableBytes - n
    BY <1>1, TakesLeaves
  <2> QED
    BY <2>1 DEF ReadableBytes
<1>3. /\ oldLen' = oldLen /\ script' = script /\ oldLen \in Nat /\ ReadableBytes <= oldLen
  BY DEF Parsing, ProgressInv
<1>4. ~ (input'.w - input'.r >= oldLen)
  BY <1>1, <1>2, <1>3
<1>5. pc' = "process"
  BY <1>4 DEF Returns
<1>6. ctx'.state = "line" /\ ctx'.continueSent = FALSE
  BY DEF NewContext
<1>7. ProgressInv'
  BY <1>3, <1>5, <1>6 DEF ProgressInv
<1>8. Promise' = Promise
  BY <1>3, PromiseStays
<1>9. PromiseInv'
  BY <1>3, <1>6, <1>8 DEF PromiseInv
<1> QED
  BY <1>7, <1>9

(* A line or a header is taken, and parsing goes on.                       *)
LEMMA GoesOnExact ==
  ASSUME IInv, Exact, Parsing, NEW context, NEW n \in 0 .. ReadableBytes, GoesOn(context, n),
         context.continueSent = ctx.continueSent,
         context.state = "body" => context.length > 0,
         K <= Len(Promise) => Stands(context, consumed + n, script[K], Start(script, K))
  PROVE  Exact'
<1>1. /\ ctx' = context /\ consumed' = consumed + n /\ Takes(n)
      /\ UNCHANGED <<script, pc, oldLen, outcomes, continued, closed, inflight>> /\ pc = "parse"
  BY DEF GoesOn, Parsing, Takes, outVars
<1>2. Promise' = Promise /\ K' = K /\ Start(script', K') = Start(script, K)
  BY <1>1, PromiseStays DEF K
<1>3. AlignedInv'
  BY <1>1, <1>2 DEF AlignedInv
<1>4. OutcomeInv'
  BY <1>1, <1>2 DEF OutcomeInv, Exact
<1>5. ReadableBytes' <= oldLen'
  <2>1. ReadableBytes' = ReadableBytes - n /\ ReadableBytes \in Nat
    BY <1>1, TakesLeaves, BytesHeld
  <2>2. ReadableBytes <= oldLen /\ oldLen \in Nat
    BY <1>1 DEF Exact, ProgressInv
  <2> QED
    BY <1>1, <2>1, <2>2
<1>6. ProgressInv'
  BY <1>1, <1>5 DEF ProgressInv, Exact
<1>7. PromiseInv'
  BY <1>1, <1>2 DEF PromiseInv, Exact
<1> QED
  BY <1>3, <1>4, <1>6, <1>7 DEF Exact

(* Where the parser stands does not depend on continueSent.                *)
LEMMA KnowsStill ==
  ASSUME NEW c \in Context, NEW pos, NEW m, NEW at, Stands(c, pos, m, at), c.state = "body"
  PROVE  Stands([c EXCEPT !.continueSent = TRUE], pos, m, at)
<1> DEFINE d == [c EXCEPT !.continueSent = TRUE]
<1>1. /\ d.state = "body" /\ d.line = c.line /\ d.headers = c.headers
      /\ d.headerBytes = c.headerBytes /\ d.length = c.length /\ d.lengthSeen = c.lengthSeen
      /\ d.hostSeen = c.hostSeen /\ d.expect = c.expect
  BY DEF Context
<1> HIDE DEF d
<1>2. Knows(c, m, Len(m.headers)) => Knows(d, m, Len(m.headers))
  BY <1>1 DEF Knows
<1>3. Stands(d, pos, m, at)
  BY <1>1, <1>2 DEF Stands
<1> QED
  BY <1>3 DEF d

(* The callback finds no whole request: the parser can do nothing with     *)
(* what there is, and says so with 100 Continue if the client waits.       *)
LEMMA IncompleteExact ==
  ASSUME IInv, Exact, Parsing, Incomplete, Stuck
  PROVE  Exact'
<1>1. /\ UNCHANGED <<script, oldLen, consumed, input, outcomes, inflight, closed>>
      /\ pc' \in {"wait", "process"}
  BY DEF Incomplete, Parsing, Returns
<1>2. Promise' = Promise /\ K' = K /\ Start(script', K') = Start(script, K)
  BY <1>1, PromiseStays DEF K
<1>3. ctx \in Context /\ continued \in Seq(Nat) /\ Len(outcomes) \in Nat
  BY DEF IInv, StateInv, ContinueInv
<1>4. /\ ctx'.state = ctx.state /\ ctx'.length = ctx.length /\ ctx'.expect = ctx.expect
      /\ ctx' = ctx \/ (ctx.state = "body" /\ ctx' = [ctx EXCEPT !.continueSent = TRUE])
  BY <1>3 DEF Incomplete, ShouldSendContinue, Context
<1>5. AlignedInv'
  <2> SUFFICES ASSUME K' <= Len(Promise')
               PROVE  Stands(ctx', consumed', script'[K'], Start(script', K'))
    BY DEF AlignedInv
  <2>1. Stands(ctx, consumed, script[K], Start(script, K))
    BY <1>2 DEF Exact, AlignedInv
  <2>2. Stands(ctx', consumed, script[K], Start(script, K))
    BY <1>3, <1>4, <2>1, KnowsStill
  <2> QED
    BY <1>1, <1>2, <2>2
<1>6. OutcomeInv'
  BY <1>1, <1>2 DEF OutcomeInv, Exact
<1>7. ProgressInv'
  <2>1. Stuck'
    BY <1>1, <1>4 DEF Stuck, HasLine, FindCrlf, ReadableBytes
  <2> QED
    BY <1>1, <1>4, <2>1 DEF ProgressInv, Exact
<1>8. PromiseInv'
  <2>1. CASE ShouldSendContinue
    <3> DEFINE n == Len(continued)
    <3>1. /\ continued' = Append(continued, K) /\ ctx' = [ctx EXCEPT !.continueSent = TRUE]
          /\ ctx.expect /\ ctx.state = "body"
      BY <2>1 DEF Incomplete, ShouldSendContinue, K
    <3>2. /\ n \in Nat /\ Len(continued') = n + 1 /\ continued'[n + 1] = K
          /\ \A j \in 1 .. n : continued'[j] = continued[j]
      BY <1>3, <3>1, AppendProperties DEF K
    <3>3. ASSUME K <= Len(Promise)
          PROVE  Promise[K].code = 200 /\ "expect" \in ToSet(script[K].headers)
      <4>1. Promise[K] = Outcome(script[K]) /\ script[K] \in Messages
        BY <3>3, Here
      <4>2. Knows(ctx, script[K], Len(script[K].headers)) /\ Verdict(script[K]) = 200
        BY <3>1, <3>3 DEF Exact, AlignedInv, Stands
      <4>3. "expect" \in ToSet(script[K].headers)
        BY <1>3, <3>1, <4>1, <4>2, MessageAgrees
      <4> QED
        BY <4>1, <4>2, <4>3 DEF Outcome
    <3> HIDE DEF n
    <3>4. ASSUME NEW j \in 1 .. n + 1, continued'[j] <= Len(Promise)
          PROVE  /\ Promise[continued'[j]].code = 200
                 /\ "expect" \in ToSet(script[continued'[j]].headers)
      <4>1. CASE j = n + 1
        BY <3>2, <3>3, <3>4, <4>1
      <4>2. CASE j # n + 1
        <5>1. j \in 1 .. n
          BY <3>2, <4>2
        <5> QED
          BY <3>2, <3>4, <5>1 DEF Exact, PromiseInv, n
      <4> QED
        BY <4>1, <4>2
    <3>5. \E j \in 1 .. Len(continued') : continued'[j] = K'
      <4>1. n + 1 \in 1 .. Len(continued')
        BY <3>2
      <4> QED
        BY <1>2, <3>2, <4>1
    <3>6. ctx'.continueSent
      BY <1>3, <3>1 DEF Context
    <3> QED
      BY <1>1, <1>2, <3>2, <3>4, <3>5, <3>6 DEF PromiseInv
  <2>2. CASE ~ ShouldSendContinue
    <3>1. UNCHANGED <<continued, ctx>>
      BY <2>2 DEF Incomplete
    <3>2. ctx.state = "body" /\ ctx.expect => ctx.continueSent
      BY <2>2 DEF ShouldSendContinue
    <3> QED
      BY <1>1, <1>2, <3>1, <3>2 DEF PromiseInv, Exact
  <2> QED
    BY <2>1, <2>2
<1> QED
  BY <1>5, <1>6, <1>7, <1>8 DEF Exact

(* The line that the parser finds where it stands is the one that is meant *)
(* there: a request line,                                                  *)
LEMMA AtLine ==
  ASSUME IInv, AlignedInv, K <= Len(Promise), ctx.state = "line",
         NEW m, m = script[K], NEW at, at = Start(script, K)
  PROVE  /\ ctx = NewContext /\ consumed = at /\ m.line \in LineTexts
         /\ HasLine <=> ReadableBytes >= 3
         /\ HasLine => WholeLine = 3 /\ TextOf(Line) = m.line /\ SizeOf(Line) = Size[m.line]
<1>1. m \in Messages /\ Laid(Stream, at, m)
  BY Here
<1>2. ctx = NewContext /\ consumed = at
  BY DEF AlignedInv, Stands
<1>3. m.line \in LineTexts /\ m.line \in Byte
  BY <1>1, InputAssumption DEF Messages, IsMessage, Byte
<1>4. Has(Stream, consumed, LineBytes(m.line))
  BY <1>1, <1>2 DEF Laid
<1>5. /\ HasLine <=> ReadableBytes >= 3
      /\ HasLine => Line = <<m.line>> /\ WholeLine = 3 /\ TextOf(Line) = m.line
  BY <1>3, <1>4, LineThere
<1>6. m.line \in DOMAIN Size
  BY <1>3, TextsAssumption
<1>7. HasLine => SizeOf(Line) = Size[m.line]
  BY <1>5, <1>6 DEF SizeOf
<1> QED
  BY <1>2, <1>3, <1>5, <1>7

(* a header,                                                               *)
LEMMA AtHeader ==
  ASSUME IInv, AlignedInv, K <= Len(Promise), ctx.state = "headers",
         NEW m, m = script[K], NEW at, at = Start(script, K),
         NEW n, n = Len(ctx.headers), n < Len(m.headers), NEW h, h = m.headers[n + 1]
  PROVE  /\ Knows(ctx, m, n) /\ n \in Nat /\ consumed = at + (3 + 3 * n)
         /\ HasLine <=> ReadableBytes >= 3
         /\ HasLine => WholeLine = 3 /\ Line # <<>> /\ TextOf(Line) = h /\ SizeOf(Line) = Size[h]
<1>1. m \in Messages /\ Laid(Stream, at, m) /\ at \in Nat /\ Len(m.headers) \in Nat
  BY Here
<1>2. Knows(ctx, m, n) /\ consumed = at + (3 + 3 * n)
  BY DEF AlignedInv, Stands
<1>3. n \in Nat
  BY <1>1, <1>2 DEF Knows
<1>4. n + 1 \in 1 .. Len(m.headers) /\ at + 3 * (n + 1) = at + (3 + 3 * n)
  BY <1>1, <1>3
<1>5. h \in HeaderTexts /\ h \in Byte
  BY <1>1, <1>4, HeadersLayout
<1>6. Has(Stream, consumed, LineBytes(h))
  <2>1. Has(Stream, at + 3 * (n + 1), LineBytes(m.headers[n + 1]))
    BY <1>1, <1>4 DEF Laid
  <2> QED
    BY <1>2, <1>4, <2>1
<1>7. /\ HasLine <=> ReadableBytes >= 3
      /\ HasLine => Line = <<h>> /\ WholeLine = 3 /\ TextOf(Line) = h
  BY <1>5, <1>6, LineThere
<1>8. h \in DOMAIN Size
  BY <1>5, TextsAssumption
<1>9. HasLine => SizeOf(Line) = Size[h]
  BY <1>7, <1>8 DEF SizeOf
<1>10. HasLine => Line # <<>>
  <2>1. <<h>> # <<>>
    OBVIOUS
  <2> HIDE DEF Line
  <2> QED
    BY <1>7, <2>1
<1> QED
  BY <1>2, <1>3, <1>7, <1>9, <1>10

(* or the empty line.                                                      *)
LEMMA AtEmptyLine ==
  ASSUME IInv, AlignedInv, K <= Len(Promise), ctx.state = "headers",
         NEW m, m = script[K], NEW at, at = Start(script, K), Len(ctx.headers) = Len(m.headers)
  PROVE  /\ Knows(ctx, m, Len(m.headers)) /\ consumed = at + (3 + 3 * Len(m.headers))
         /\ HasLine <=> ReadableBytes >= 2
         /\ HasLine => WholeLine = 2 /\ Line = <<>>
<1>1. Laid(Stream, at, m)
  BY Here
<1>2. Knows(ctx, m, Len(m.headers)) /\ consumed = at + (3 + 3 * Len(m.headers))
  BY DEF AlignedInv, Stands
<1>3. Has(Stream, consumed, CRLF)
  BY <1>1, <1>2 DEF Laid
<1> QED
  BY <1>2, <1>3, EmptyLineThere

(* There is no third case.                                                 *)
LEMMA AtHeaders ==
  ASSUME AlignedInv, K <= Len(Promise), ctx.state = "headers", NEW m, m = script[K],
         Len(m.headers) \in Nat
  PROVE  Len(ctx.headers) < Len(m.headers) \/ Len(ctx.headers) = Len(m.headers)
<1>1. Knows(ctx, m, Len(ctx.headers))
  BY DEF AlignedInv, Stands
<1> QED
  BY <1>1 DEF Knows

(* And the body begins where the parser stands after it.                   *)
LEMMA AtBody ==
  ASSUME IInv, AlignedInv, K <= Len(Promise), ctx.state = "body",
         NEW m, m = script[K], NEW at, at = Start(script, K)
  PROVE  /\ Knows(ctx, m, Len(m.headers)) /\ consumed = at + (5 + 3 * Len(m.headers))
         /\ Verdict(m) = 200 /\ ctx.length = Len(m.body)
         /\ Has(Stream, consumed, m.body)
<1>1. m \in Messages /\ Laid(Stream, at, m)
  BY Here
<1>2. /\ Knows(ctx, m, Len(m.headers)) /\ consumed = at + (5 + 3 * Len(m.headers))
      /\ Verdict(m) = 200 /\ ctx.length = BodyLength(m)
  BY DEF AlignedInv, Stands
<1>3. Len(m.body) = BodyLength(m)
  BY <1>1, <1>2, InputAssumption DEF Messages, IsMessage
<1> QED
  BY <1>1, <1>2, <1>3 DEF Laid

(* What a parser's step does to an error,                                  *)
LEMMA FailsStep ==
  ASSUME IInv, Exact, Parsing, NEW code, NEW n \in 1 .. ReadableBytes, Fails(code, n),
         K <= Len(Promise) => Verdict(script[K]) = code /\ code # 200
  PROVE  Exact'
<1>1. OutcomeInv' /\ AlignedInv'
  BY FailsExact DEF Exact
<1>2. ctx' = NewContext /\ UNCHANGED continued /\ Returns /\ Takes(n)
  BY DEF Fails, Reset
<1>3. ProgressInv' /\ PromiseInv'
  BY <1>2, OutcomeGoesOn DEF Exact
<1> QED
  BY <1>1, <1>3 DEF Exact

(* and to a request.                                                       *)
LEMMA CompletesStep ==
  ASSUME IInv, Exact, Parsing, NEW body, NEW n \in 1 .. ReadableBytes, Completes(body, n),
         K <= Len(Promise) =>
            /\ Verdict(script[K]) = 200
            /\ ctx.line = script[K].line /\ ctx.headers = script[K].headers
            /\ body = script[K].body
            /\ consumed + n = EndsOf[script][K]
  PROVE  Exact'
<1>1. OutcomeInv' /\ AlignedInv'
  BY CompletesExact DEF Exact
<1>2. ctx' = NewContext /\ UNCHANGED continued /\ Returns /\ Takes(n)
  BY DEF Completes, Reset
<1>3. ProgressInv' /\ PromiseInv'
  BY <1>2, OutcomeGoesOn DEF Exact
<1> QED
  BY <1>1, <1>3 DEF Exact

-----------------------------------------------------------------------------
(* The steps of parseRequest, one by one.                                  *)

(* parseRequestLine keeps Exact: the line is whole, or it waits; it is the *)
(* request line of message K, accepted or refused as that line has to be.  *)
LEMMA RequestLineExact ==
  ASSUME IInv, Exact, ParseRequestLine
  PROVE  Exact'
<1> DEFINE text == TextOf(Line)
           size == SizeOf(Line)
<1>1. Parsing /\ ctx.state = "line" /\ ctx \in Context
  BY DEF ParseRequestLine, Parsing, IInv, StateInv
<1>2. CASE ~ HasLine
  BY <1>1, <1>2, IncompleteExact DEF ParseRequestLine, Stuck
<1>3. CASE HasLine
  <2>1. WholeLine \in 1 .. ReadableBytes /\ ReadableBytes \in Nat
    BY <1>3, LineFound, BytesHeld DEF IInv
  <2>2. K <= Len(Promise) =>
           /\ ctx = NewContext /\ consumed = Start(script, K) /\ WholeLine = 3
           /\ script[K].line \in LineTexts /\ script[K] \in Messages
           /\ text = script[K].line /\ size = Size[script[K].line]
    BY <1>1, <1>3, AtLine, Here DEF Exact
  <2> HIDE DEF text, size
  <2>3. CASE size > MaxHeaderLine
    <3>1. Fails(413, WholeLine)
      BY <1>3, <2>3 DEF ParseRequestLine, size
    <3>2. ASSUME K <= Len(Promise) PROVE Verdict(script[K]) = 413
      <4>1. LineVerdict(script[K].line) = 413
        BY <2>2, <2>3, <3>2, LineAgrees
      <4> QED
        BY <4>1, LineRefused
    <3>3. 413 # 200
      OBVIOUS
    <3> QED
      BY <1>1, <2>1, <3>1, <3>2, <3>3, FailsStep
  <2>4. CASE ~ (size > MaxHeaderLine) /\ LineError(text) # 0
    <3>1. Fails(LineError(text), WholeLine)
      BY <1>3, <2>4 DEF ParseRequestLine, size, text
    <3>2. ASSUME K <= Len(Promise)
          PROVE  Verdict(script[K]) = LineError(text) /\ LineError(text) # 200
      <4>1. LineVerdict(script[K].line) = LineError(text) /\ LineError(text) # 200
        BY <2>2, <2>4, <3>2, LineAgrees
      <4> QED
        BY <4>1, LineRefused
    <3> QED
      BY <1>1, <2>1, <3>1, <3>2, FailsStep
  <2>5. CASE ~ (size > MaxHeaderLine) /\ LineError(text) = 0
    <3> DEFINE c == [ctx EXCEPT !.line = text, !.state = "headers"]
    <3>1. GoesOn(c, WholeLine)
      BY <1>3, <2>5 DEF ParseRequestLine, size, text
    <3>2. c.continueSent = ctx.continueSent /\ c.state = "headers"
      BY <1>1 DEF Context
    <3>3. ASSUME K <= Len(Promise)
          PROVE  Stands(c, consumed + WholeLine, script[K], Start(script, K))
      <4> DEFINE m == script[K]
      <4>1. LineVerdict(m.line) = 200
        BY <2>2, <2>5, <3>3, LineAgrees
      <4>2. c = [NewContext EXCEPT !.line = m.line, !.state = "headers"]
        BY <2>2, <3>3
      <4> HIDE DEF c
      <4>3. /\ c.line = m.line /\ c.headers = <<>> /\ c.headerBytes = 0 /\ c.length = 0
            /\ ~ c.lengthSeen /\ ~ c.hostSeen /\ ~ c.expect /\ c.state = "headers"
        BY <4>2 DEF NewContext
      <4>4. Before(m, 0 + 1) = {} /\ SizeUpTo(m, 0) = 0
        BY SizeIs DEF Before
      <4>5. Len(m.headers) \in Nat /\ Start(script, K) \in Nat
        BY <3>3, Here
      <4>6. Knows(c, m, 0)
        BY <4>1, <4>3, <4>4, <4>5 DEF Knows
      <4>7. Len(c.headers) = 0 /\ consumed + WholeLine = Start(script, K) + (3 + 3 * 0)
        BY <2>2, <3>3, <4>3, <4>5
      <4> QED
        BY <4>3, <4>6, <4>7 DEF Stands
    <3> HIDE DEF c
    <3>4. WholeLine \in 0 .. ReadableBytes
      BY <2>1
    <3> QED
      BY <1>1, <3>1, <3>2, <3>3, <3>4, GoesOnExact
  <2> QED
    BY <2>3, <2>4, <2>5
<1> QED
  BY <1>2, <1>3

(* parseHeaders keeps Exact for a header line: its size counts, and the    *)
(* fields it sets are those the message's first headers say.               *)
LEMMA HeaderExact ==
  ASSUME IInv, Exact, ParseHeader
  PROVE  Exact'
<1> DEFINE text == TextOf(Line)
           size == SizeOf(Line)
           n == Len(ctx.headers)
           tooLong == size > MaxHeaderLine \/ ctx.headerBytes + size > MaxHeaderBytes
<1>1. Parsing /\ ctx.state = "headers" /\ ctx \in Context
  BY DEF ParseHeader, Parsing, IInv, StateInv
<1>2. CASE ~ HasLine
  BY <1>1, <1>2, IncompleteExact DEF ParseHeader, Stuck
<1>3. CASE HasLine
  <2>1. WholeLine \in 1 .. ReadableBytes /\ ReadableBytes \in Nat /\ Line # <<>>
    BY <1>3, LineFound, BytesHeld DEF IInv, ParseHeader
  <2>2. ASSUME K <= Len(Promise), NEW m, m = script[K]
        PROVE  /\ m \in Messages /\ n \in Nat /\ n < Len(m.headers) /\ Knows(ctx, m, n)
               /\ consumed = Start(script, K) + (3 + 3 * n) /\ WholeLine = 3
               /\ text = m.headers[n + 1] /\ size = Size[m.headers[n + 1]]
               /\ Len(m.headers) \in Nat /\ Start(script, K) \in Nat
    <3>1. m \in Messages /\ Len(m.headers) \in Nat /\ Start(script, K) \in Nat
      BY <2>2, Here
    <3>2. n < Len(m.headers)
      <4>1. CASE n = Len(m.headers)
        <5>1. Line = <<>>
          BY <1>1, <1>3, <2>2, <4>1, AtEmptyLine DEF Exact
        <5> QED
          BY <2>1, <5>1
      <4> QED
        BY <1>1, <2>2, <3>1, <4>1, AtHeaders DEF Exact
    <3> QED
      BY <1>1, <1>3, <2>2, <3>1, <3>2, AtHeader DEF Exact
  <2>3. ASSUME K <= Len(Promise), NEW m, m = script[K]
        PROVE  /\ tooLong => HeaderVerdict(m, n + 1) = 413
               /\ ~ tooLong /\ HeaderError(text) # 0
                     => HeaderVerdict(m, n + 1) = HeaderError(text) /\ HeaderError(text) # 200
               /\ ~ tooLong /\ HeaderError(text) = 0 => HeaderVerdict(m, n + 1) = 200
    <3>1. /\ m \in Messages /\ n \in Nat /\ n < Len(m.headers) /\ Knows(ctx, m, n)
          /\ text = m.headers[n + 1] /\ size = Size[text]
      BY <2>2, <2>3
    <3> HIDE DEF text, size, n
    <3> QED
      BY <3>1, HeaderAgrees
  <2>4. ASSUME K <= Len(Promise), HeaderVerdict(script[K], n + 1) # 200
        PROVE  Verdict(script[K]) = HeaderVerdict(script[K], n + 1)
    <3> DEFINE m == script[K]
    <3>1. m \in Messages /\ n \in Nat /\ n < Len(m.headers) /\ Knows(ctx, m, n)
          /\ Len(m.headers) \in Nat
      BY <2>2, <2>4
    <3> HIDE DEF n
    <3>2. n + 1 \in 1 .. Len(m.headers) /\ (n + 1) - 1 = n
      BY <3>1
    <3>3. LineVerdict(m.line) = 200 /\ \A i \in 1 .. (n + 1) - 1 : HeaderVerdict(m, i) = 200
      BY <3>1, <3>2 DEF Knows
    <3> QED
      BY <2>4, <3>1, <3>2, <3>3, HeaderRefused
  <2> HIDE DEF text, size, tooLong, n
  <2>5. CASE tooLong
    <3>1. Fails(413, WholeLine)
      BY <1>3, <2>5 DEF ParseHeader, size, text, tooLong
    <3>2. 413 # 200
      OBVIOUS
    <3>3. ASSUME K <= Len(Promise) PROVE Verdict(script[K]) = 413
      <4>1. HeaderVerdict(script[K], n + 1) = 413
        BY <2>3, <2>5, <3>3
      <4> QED
        BY <2>4, <3>2, <3>3, <4>1
    <3> QED
      BY <1>1, <2>1, <3>1, <3>2, <3>3, FailsStep
  <2>6. CASE ~ tooLong /\ HeaderError(text) # 0
    <3>1. Fails(HeaderError(text), WholeLine)
      BY <1>3, <2>6 DEF ParseHeader, size, text, tooLong
    <3>2. ASSUME K <= Len(Promise)
          PROVE  Verdict(script[K]) = HeaderError(text) /\ HeaderError(text) # 200
      <4>1. HeaderVerdict(script[K], n + 1) = HeaderError(text) /\ HeaderError(text) # 200
        BY <2>3, <2>6, <3>2
      <4> QED
        BY <2>4, <3>2, <4>1
    <3> QED
      BY <1>1, <2>1, <3>1, <3>2, FailsStep
  <2>7. CASE ~ tooLong /\ HeaderError(text) = 0
    <3> DEFINE c == WithHeader(text, size)
    <3>1. GoesOn(c, WholeLine)
      BY <1>3, <2>7 DEF ParseHeader, size, text, tooLong
    <3>2. c.continueSent = ctx.continueSent /\ c.state = "headers"
      BY <1>1 DEF Context, WithHeader
    <3>3. ASSUME K <= Len(Promise)
          PROVE  Stands(c, consumed + WholeLine, script[K], Start(script, K))
      <4> DEFINE m == script[K]
      <4>1. /\ m \in Messages /\ n \in Nat /\ n < Len(m.headers) /\ Knows(ctx, m, n)
            /\ consumed = Start(script, K) + (3 + 3 * n) /\ WholeLine = 3
            /\ text = m.headers[n + 1] /\ size = Size[text]
            /\ Start(script, K) \in Nat
        BY <2>2, <3>3
      <4>2. HeaderVerdict(m, n + 1) = 200
        BY <2>3, <2>7, <3>3
      <4>3. Knows(WithHeader(text, Size[text]), m, n + 1)
        <5> HIDE DEF m
        <5> QED
          BY <1>1, <2>7, <4>1, <4>2, HeaderKnown
      <4>4. Knows(c, m, n + 1)
        BY <4>1, <4>3
      <4> HIDE DEF c
      <4>5. Len(c.headers) = n + 1
        BY <4>4 DEF Knows
      <4>6. consumed + WholeLine = Start(script, K) + (3 + 3 * (n + 1))
        BY <4>1
      <4> QED
        BY <3>2, <4>4, <4>5, <4>6 DEF Stands
    <3> HIDE DEF c
    <3>4. WholeLine \in 0 .. ReadableBytes
      BY <2>1
    <3> QED
      BY <1>1, <3>1, <3>2, <3>3, <3>4, GoesOnExact
  <2> QED
    BY <2>5, <2>6, <2>7
<1> QED
  BY <1>2, <1>3

(* parseHeaders keeps Exact at the empty line: the Host that HTTP/1.1      *)
(* needs, the limit of the body, and the 100 Continue before the body.     *)
LEMMA EndOfHeadersExact ==
  ASSUME IInv, Exact, EndOfHeaders
  PROVE  Exact'
<1>1. Parsing /\ ctx.state = "headers" /\ ctx \in Context /\ HasLine /\ Line = <<>>
  BY DEF EndOfHeaders, Parsing, IInv, StateInv
<1>2. WholeLine \in 1 .. ReadableBytes /\ ReadableBytes \in Nat
  BY <1>1, LineFound, BytesHeld DEF IInv
<1>3. ASSUME K <= Len(Promise), NEW m, m = script[K]
      PROVE  /\ m \in Messages /\ Knows(ctx, m, Len(m.headers))
             /\ Len(ctx.headers) = Len(m.headers)
             /\ consumed = Start(script, K) + (3 + 3 * Len(m.headers)) /\ WholeLine = 2
             /\ Len(m.headers) \in Nat /\ Len(m.body) \in Nat /\ Start(script, K) \in Nat
             /\ m.body \in Seq(Byte)
             /\ EndsOf[script][K] = Start(script, K) + (5 + 3 * Len(m.headers) + Len(m.body))
  <2>1. /\ m \in Messages /\ Len(m.headers) \in Nat /\ Start(script, K) \in Nat
        /\ Len(m.body) \in Nat /\ m.body \in Seq(Byte)
        /\ EndsOf[script][K] = Start(script, K) + (5 + 3 * Len(m.headers) + Len(m.body))
    BY <1>3, Here
  <2>2. Len(ctx.headers) = Len(m.headers)
    <3>1. CASE Len(ctx.headers) < Len(m.headers)
      <4>1. Line # <<>>
        BY <1>1, <1>3, <3>1, AtHeader DEF Exact
      <4> QED
        BY <1>1, <4>1
    <3> QED
      BY <1>1, <1>3, <2>1, <3>1, AtHeaders DEF Exact
  <2>3. /\ Knows(ctx, m, Len(m.headers))
        /\ consumed = Start(script, K) + (3 + 3 * Len(m.headers)) /\ WholeLine = 2
    BY <1>1, <1>3, <2>2, AtEmptyLine DEF Exact
  <2> QED
    BY <2>1, <2>2, <2>3
<1>4. ASSUME K <= Len(Promise), NEW m, m = script[K]
      PROVE  /\ ctx.headers = m.headers /\ ctx.line = m.line
             /\ BodyLength(m) = ctx.length
             /\ HeadersError # 0 => Verdict(m) = HeadersError /\ HeadersError # 200
             /\ HeadersError = 0 => Verdict(m) = 200
  <2>1. m \in Messages /\ Knows(ctx, m, Len(m.headers))
    BY <1>3, <1>4
  <2>2. ctx \in Context
    BY <1>1
  <2> QED
    BY <2>1, <2>2, MessageAgrees
<1>5. CASE HeadersError # 0
  <2>1. Fails(HeadersError, WholeLine)
    BY <1>5 DEF EndOfHeaders
  <2>2. K <= Len(Promise) => Verdict(script[K]) = HeadersError /\ HeadersError # 200
    BY <1>4, <1>5
  <2> QED
    BY <1>1, <1>2, <2>1, <2>2, FailsStep
<1>6. CASE HeadersError = 0 /\ ctx.length > 0
  <2> DEFINE c == [ctx EXCEPT !.state = "body"]
  <2>1. GoesOn(c, WholeLine)
    BY <1>6 DEF EndOfHeaders
  <2>2. /\ c.continueSent = ctx.continueSent /\ c.state = "body" /\ c.length = ctx.length
        /\ c.line = ctx.line /\ c.headers = ctx.headers /\ c.headerBytes = ctx.headerBytes
        /\ c.lengthSeen = ctx.lengthSeen /\ c.hostSeen = ctx.hostSeen /\ c.expect = ctx.expect
    BY <1>1 DEF Context
  <2> HIDE DEF c
  <2>3. ASSUME K <= Len(Promise)
        PROVE  Stands(c, consumed + WholeLine, script[K], Start(script, K))
    <3> DEFINE m == script[K]
    <3>1. /\ Knows(ctx, m, Len(m.headers))
          /\ consumed = Start(script, K) + (3 + 3 * Len(m.headers)) /\ WholeLine = 2
          /\ Len(m.headers) \in Nat /\ Start(script, K) \in Nat
      BY <1>3, <2>3
    <3>2. Knows(c, m, Len(m.headers))
      BY <2>2, <3>1 DEF Knows
    <3>3. consumed + WholeLine = Start(script, K) + (5 + 3 * Len(m.headers))
      <4>1. ASSUME NEW a \in Nat, NEW h \in Nat PROVE (a + (3 + 3 * h)) + 2 = a + (5 + 3 * h)
        OBVIOUS
      <4> HIDE DEF m
      <4> QED
        BY <3>1, <4>1
    <3>4. Verdict(m) = 200 /\ c.length = BodyLength(m)
      BY <1>4, <1>6, <2>2, <2>3
    <3> QED
      BY <2>2, <3>2, <3>3, <3>4 DEF Stands
  <2>4. WholeLine \in 0 .. ReadableBytes
    BY <1>2
  <2> QED
    BY <1>1, <1>6, <2>1, <2>2, <2>3, <2>4, GoesOnExact
<1>7. CASE HeadersError = 0 /\ ~ (ctx.length > 0)
  <2>1. Completes(<<>>, WholeLine)
    BY <1>7 DEF EndOfHeaders
  <2>2. ASSUME K <= Len(Promise)
        PROVE  /\ Verdict(script[K]) = 200
               /\ ctx.line = script[K].line /\ ctx.headers = script[K].headers
               /\ <<>> = script[K].body
               /\ consumed + WholeLine = EndsOf[script][K]
    <3> DEFINE m == script[K]
    <3>1. Verdict(m) = 200 /\ ctx.line = m.line /\ ctx.headers = m.headers
          /\ BodyLength(m) = ctx.length
      BY <1>4, <1>7, <2>2
    <3>2. /\ m \in Messages /\ Len(m.headers) \in Nat /\ Len(m.body) \in Nat
          /\ m.body \in Seq(Byte) /\ Start(script, K) \in Nat /\ WholeLine = 2
          /\ consumed = Start(script, K) + (3 + 3 * Len(m.headers))
          /\ EndsOf[script][K] = Start(script, K) + (5 + 3 * Len(m.headers) + Len(m.body))
      BY <1>3, <2>2
    <3>3. Len(m.body) = 0
      <4>1. Len(m.body) = BodyLength(m)
        BY <3>1, <3>2, InputAssumption DEF Messages, IsMessage
      <4>2. ctx.length \in Nat
        BY <1>1 DEF Context
      <4> QED
        BY <1>7, <3>1, <4>1, <4>2
    <3> HIDE DEF m
    <3>4. m.body = <<>>
      BY <3>2, <3>3, EmptySeq
    <3>5. consumed + WholeLine = EndsOf[script][K]
      BY <3>2, <3>3
    <3> QED
      BY <3>1, <3>4, <3>5 DEF m
  <2> QED
    BY <1>1, <1>2, <2>1, <2>2, CompletesStep
<1> QED
  BY <1>5, <1>6, <1>7

(* The body keeps Exact: it is taken when it is there whole, and the       *)
(* request is complete.                                                    *)
LEMMA BodyExact ==
  ASSUME IInv, Exact, ParseBody
  PROVE  Exact'
<1>1. Parsing /\ ctx.state = "body" /\ ctx \in Context
  BY DEF ParseBody, Parsing, IInv, StateInv
<1>2. ReadableBytes \in Nat /\ ctx.length \in Nat /\ ctx.length > 0
  BY <1>1, BytesHeld DEF Context, Exact, ProgressInv
<1>3. CASE ReadableBytes < ctx.length
  BY <1>1, <1>3, IncompleteExact DEF ParseBody, Stuck
<1>4. CASE ~ (ReadableBytes < ctx.length)
  <2> DEFINE body == SubSeq(Readable(input), 1, ctx.length)
             n == ctx.length
  <2>1. Completes(body, n)
    BY <1>4 DEF ParseBody
  <2>2. n \in 1 .. ReadableBytes
    BY <1>2, <1>4
  <2>3. ASSUME K <= Len(Promise)
        PROVE  /\ Verdict(script[K]) = 200
               /\ ctx.line = script[K].line /\ ctx.headers = script[K].headers
               /\ body = script[K].body
               /\ consumed + n = EndsOf[script][K]
    <3> DEFINE m == script[K]
    <3>1. /\ Knows(ctx, m, Len(m.headers))
          /\ consumed = Start(script, K) + (5 + 3 * Len(m.headers))
          /\ Verdict(m) = 200 /\ n = Len(m.body) /\ Has(Stream, consumed, m.body)
      BY <1>1, <2>3, AtBody DEF Exact
    <3>2. /\ m \in Messages /\ Len(m.headers) \in Nat /\ Len(m.body) \in Nat
          /\ m.body \in Seq(Byte) /\ Start(script, K) \in Nat
          /\ EndsOf[script][K] = Start(script, K) + (5 + 3 * Len(m.headers) + Len(m.body))
      BY <2>3, Here
    <3>3. ctx.line = m.line /\ ctx.headers = m.headers
      BY <1>1, <3>1, <3>2, MessageAgrees
    <3>4. body = m.body
      <4>1. Len(m.body) <= ReadableBytes
        BY <1>2, <1>4, <3>1, <3>2
      <4>2. SubSeq(Readable(input), 1, Len(m.body)) = m.body
        BY <3>1, <3>2, <4>1, BodyThere
      <4> QED
        BY <3>1, <4>2
    <3> HIDE DEF body, n
    <3>5. consumed + n = EndsOf[script][K]
      <4>1. ASSUME NEW a \in Nat, NEW h \in Nat, NEW b \in Nat
            PROVE  (a + (5 + 3 * h)) + b = a + (5 + 3 * h + b)
        OBVIOUS
      <4> HIDE DEF m
      <4>2. consumed + n = (Start(script, K) + (5 + 3 * Len(m.headers))) + Len(m.body)
        BY <3>1
      <4>3. (Start(script, K) + (5 + 3 * Len(m.headers))) + Len(m.body)
               = Start(script, K) + (5 + 3 * Len(m.headers) + Len(m.body))
        BY <3>2, <4>1
      <4> QED
        BY <3>2, <4>2, <4>3
    <3> QED
      BY <3>1, <3>3, <3>4, <3>5
  <2> HIDE DEF body, n
  <2> QED
    BY <1>1, <2>1, <2>2, <2>3, CompletesStep
<1> QED
  BY <1>3, <1>4

(* In an empty buffer there is nothing to find.                            *)
LEMMA NothingStuck ==
  ASSUME IInv, ReadableBytes = 0, ctx.state = "body" => ctx.length > 0
  PROVE  Stuck
<1> DEFINE S == {i \in 1 .. ReadableBytes - 1 :
                    Stream[consumed + i] = "r" /\ Stream[consumed + (i + 1)] = "n"}
                  \union {ReadableBytes + 1}
<1>1. S \in SUBSET Nat /\ S # {}
  OBVIOUS
<1>2. FindCrlf = Min(S)
  BY BytesHeld
<1> HIDE DEF S
<1>3. FindCrlf \in Nat
  BY <1>1, <1>2, MinIs
<1>4. ~ HasLine
  BY <1>3 DEF HasLine
<1> QED
  BY <1>4 DEF Stuck

(* A new connection stands at the start of its first message.              *)
LEMMA InitExact ==
  ASSUME Init
  PROVE  Exact
<1>1. IInv
  BY InitHolds
<1>2. /\ outcomes = <<>> /\ continued = <<>> /\ ctx = NewContext /\ consumed = 0 /\ received = 0
      /\ oldLen = 0 /\ pc = "wait"
  BY DEF Init
<1>3. Len(outcomes) = 0 /\ Len(continued) = 0 /\ K = 1
  BY <1>2 DEF K
<1>4. ctx.state = "line" /\ ctx.continueSent = FALSE
  BY <1>2 DEF NewContext
<1>5. AlignedInv
  BY <1>2, <1>3, <1>4 DEF AlignedInv, Stands, Start
<1>6. OutcomeInv
  BY <1>3 DEF OutcomeInv
<1>7. ReadableBytes = 0
  BY <1>1, <1>2, BytesHeld
<1>8. Stuck
  BY <1>1, <1>4, <1>7, NothingStuck
<1>9. ProgressInv
  BY <1>2, <1>4, <1>8 DEF ProgressInv
<1>10. PromiseInv
  BY <1>3, <1>4 DEF PromiseInv
<1> QED
  BY <1>5, <1>6, <1>9, <1>10 DEF Exact

(* The steps of the client, of the loop and of the answers.                *)
LEMMA SocketExact ==
  ASSUME IInv, Exact, ClientSends \/ HandleRead \/ ReadDone \/ CallBack \/ Answered
  PROVE  Exact'
<1>1. UNCHANGED <<script, received, consumed, input, ctx, outcomes, continued>> /\ pc # "parse"
  BY DEF ClientSends, HandleRead, ReadDone, CallBack, Answered, outVars, callVars
<1>2. Promise' = Promise /\ K' = K /\ Start(script', K') = Start(script, K)
  BY <1>1, PromiseStays DEF K
<1>3. AlignedInv' /\ OutcomeInv'
  BY <1>1, <1>2 DEF Exact, AlignedInv, OutcomeInv
<1>4. PromiseInv'
  BY <1>1, <1>2 DEF Exact, PromiseInv
<1>5. Stuck' = Stuck /\ ReadableBytes' = ReadableBytes /\ ReadableBytes \in Nat
  BY <1>1, BytesHeld DEF Stuck, HasLine, FindCrlf, ReadableBytes
<1>6. ctx.state = "body" => ctx.length > 0
  BY DEF Exact, ProgressInv
<1>7. ProgressInv'
  <2>1. CASE ClientSends
    BY <1>1, <1>5, <2>1 DEF Exact, ProgressInv, ClientSends, callVars, outVars
  <2>2. CASE HandleRead \/ ReadDone \/ Answered
    <3>1. pc' \in {"read", "process"} /\ oldLen' = oldLen
      BY <2>2 DEF HandleRead, ReadDone, Answered
    <3> QED
      BY <1>1, <3>1 DEF Exact, ProgressInv
  <2>3. CASE CallBack
    <3>1. CASE ~ closed /\ inflight < MaxInflight /\ ReadableBytes > 0
      <4>1. pc' = "parse" /\ oldLen' = ReadableBytes
        BY <2>3, <3>1 DEF CallBack
      <4> QED
        BY <1>1, <1>5, <1>6, <4>1 DEF ProgressInv
    <3>2. CASE ~ (~ closed /\ inflight < MaxInflight /\ ReadableBytes > 0)
      <4>1. pc' = "wait" /\ oldLen' = oldLen /\ closed' = closed /\ inflight' = inflight
        BY <2>3, <3>2 DEF CallBack, outVars
      <4>2. inflight \in Nat /\ MaxInflight \in Nat
        BY InputAssumption DEF IInv, StateInv
      <4>3. closed \/ inflight >= MaxInflight \/ ReadableBytes = 0
        BY <1>5, <3>2, <4>2
      <4>4. closed \/ inflight >= MaxInflight \/ Stuck
        BY <1>6, <4>3, NothingStuck
      <4> QED
        BY <1>1, <1>5, <4>1, <4>4 DEF Exact, ProgressInv
    <3> QED
      BY <3>1, <3>2
  <2> QED
    BY <2>1, <2>2, <2>3
<1> QED
  BY <1>3, <1>4, <1>7 DEF Exact

(* A read of the socket keeps Exact: it only adds bytes behind those the   *)
(* parser has.                                                             *)
LEMMA ReadvExact ==
  ASSUME IInv, Exact, Readv
  PROVE  Exact'
<1>1. /\ UNCHANGED <<script, consumed, ctx, outcomes, continued, oldLen, pc>> /\ pc = "read"
  BY DEF Readv, outVars, callVars
<1>2. Promise' = Promise /\ K' = K /\ Start(script', K') = Start(script, K)
  BY <1>1, PromiseStays DEF K
<1>3. AlignedInv' /\ OutcomeInv'
  BY <1>1, <1>2 DEF Exact, AlignedInv, OutcomeInv
<1>4. PromiseInv'
  BY <1>1, <1>2 DEF Exact, PromiseInv
<1>5. ProgressInv'
  BY <1>1 DEF Exact, ProgressInv
<1> QED
  BY <1>3, <1>4, <1>5 DEF Exact

(* The parser stands in message K where its state says, its outcomes are   *)
(* the ones promised, and it waits only when it has to.                    *)
THEOREM ExactInvariance == Spec => [](IInv /\ Exact)
<1>1. Init => IInv /\ Exact
  BY InitHolds, InitExact
<1>2. IInv /\ Exact /\ [Next]_vars => Exact'
  <2> SUFFICES ASSUME IInv, Exact, [Next]_vars PROVE Exact'
    OBVIOUS
  <2>1. CASE Next
    BY <2>1, ReadvExact, SocketExact, RequestLineExact, HeaderExact,
       EndOfHeadersExact, BodyExact
       DEF Next
  <2>2. CASE UNCHANGED vars
    <3>1. UNCHANGED <<script, sent, received, consumed, input, ctx, pc, oldLen, inflight, closed,
                      outcomes, continued>>
      BY <2>2 DEF vars, callVars, outVars
    <3>2. Promise' = Promise /\ K' = K /\ Start(script', K') = Start(script, K)
      BY <3>1, PromiseStays DEF K
    <3>3. Stuck' = Stuck /\ ReadableBytes' = ReadableBytes
      BY <3>1 DEF Stuck, HasLine, FindCrlf, ReadableBytes
    <3>4. AlignedInv' /\ OutcomeInv'
      BY <3>1, <3>2 DEF Exact, AlignedInv, OutcomeInv
    <3>5. ProgressInv'
      BY <3>1, <3>3 DEF Exact, ProgressInv
    <3>6. PromiseInv'
      BY <3>1, <3>2 DEF Exact, PromiseInv
    <3> QED
      BY <3>4, <3>5, <3>6 DEF Exact
  <2> QED
    BY <2>1, <2>2
<1> QED
  BY <1>1, <1>2, Invariance, PTL DEF Spec

-----------------------------------------------------------------------------
(* When the thread waits with room for requests, the message it is in has  *)
(* not arrived whole; and if its head has, the parser is waiting for the   *)
(* body.                                                                   *)
LEMMA IdleHere ==
  ASSUME IInv, Exact, Idle, K <= Len(Promise), NEW m, m = script[K], NEW at, at = Start(script, K)
  PROVE  /\ received < EndsOf[script][K]
         /\ received >= at + (5 + 3 * Len(m.headers)) => ctx.state = "body"
<1> DEFINE n == Len(m.headers)
           l == Len(ctx.headers)
           b == Len(m.body)
<1>1. /\ at \in Nat /\ n \in Nat /\ b \in Nat
      /\ EndsOf[script][K] = at + (5 + 3 * n + b)
  BY Here
<1>2. /\ ReadableBytes = received - consumed /\ received \in Nat /\ consumed \in Nat
  BY BytesHeld
<1>3. ctx.state \in {"line", "headers", "body"} /\ inflight \in Nat /\ MaxInflight \in Nat
  <2>1. ctx \in Context /\ inflight \in 0 .. MaxInflight
    BY DEF IInv, StateInv
  <2>2. MaxInflight \in Nat
    BY InputAssumption
  <2>3. ctx.state \in {"line", "headers", "body"}
    BY <2>1 DEF Context
  <2> QED
    BY <2>1, <2>2, <2>3
<1>4. Stuck
  BY <1>3 DEF Exact, ProgressInv, Idle
<1> HIDE DEF n, b, l
<1>5. CASE ctx.state = "line"
  <2>1. consumed = at /\ ~ (ReadableBytes >= 3)
    BY <1>4, <1>5, AtLine DEF Exact, Stuck
  <2>2. received < at + 3
    BY <1>1, <1>2, <2>1
  <2>3. received < at + (5 + 3 * n + b) /\ ~ (received >= at + (5 + 3 * n))
    BY <1>1, <1>2, <2>2
  <2> QED
    BY <1>1, <2>3 DEF n
<1>6. CASE ctx.state = "headers" /\ l < n
  <2>1. consumed = at + (3 + 3 * l) /\ ~ (ReadableBytes >= 3) /\ l \in Nat
    BY <1>4, <1>6, AtHeader DEF Exact, Stuck, l, n
  <2>2. \A r, a, h, d, p \in Nat :
           ~ (r - (a + (3 + 3 * p)) >= 3) /\ p < h
             => r < a + (5 + 3 * h + d) /\ ~ (r >= a + (5 + 3 * h))
    OBVIOUS
  <2>3. at \in Nat /\ n \in Nat /\ b \in Nat /\ l \in Nat /\ received \in Nat
    BY <1>1, <1>2, <2>1
  <2>4. ~ (received - (at + (3 + 3 * l)) >= 3) /\ l < n
    BY <1>2, <1>6, <2>1
  <2>5. received < at + (5 + 3 * n + b) /\ ~ (received >= at + (5 + 3 * n))
    BY <2>2, <2>3, <2>4, Zenon
  <2> QED
    BY <1>1, <2>5 DEF n
<1>7. CASE ctx.state = "headers" /\ l = n
  <2>1. consumed = at + (3 + 3 * n) /\ ~ (ReadableBytes >= 2)
    BY <1>4, <1>7, AtEmptyLine DEF Exact, Stuck, l, n
  <2>2. \A r, a, h, d \in Nat :
           ~ (r - (a + (3 + 3 * h)) >= 2)
             => r < a + (5 + 3 * h + d) /\ ~ (r >= a + (5 + 3 * h))
    OBVIOUS
  <2>3. at \in Nat /\ n \in Nat /\ b \in Nat /\ received \in Nat
    BY <1>1, <1>2
  <2>4. ~ (received - (at + (3 + 3 * n)) >= 2)
    BY <1>2, <2>1
  <2>5. received < at + (5 + 3 * n + b) /\ ~ (received >= at + (5 + 3 * n))
    BY <2>2, <2>3, <2>4, Zenon
  <2> QED
    BY <1>1, <2>5 DEF n
<1>8. CASE ctx.state = "body"
  <2>1. consumed = at + (5 + 3 * n) /\ ReadableBytes < b
    BY <1>4, <1>8, AtBody DEF Exact, Stuck, n, b
  <2>2. received < at + (5 + 3 * n + b)
    BY <1>1, <1>2, <2>1
  <2> QED
    BY <1>1, <1>8, <2>2
<1>9. ctx.state = "headers" => l < n \/ l = n
  BY <1>1, AtHeaders DEF Exact, l, n
<1> QED
  BY <1>3, <1>5, <1>6, <1>7, <1>8, <1>9

(* The ends of the messages grow.                                          *)
LEMMA EndsGrow ==
  ASSUME NEW s \in Scripts, NEW i \in 1 .. Len(s), NEW k \in i .. Len(s)
  PROVE  EndsOf[s][i] <= EndsOf[s][k] /\ EndsOf[s][i] \in Nat /\ EndsOf[s][k] \in Nat
<1> DEFINE n == Len(s)
           ss == Pieces(s)
<1>1. n \in Nat /\ n # 0 /\ ss \in [1 .. n -> Seq(Byte)] /\ k \in 1 .. n
  BY ScriptIs
<1>2. PICK f : Flattens(f, ss, n, Byte)
  <2> HIDE DEF ss, n
  <2> QED
    BY <1>1, FlattenIs
<1>3. Len(f[i]) <= Len(f[k])
  BY <1>2, PieceStays
<1>4. Len(f[i]) \in Nat /\ Len(f[k]) \in Nat
  BY <1>1, <1>2, PieceEnds
<1>5. EndsOf[s][i] = Len(f[i]) /\ EndsOf[s][k] = Len(f[k])
  BY <1>1, <1>2, EndIs
<1> QED
  BY <1>3, <1>4, <1>5

(* When the message being parsed has not arrived whole, no more messages   *)
(* have arrived than have an outcome.                                      *)
LEMMA ArrivedIs ==
  ASSUME IInv
  PROVE  /\ Arrived \in Nat
         /\ K \in 1 .. Len(script) /\ received < EndsOf[script][K] => Arrived <= Len(outcomes)
<1> DEFINE S == {k \in DOMAIN Ends : Ends[k] <= received}
           o == Len(outcomes)
           n == Len(script)
<1>1. script \in Scripts /\ n \in Nat /\ o \in Nat /\ received \in Nat
  BY ScriptIs, BytesHeld DEF IInv, StateInv
<1>2. DOMAIN script = 1 .. n
  BY <1>1, ScriptIs
<1>3. Ends = EndsOf[script] /\ DOMAIN Ends = 1 .. n
  BY <1>1, <1>2 DEF Ends, EndsOf
<1>4. IsFiniteSet(S) /\ Cardinality(S) \in Nat
  <2>1. IsFiniteSet(1 .. n)
    BY <1>1, FS_Interval
  <2>2. S \subseteq 1 .. n
    BY <1>3
  <2> HIDE DEF S
  <2>3. IsFiniteSet(S)
    BY <2>1, <2>2, FS_Subset
  <2> QED
    BY <2>3, FS_CardinalityType
<1>5. ASSUME K \in 1 .. n, received < EndsOf[script][K]
      PROVE  Cardinality(S) <= o
  <2>1. ASSUME NEW k \in S PROVE k \in 1 .. o
    <3>1. k \in 1 .. n /\ EndsOf[script][k] <= received
      BY <1>3
    <3>2. ~ (K <= k)
      <4> SUFFICES ASSUME K <= k PROVE FALSE
        OBVIOUS
      <4>1. k \in K .. n
        BY <1>1, <1>5, <3>1
      <4>2. EndsOf[script][K] <= EndsOf[script][k] /\ EndsOf[script][K] \in Nat
            /\ EndsOf[script][k] \in Nat
        BY <1>1, <1>5, <4>1, EndsGrow
      <4> QED
        BY <1>1, <1>5, <3>1, <4>2
    <3> QED
      BY <1>1, <3>1, <3>2 DEF K
  <2>2. IsFiniteSet(1 .. o) /\ Cardinality(1 .. o) = o
    <3> HIDE DEF o, S
    <3>1. /\ IsFiniteSet(1 .. o)
          /\ Cardinality(1 .. o) = IF 1 > o THEN 0 ELSE o - 1 + 1
      BY <1>1, FS_Interval
    <3> QED
      BY <1>1, <3>1
  <2>3. S \subseteq 1 .. o
    BY <2>1
  <2> HIDE DEF S, o
  <2>4. Cardinality(S) <= Cardinality(1 .. o)
    BY <2>2, <2>3, FS_Subset
  <2> QED
    BY <2>2, <2>4
<1>6. Arrived = Cardinality(S)
  BY DEF Arrived
<1> HIDE DEF S
<1> QED
  BY <1>4, <1>5, <1>6

(* However TCP cuts the bytes, the parser hands over the requests, and the *)
(* errors, that the client's messages mean: none is lost, split, merged or *)
(* taken twice, and none that has arrived is left lying while the thread   *)
(* waits.                                                                  *)
THEOREM RequestsSame == Spec => []SameRequests
<1>1. IInv /\ Exact => SameRequests
  <2> SUFFICES ASSUME IInv, Exact PROVE SameRequests
    OBVIOUS
  <2>1. script \in Scripts /\ outcomes \in Seq(Seen) /\ Len(outcomes) \in Nat
        /\ DOMAIN outcomes = 1 .. Len(outcomes)
    BY DEF IInv, StateInv
  <2>2. DOMAIN Promise = 1 .. Len(Promise) /\ Len(Promise) \in Nat /\ Len(Promise) <= Len(script)
        /\ Len(script) \in Nat
    <3>1. Promise = Promised(script)
      BY <2>1 DEF Promise, PromisedOf
    <3> QED
      BY <2>1, <3>1, PromiseIs, ScriptIs
  <2>3. \A i \in DOMAIN outcomes \intersect DOMAIN Promise : outcomes[i] = Promise[i]
    BY <2>1, <2>2 DEF Exact, OutcomeInv
  <2>4. ASSUME Idle PROVE Len(outcomes) >= Min({Arrived, Len(Promise)})
    <3>1. Arrived \in Nat
      BY ArrivedIs
    <3>2. Min({Arrived, Len(Promise)}) = IF Arrived <= Len(Promise) THEN Arrived ELSE Len(Promise)
      BY <2>2, <3>1, MinOfTwo
    <3>3. CASE Len(outcomes) >= Len(Promise)
      BY <2>1, <2>2, <3>1, <3>2, <3>3
    <3>4. CASE ~ (Len(outcomes) >= Len(Promise))
      <4>1. K <= Len(Promise) /\ K \in 1 .. Len(script)
        BY <2>1, <2>2, <3>4 DEF K
      <4>2. received < EndsOf[script][K]
        BY <2>4, <4>1, IdleHere
      <4>3. Arrived <= Len(outcomes)
        BY <4>1, <4>2, ArrivedIs
      <4> QED
        BY <2>1, <2>2, <3>1, <3>2, <4>3
    <3> QED
      BY <3>3, <3>4
  <2> QED
    BY <2>3, <2>4 DEF SameRequests
<1> QED
  BY <1>1, ExactInvariance, PTL

(* The client is told to go on only with a body that will be accepted, at  *)
(* most once for each message, and always when the server waits for the    *)
(* body it announced.                                                      *)
THEOREM ContinueRight == Spec => []ContinueExact
<1>1. IInv /\ Exact => ContinueExact
  <2> SUFFICES ASSUME IInv, Exact PROVE ContinueExact
    OBVIOUS
  <2>1. script \in Scripts /\ Len(outcomes) \in Nat
        /\ continued \in Seq(Nat) /\ DOMAIN continued = 1 .. Len(continued)
    BY DEF IInv, StateInv, ContinueInv
  <2>2. DOMAIN Promise = 1 .. Len(Promise) /\ Len(Promise) \in Nat
    <3>1. Promise = Promised(script)
      BY <2>1 DEF Promise, PromisedOf
    <3> QED
      BY <2>1, <3>1, PromiseIs
  <2>3. \A j, k \in DOMAIN continued : j < k => continued[j] < continued[k]
    BY <2>1 DEF IInv, ContinueInv
  <2>4. ASSUME NEW i \in DOMAIN Promise, \E j \in DOMAIN continued : continued[j] = i
        PROVE  Promise[i].code = 200 /\ "expect" \in ToSet(script[i].headers)
    <3>1. PICK j \in 1 .. Len(continued) : continued[j] = i
      BY <2>1, <2>4
    <3> QED
      BY <2>2, <3>1 DEF Exact, PromiseInv
  <2>5. ASSUME NEW i \in DOMAIN Promise, Idle, Len(outcomes) = i - 1, AwaitsBody(i),
               Promise[i].code = 200, "expect" \in ToSet(script[i].headers)
        PROVE  \E j \in DOMAIN continued : continued[j] = i
    <3> DEFINE m == script[i]
               at == Start(script, i)
    <3>1. K = i /\ K <= Len(Promise)
      BY <2>1, <2>2, <2>5 DEF K
    <3>2. /\ m \in Messages /\ at \in Nat /\ Len(m.headers) \in Nat /\ Len(m.body) \in Nat
          /\ EndsOf[script][K] = at + (5 + 3 * Len(m.headers) + Len(m.body))
      BY <3>1, Here
    <3>3. received >= at + (5 + 3 * Len(m.headers))
      <4>1. EndsOf[script][K] - Len(m.body) <= received /\ received \in Nat
        BY <2>5, <3>1, BytesHeld DEF AwaitsBody, Ends
      <4>2. ASSUME NEW a \in Nat, NEW h \in Nat, NEW b \in Nat
            PROVE  (a + (5 + 3 * h + b)) - b = a + (5 + 3 * h)
        OBVIOUS
      <4> HIDE DEF m, at
      <4>3. EndsOf[script][K] - Len(m.body) = at + (5 + 3 * Len(m.headers))
        BY <3>2, <4>2
      <4> QED
        BY <3>2, <4>1, <4>3
    <3>4. ctx.state = "body"
      <4>1. m = script[K] /\ at = Start(script, K)
        BY <3>1
      <4> HIDE DEF m, at
      <4> QED
        BY <2>5, <3>1, <3>3, <4>1, IdleHere
    <3>5. Knows(ctx, m, Len(m.headers)) /\ ctx \in Context
      BY <3>1, <3>4, AtBody DEF Exact, IInv, StateInv
    <3>6. ctx.expect
      <4> HIDE DEF m
      <4>1. ctx.expect <=> "expect" \in ToSet(m.headers)
        BY <3>2, <3>5, MessageAgrees
      <4> QED
        BY <2>5, <4>1 DEF m
    <3>7. pc = "wait"
      BY <2>5 DEF Idle
    <3>8. ctx.continueSent
      BY <3>4, <3>6, <3>7 DEF Exact, PromiseInv
    <3> QED
      BY <2>1, <3>1, <3>8 DEF Exact, PromiseInv
  <2> QED
    BY <2>3, <2>4, <2>5 DEF ContinueExact
<1> QED
  BY <1>1, ExactInvariance, PTL
=============================================================================
