-------------------------- MODULE HttpContextProofs --------------------------
(* Proofs about HttpContext.tla, for any messages and scripts, any sizes   *)
(* of the buffer's parts and any limits, and wherever TCP cuts the bytes.  *)
(*                                                                         *)
(* The order: each operation of the Buffer, by what it does to the bytes   *)
(* the buffer holds; the bytes that clients send; the inductive invariant  *)
(* and the steps that keep it; the theorems.                               *)
EXTENDS HttpContext, SequenceTheorems, WellFoundedInduction, TLAPS

(* Induction, as a fact about sets of numbers.                             *)
LEMMA Inductive ==
  ASSUME NEW S, 0 \in S, \A n \in Nat : n \in S => n + 1 \in S
  PROVE  Nat \subseteq S
<1> DEFINE T == Nat \ S
<1> SUFFICES ASSUME T # {} PROVE FALSE
  OBVIOUS
<1>1. PICK m \in T : \A y \in T : <<y, m>> \notin OpToRel(<, Nat)
  BY WFMin, NatLessThanWellFounded, Zenon
<1>2. m # 0 /\ m \in Nat
  OBVIOUS
<1>3. m - 1 \in Nat /\ m - 1 \notin S
  BY <1>2
<1>4. <<m - 1, m>> \in OpToRel(<, Nat)
  BY <1>2, <1>3 DEF OpToRel
<1> QED
  BY <1>1, <1>3, <1>4

(* Min is the least element of a set of numbers that is not empty.         *)
LEMMA MinIs ==
  ASSUME NEW S \in SUBSET Nat, S # {}
  PROVE  Min(S) \in S /\ \A y \in S : Min(S) <= y
<1>1. PICK m \in S : \A y \in S : <<y, m>> \notin OpToRel(<, Nat)
  BY WFMin, NatLessThanWellFounded, Zenon
<1>2. ASSUME NEW y \in S PROVE m <= y
  <2>1. <<y, m>> \in Nat \X Nat /\ <<y, m>> \notin OpToRel(<, Nat)
    BY <1>1
  <2>2. ~ (y < m)
    BY <2>1 DEF OpToRel
  <2>3. y \in Nat /\ m \in Nat
    BY <2>1, <1>1
  <2> QED
    BY <2>2, <2>3
<1> QED
  BY <1>2 DEF Min

(* std::min, as ReadSize and retrieve use it.                              *)
LEMMA MinOfTwo ==
  ASSUME NEW a \in Nat, NEW b \in Nat
  PROVE  Min({a, b}) = IF a <= b THEN a ELSE b
<1>1. {a, b} \in SUBSET Nat /\ {a, b} # {}
  OBVIOUS
<1>2. Min({a, b}) \in {a, b} /\ \A y \in {a, b} : Min({a, b}) <= y
  BY <1>1, MinIs
<1> QED
  BY <1>2

(* The loop's capacities, round by round.                                  *)
LEMMA DoubledIs ==
  ASSUME NEW size \in Nat \ {0}, NEW need \in Nat
  PROVE  Doubled(size, need) \in Nat /\ Doubled(size, need) >= need
         /\ Doubled(size, need) >= size
<1> DEFINE Is(f, m) == f = [k \in 0 .. m |-> IF k = 0 THEN size ELSE Round(f[k - 1], need)]
           P == {m \in Nat : \E f : Is(f, m)}
<1>1. 0 \in P
  <2> DEFINE g == [n \in 0 .. 0 |-> size]
  <2>1. Is(g, 0)
    OBVIOUS
  <2> QED
    BY <2>1
<1>2. ASSUME NEW m \in Nat, m \in P PROVE m + 1 \in P
  <2>1. PICK e : Is(e, m)
    BY <1>2
  <2> DEFINE g == [n \in 0 .. m + 1 |-> IF n \in 0 .. m THEN e[n] ELSE Round(e[m], need)]
  <2>2. ASSUME NEW n \in 0 .. m + 1
        PROVE g[n] = IF n = 0 THEN size ELSE Round(g[n - 1], need)
    <3>1. CASE n = 0
      BY <2>1, <3>1
    <3>2. CASE n \in 1 .. m
      <4>1. n - 1 \in 0 .. m /\ n - 1 \in 0 .. m + 1 /\ n \in 0 .. m
        BY <3>2
      <4>2. g[n - 1] = e[n - 1] /\ g[n] = e[n]
        BY <4>1
      <4> QED
        BY <2>1, <3>2, <4>1, <4>2
    <3>3. CASE n = m + 1
      BY <3>3
    <3> QED
      BY <3>1, <3>2, <3>3
  <2>3. Is(g, m + 1)
    <3> HIDE DEF g
    <3>1. g = [n \in 0 .. m + 1 |-> g[n]]
      BY DEF g
    <3> QED
      BY <2>2, <3>1, Zenon
  <2> HIDE DEF g, Is
  <2>4. \E f : Is(f, m + 1)
    BY <2>3
  <2> QED
    BY <2>4
<1>3. \E f : Is(f, need)
  <2> HIDE DEF Is
  <2> QED
    BY <1>1, <1>2, Inductive
<1> DEFINE cap == CHOOSE f : Is(f, need)
<1>4. Is(cap, need)
  BY <1>3, Zenon
<1>5. Doubled(size, need) = cap[need]
  BY DEF Doubled
<1> HIDE DEF cap
<1> DEFINE Big(k) == cap[k] \in Nat /\ cap[k] >= size /\ (cap[k] >= need \/ cap[k] > k)
           Q == {k \in Nat : k <= need => Big(k)}
<1>6. 0 \in Q
  BY <1>4
<1>7. ASSUME NEW k \in Nat, k \in Q PROVE k + 1 \in Q
  <2> SUFFICES ASSUME k + 1 <= need PROVE Big(k + 1)
    OBVIOUS
  <2>1. Big(k)
    BY <1>7
  <2>2. cap[k + 1] = Round(cap[k], need)
    BY <1>4
  <2> QED
    BY <2>1, <2>2 DEF Round
<1>8. Big(need)
  <2> HIDE DEF Big
  <2>1. Nat \subseteq Q
    BY <1>6, <1>7, Inductive
  <2> QED
    BY <2>1
<1> QED
  BY <1>5, <1>8

-----------------------------------------------------------------------------
(* The operations of the Buffer, over bytes of any kind B.                 *)

(* A buffer whose indices stay in it and in their order, kPrependSize      *)
(* bytes free in front.                                                    *)
IsBuffer(b, B) ==
    /\ b \in [store : Seq(B), r : Nat, w : Nat]
    /\ kPrependSize <= b.r /\ b.r <= b.w /\ b.w <= Len(b.store)

(* readableBytes() bytes can be read: those between the two indices.       *)
LEMMA ReadableIs ==
  ASSUME NEW B, NEW b, IsBuffer(b, B)
  PROVE  /\ Readable(b) \in Seq(B)
         /\ Len(Readable(b)) = b.w - b.r
         /\ \A i \in 1 .. b.w - b.r : Readable(b)[i] = b.store[b.r + i]
<1>1. b.r \in Nat /\ b.w \in Nat /\ b.store \in Seq(B) /\ b.r <= b.w /\ b.w <= Len(b.store)
  BY DEF IsBuffer
<1>2. \A i \in b.r + 1 .. b.w : b.store[i] \in B
  BY <1>1, LenProperties, ElementOfSeq
<1> DEFINE m == b.r + 1
           n == b.w
           s == b.store
<1>3. m \in Int /\ n \in Int /\ \A i \in m .. n : s[i] \in B
  BY <1>1, <1>2
<1>4. /\ SubSeq(s, m, n) \in Seq(B)
      /\ Len(SubSeq(s, m, n)) = IF m <= n THEN n - m + 1 ELSE 0
      /\ \A i \in 1 .. n - m + 1 : SubSeq(s, m, n)[i] = s[m + i - 1]
  <2> HIDE DEF m, n, s
  <2> QED
    BY <1>3, SubSeqProperties
<1>5. Readable(b) = SubSeq(s, m, n)
  BY DEF Readable
<1>6. ASSUME NEW i \in 1 .. b.w - b.r PROVE Readable(b)[i] = b.store[b.r + i]
  <2>1. i \in 1 .. n - m + 1 /\ m + i - 1 = b.r + i
    BY <1>1
  <2> QED
    BY <1>4, <1>5, <2>1
<1>7. Len(Readable(b)) = b.w - b.r
  BY <1>1, <1>4, <1>5
<1> QED
  BY <1>4, <1>5, <1>6, <1>7

(* To show what a buffer holds it is enough to look at it byte by byte.    *)
LEMMA HoldsIs ==
  ASSUME NEW B, NEW b, IsBuffer(b, B), NEW s \in Seq(B), Len(s) = b.w - b.r,
         \A i \in 1 .. b.w - b.r : s[i] = b.store[b.r + i]
  PROVE  Readable(b) = s
<1>1. /\ Readable(b) \in Seq(B)
      /\ Len(Readable(b)) = b.w - b.r
      /\ \A i \in 1 .. b.w - b.r : Readable(b)[i] = b.store[b.r + i]
  BY ReadableIs
<1> HIDE DEF Readable
<1> QED
  BY <1>1, SeqEqual

(* Storage nothing was written to.                                         *)
LEMMA JunkIs ==
  ASSUME NEW B, Junk \in B, NEW n \in Nat
  PROVE  JunkOf(n) \in Seq(B) /\ Len(JunkOf(n)) = n /\ \A i \in 1 .. n : JunkOf(n)[i] = Junk
BY DEF JunkOf

(* A new buffer, and one retrieveAll has reset, is a buffer and holds      *)
(* nothing.                                                                *)
LEMMA NewIs ==
  ASSUME NEW B, Junk \in B
  PROVE  IsBuffer(NewBuffer, B) /\ Readable(NewBuffer) = <<>>
<1>1. IsBuffer(NewBuffer, B)
  BY JunkIs, BufferAssumption DEF NewBuffer, IsBuffer
<1>2. Readable(NewBuffer) \in Seq(B) /\ Len(Readable(NewBuffer)) = 0
  BY <1>1, ReadableIs, BufferAssumption DEF NewBuffer
<1> QED
  BY <1>1, <1>2, EmptySeq

(* memcpy changes the bytes it writes and no others, and not the size.     *)
LEMMA CopyIs ==
  ASSUME NEW B, NEW store \in Seq(B), NEW bytes \in Seq(B), NEW at \in Nat
  PROVE  /\ Copy(store, at, bytes) \in Seq(B)
         /\ Len(Copy(store, at, bytes)) = Len(store)
         /\ \A i \in 1 .. Len(store) :
               Copy(store, at, bytes)[i] = IF i - at \in 1 .. Len(bytes) THEN bytes[i - at]
                                           ELSE store[i]
<1>1. Len(store) \in Nat /\ DOMAIN store = 1 .. Len(store)
      /\ \A i \in 1 .. Len(store) : store[i] \in B
  BY LenProperties, ElementOfSeq
<1>2. Len(bytes) \in Nat /\ DOMAIN bytes = 1 .. Len(bytes)
      /\ \A i \in 1 .. Len(bytes) : bytes[i] \in B
  BY LenProperties, ElementOfSeq
<1> QED
  BY <1>1, <1>2 DEF Copy

(* makeSpace, whether it moves the bytes to the front or grows the buffer, *)
(* leaves room for len bytes more and keeps what the buffer holds.         *)
LEMMA MakeSpaceIs ==
  ASSUME NEW B, Junk \in B, NEW b, IsBuffer(b, B), NEW len \in Nat
  PROVE  /\ IsBuffer(MakeSpace(b, len), B)
         /\ Readable(MakeSpace(b, len)) = Readable(b)
         /\ WriteableBytes(MakeSpace(b, len)) >= len
<1> DEFINE room == MakeSpace(b, len)
           size == Len(b.store)
           n == b.w - b.r
<1>1. /\ b.store \in Seq(B) /\ b.r \in Nat /\ b.w \in Nat /\ size \in Nat
      /\ kPrependSize \in Nat \ {0}
      /\ kPrependSize <= b.r /\ b.r <= b.w /\ b.w <= size
  BY LenProperties, BufferAssumption DEF IsBuffer
<1>2. /\ Readable(b) \in Seq(B) /\ Len(Readable(b)) = n
      /\ \A i \in 1 .. n : Readable(b)[i] = b.store[b.r + i]
  BY ReadableIs
<1>3. CASE Enough(b, len)
  <2> DEFINE moved == Copy(JunkOf(size), kPrependSize, Readable(b))
  <2>1. room = [store |-> moved, r |-> kPrependSize, w |-> kPrependSize + b.w - b.r]
    BY <1>3 DEF MakeSpace
  <2>2. /\ moved \in Seq(B) /\ Len(moved) = size
        /\ \A i \in 1 .. size :
               moved[i] = IF i - kPrependSize \in 1 .. n THEN Readable(b)[i - kPrependSize]
                          ELSE JunkOf(size)[i]
    <3> HIDE DEF Readable, size, n
    <3> DEFINE junk == JunkOf(size)
               bytes == Readable(b)
    <3>1. junk \in Seq(B) /\ Len(junk) = size /\ bytes \in Seq(B) /\ Len(bytes) = n
      BY <1>1, <1>2, JunkIs
    <3>2. kPrependSize \in Nat
      BY <1>1
    <3> HIDE DEF junk, bytes
    <3>3. /\ Copy(junk, kPrependSize, bytes) \in Seq(B)
          /\ Len(Copy(junk, kPrependSize, bytes)) = Len(junk)
          /\ \A i \in 1 .. Len(junk) : Copy(junk, kPrependSize, bytes)[i] =
                 IF i - kPrependSize \in 1 .. Len(bytes) THEN bytes[i - kPrependSize]
                 ELSE junk[i]
      BY <3>1, <3>2, CopyIs
    <3> QED
      BY <3>1, <3>3, Zenon DEF junk, bytes
  <2> HIDE DEF room, moved
  <2>3. room.r = kPrependSize /\ room.w = kPrependSize + n /\ room.store = moved
    BY <1>1, <2>1
  <2>4. IsBuffer(room, B)
    BY <1>1, <2>1, <2>2 DEF IsBuffer
  <2>5. WriteableBytes(room) >= len
    BY <1>1, <1>3, <2>1, <2>2 DEF WriteableBytes, Enough
  <2>6. Readable(room) = Readable(b)
    <3>1. ASSUME NEW i \in 1 .. n PROVE Readable(b)[i] = room.store[room.r + i]
      <4>1. room.r + i \in 1 .. size /\ (room.r + i) - kPrependSize = i
        BY <1>1, <2>3
      <4> QED
        BY <2>2, <2>3, <4>1
    <3>2. room.w - room.r = n
      BY <1>1, <2>3
    <3> HIDE DEF Readable, n
    <3> QED
      BY <1>2, <2>4, <3>1, <3>2, HoldsIs
  <2> QED
    BY <2>4, <2>5, <2>6 DEF room
<1>4. CASE ~ Enough(b, len)
  <2> DEFINE more == Doubled(size, b.w + len + kPrependSize)
             grown == Resized(b.store, more)
  <2>1. room = [b EXCEPT !.store = grown]
    BY <1>4 DEF MakeSpace
  <2>2. more \in Nat /\ more >= b.w + len + kPrependSize /\ more >= size
    <3>1. size \in Nat \ {0} /\ b.w + len + kPrependSize \in Nat
      BY <1>1
    <3> QED
      BY <3>1, DoubledIs
  <2>3. /\ grown \in Seq(B) /\ Len(grown) = more
        /\ \A i \in 1 .. size : grown[i] = b.store[i]
    <3> HIDE DEF more
    <3>1. DOMAIN b.store = 1 .. size /\ \A i \in 1 .. size : b.store[i] \in B
      BY <1>1, LenProperties, ElementOfSeq
    <3> QED
      BY <1>1, <2>2, <3>1 DEF Resized
  <2> HIDE DEF more, grown
  <2>4. room.r = b.r /\ room.w = b.w /\ room.store = grown
    BY <2>1 DEF IsBuffer
  <2> HIDE DEF room
  <2>5. IsBuffer(room, B)
    <3>1. room \in [store : Seq(B), r : Nat, w : Nat]
      BY <2>1, <2>3 DEF IsBuffer
    <3> QED
      BY <1>1, <2>2, <2>3, <2>4, <3>1 DEF IsBuffer
  <2>6. WriteableBytes(room) >= len
    BY <1>1, <2>2, <2>3, <2>4 DEF WriteableBytes
  <2>7. Readable(room) = Readable(b)
    <3>1. ASSUME NEW i \in 1 .. n PROVE Readable(b)[i] = room.store[room.r + i]
      <4>1. b.r + i \in 1 .. size
        BY <1>1
      <4> QED
        BY <1>2, <2>3, <2>4, <4>1
    <3>2. room.w - room.r = n
      BY <2>4
    <3> HIDE DEF Readable, n
    <3> QED
      BY <1>2, <2>5, <3>1, <3>2, HoldsIs
  <2> QED
    BY <2>5, <2>6, <2>7 DEF room
<1> QED
  BY <1>3, <1>4

(* b with bytes copied behind what it holds.                               *)
Filled(b, bytes) == [b EXCEPT !.store = Copy(@, b.w, bytes), !.w = @ + Len(bytes)]

(* Where there is room, bytes copied behind what the buffer holds are what *)
(* it holds after that.                                                    *)
LEMMA FilledIs ==
  ASSUME NEW B, NEW b, IsBuffer(b, B), NEW bytes \in Seq(B), WriteableBytes(b) >= Len(bytes)
  PROVE  /\ IsBuffer(Filled(b, bytes), B)
         /\ Readable(Filled(b, bytes)) = Readable(b) \o bytes
         /\ WriteableBytes(Filled(b, bytes)) = WriteableBytes(b) - Len(bytes)
<1> DEFINE f == Filled(b, bytes)
           size == Len(b.store)
           n == b.w - b.r
           k == Len(bytes)
<1>1. /\ b.store \in Seq(B) /\ b.r \in Nat /\ b.w \in Nat /\ size \in Nat /\ k \in Nat
      /\ kPrependSize \in Nat \ {0}
      /\ kPrependSize <= b.r /\ b.r <= b.w /\ b.w + k <= size
  BY LenProperties, BufferAssumption DEF IsBuffer, WriteableBytes
<1>2. /\ Readable(b) \in Seq(B) /\ Len(Readable(b)) = n
      /\ \A i \in 1 .. n : Readable(b)[i] = b.store[b.r + i]
  BY ReadableIs
<1> DEFINE copy == Copy(b.store, b.w, bytes)
<1>3. /\ copy \in Seq(B) /\ Len(copy) = size
      /\ \A i \in 1 .. size :
             copy[i] = IF i - b.w \in 1 .. k THEN bytes[i - b.w] ELSE b.store[i]
  <2> DEFINE store == b.store
             at == b.w
  <2>1. store \in Seq(B) /\ at \in Nat
    BY <1>1
  <2> HIDE DEF store, at
  <2>2. /\ Copy(store, at, bytes) \in Seq(B)
        /\ Len(Copy(store, at, bytes)) = Len(store)
        /\ \A i \in 1 .. Len(store) : Copy(store, at, bytes)[i] =
               IF i - at \in 1 .. Len(bytes) THEN bytes[i - at] ELSE store[i]
    BY <2>1, CopyIs
  <2> QED
    BY <2>2, Zenon DEF store, at
<1> HIDE DEF copy
<1>4. f.r = b.r /\ f.w = b.w + k /\ f.store = copy
  BY DEF Filled, copy, IsBuffer
<1>5. IsBuffer(f, B)
  <2>1. f = [store |-> copy, r |-> b.r, w |-> b.w + k]
    <3>1. b = [store |-> b.store, r |-> b.r, w |-> b.w]
      BY DEF IsBuffer
    <3>2. f = [b EXCEPT !.store = copy, !.w = b.w + k]
      BY <3>1 DEF Filled, copy
    <3> QED
      BY <3>1, <3>2
  <2> HIDE DEF f
  <2>2. f \in [store : Seq(B), r : Nat, w : Nat]
    BY <1>1, <1>3, <2>1
  <2> QED
    BY <1>1, <1>3, <1>4, <2>2 DEF IsBuffer
<1> HIDE DEF f
<1>6. WriteableBytes(f) = WriteableBytes(b) - k
  BY <1>1, <1>3, <1>4 DEF WriteableBytes
<1>7. /\ Readable(b) \o bytes \in Seq(B)
      /\ Len(Readable(b) \o bytes) = n + k
      /\ \A i \in 1 .. n + k : (Readable(b) \o bytes)[i] =
             IF i <= n THEN Readable(b)[i] ELSE bytes[i - n]
  <2> DEFINE first == Readable(b)
  <2>1. first \in Seq(B) /\ Len(first) = n
    BY <1>2
  <2> HIDE DEF first
  <2>2. /\ first \o bytes \in Seq(B)
        /\ Len(first \o bytes) = Len(first) + Len(bytes)
        /\ \A i \in 1 .. Len(first) + Len(bytes) : (first \o bytes)[i] =
               IF i <= Len(first) THEN first[i] ELSE bytes[i - Len(first)]
    BY <2>1, ConcatProperties
  <2> QED
    BY <2>1, <2>2, Zenon DEF first
<1> DEFINE s == Readable(b) \o bytes
<1> HIDE DEF s
<1>8. ASSUME NEW i \in 1 .. n + k PROVE s[i] = f.store[f.r + i]
  <2>1. f.r + i \in 1 .. size /\ f.r + i = b.r + i
    BY <1>1, <1>4
  <2>2. CASE i <= n
    <3>1. i \in 1 .. n /\ ~ ((b.r + i) - b.w \in 1 .. k)
      BY <1>1, <2>2
    <3> QED
      BY <1>2, <1>3, <1>4, <1>7, <2>1, <3>1 DEF s
  <2>3. CASE i > n
    <3>1. (b.r + i) - b.w = i - n /\ i - n \in 1 .. k
      BY <1>1, <2>3
    <3>2. s[i] = bytes[i - n]
      BY <1>1, <1>7, <2>3 DEF s
    <3> QED
      BY <1>3, <1>4, <2>1, <3>1, <3>2
  <2> QED
    BY <1>1, <2>2, <2>3
<1>9. f.w - f.r = n + k
  BY <1>1, <1>4
<1>10. s \in Seq(B) /\ Len(s) = n + k
  BY <1>7 DEF s
<1>11. Readable(f) = s
  <2> HIDE DEF Readable, n, k
  <2> QED
    BY <1>5, <1>8, <1>9, <1>10, HoldsIs
<1> QED
  BY <1>5, <1>6, <1>11 DEF f, s

(* append: what the buffer held and then the bytes, whether there was room *)
(* or not.                                                                 *)
LEMMA AppendToIs ==
  ASSUME NEW B, Junk \in B, NEW b, IsBuffer(b, B), NEW bytes \in Seq(B)
  PROVE  /\ IsBuffer(AppendTo(b, bytes), B)
         /\ Readable(AppendTo(b, bytes)) = Readable(b) \o bytes
<1> DEFINE room == MakeSpace(b, Len(bytes))
<1>1. IsBuffer(room, B) /\ Readable(room) = Readable(b) /\ WriteableBytes(room) >= Len(bytes)
  BY MakeSpaceIs, LenProperties
<1>2. AppendTo(b, bytes) = Filled(room, bytes)
  BY DEF AppendTo, Filled
<1> HIDE DEF room
<1> QED
  BY <1>1, <1>2, FilledIs

(* readFd: one readv, in part into the buffer and in part into extrabuf,   *)
(* appends all that it read.                                               *)
LEMMA ReadIntoIs ==
  ASSUME NEW B, Junk \in B, NEW b, IsBuffer(b, B), NEW bytes \in Seq(B)
  PROVE  /\ IsBuffer(ReadInto(b, bytes), B)
         /\ Readable(ReadInto(b, bytes)) = Readable(b) \o bytes
<1> DEFINE n == Len(bytes)
           direct == Min({n, WriteableBytes(b)})
           first == SubSeq(bytes, 1, direct)
           rest == SubSeq(bytes, direct + 1, n)
<1>1. n \in Nat /\ WriteableBytes(b) \in Nat
  BY LenProperties DEF IsBuffer, WriteableBytes
<1>2. direct = IF n <= WriteableBytes(b) THEN n ELSE WriteableBytes(b)
  BY <1>1, MinOfTwo
<1> HIDE DEF direct
<1>3. direct \in 0 .. n /\ direct <= WriteableBytes(b)
  BY <1>1, <1>2
<1>4. first \in Seq(B) /\ rest \in Seq(B) /\ Len(first) = direct
  BY <1>1, <1>3, LenProperties, ElementOfSeq
<1>5. first \o rest = bytes
  <2>1. 1 \in 1 .. n + 1 /\ direct \in 1 - 1 .. n /\ n \in direct .. n
    BY <1>1, <1>3
  <2>2. first \o rest = SubSeq(bytes, 1, n)
    BY <2>1, ConcatAdjacentSubSeq
  <2> QED
    BY <2>2, SubSeqFull
<1> HIDE DEF first, rest
<1> DEFINE filled == Filled(b, first)
<1>6. IsBuffer(filled, B) /\ Readable(filled) = Readable(b) \o first
  BY <1>3, <1>4, FilledIs
<1>7. ReadInto(b, bytes) = IF n <= direct THEN filled ELSE AppendTo(filled, rest)
  BY <1>4 DEF ReadInto, Filled, direct, first, rest
<1>8. Readable(b) \in Seq(B)
  BY ReadableIs
<1> HIDE DEF filled
<1>9. CASE n <= direct
  <2>1. first = bytes
    BY <1>1, <1>3, <1>9, SubSeqFull DEF first
  <2> QED
    BY <1>6, <1>7, <1>9, <2>1
<1>10. CASE ~ (n <= direct)
  <2>1. /\ IsBuffer(AppendTo(filled, rest), B)
        /\ Readable(AppendTo(filled, rest)) = (Readable(b) \o first) \o rest
    BY <1>4, <1>6, AppendToIs
  <2>2. (Readable(b) \o first) \o rest = Readable(b) \o (first \o rest)
    <3> DEFINE held == Readable(b)
    <3>1. held \in Seq(B)
      BY <1>8
    <3> HIDE DEF held
    <3>2. (held \o first) \o rest = held \o (first \o rest)
      BY <1>4, <3>1
    <3> QED
      BY <3>2 DEF held
  <2> QED
    BY <1>5, <1>7, <1>10, <2>1, <2>2
<1> QED
  BY <1>9, <1>10

(* retrieve takes n bytes from the front of what the buffer holds and      *)
(* keeps the others, the reset of an empty buffer included.                *)
LEMMA ConsumedIs ==
  ASSUME NEW B, Junk \in B, NEW b, IsBuffer(b, B), NEW n \in 0 .. b.w - b.r
  PROVE  /\ IsBuffer(Consumed(b, n), B)
         /\ Readable(Consumed(b, n)) = SubSeq(Readable(b), n + 1, b.w - b.r)
<1> DEFINE size == Len(b.store)
           have == b.w - b.r
           t == SubSeq(Readable(b), n + 1, have)
<1>1. /\ b.store \in Seq(B) /\ b.r \in Nat /\ b.w \in Nat /\ size \in Nat
      /\ kPrependSize \in Nat \ {0} /\ have \in Nat /\ n \in Nat
      /\ kPrependSize <= b.r /\ b.r <= b.w /\ b.w <= size /\ n <= have
  BY LenProperties, BufferAssumption DEF IsBuffer
<1>2. /\ Readable(b) \in Seq(B) /\ Len(Readable(b)) = have
      /\ \A i \in 1 .. have : Readable(b)[i] = b.store[b.r + i]
  BY ReadableIs
<1> HIDE DEF Readable
<1>3. /\ t \in Seq(B) /\ Len(t) = have - n
      /\ \A i \in 1 .. have - n : t[i] = Readable(b)[n + i]
  <2>1. n + 1 \in Int /\ have \in Int /\ \A i \in n + 1 .. have : Readable(b)[i] \in B
    BY <1>1, <1>2, ElementOfSeq
  <2> QED
    BY <1>1, <1>2, <2>1
<1>4. Min({n, b.w - b.r}) = n
  BY <1>1, MinOfTwo
<1>5. CASE n = have
  <2>1. b.r + n = b.w
    BY <1>1, <1>5
  <2>2. Consumed(b, n) = NewBuffer
    BY <1>4, <2>1 DEF Consumed
  <2>3. t = <<>>
    BY <1>1, <1>3, <1>5, EmptySeq
  <2> QED
    BY <2>2, <2>3, NewIs
<1>6. CASE n # have
  <2> DEFINE r == b.r + n
             c == Copy(b.store, 0, JunkOf(r))
             d == [b EXCEPT !.r = r, !.store = c]
  <2>1. r # b.w /\ r \in Nat /\ r < b.w
    BY <1>1, <1>6
  <2>2. Consumed(b, n) = d
    BY <1>4, <2>1 DEF Consumed
  <2>3. /\ c \in Seq(B) /\ Len(c) = size
        /\ \A i \in 1 .. size : c[i] = IF i - 0 \in 1 .. r THEN JunkOf(r)[i - 0] ELSE b.store[i]
    <3>1. JunkOf(r) \in Seq(B) /\ Len(JunkOf(r)) = r
      BY <2>1, JunkIs
    <3> QED
      BY <1>1, <2>1, <3>1, CopyIs
  <2> HIDE DEF c
  <2>4. d.r = r /\ d.w = b.w /\ d.store = c
    BY DEF IsBuffer
  <2>5. IsBuffer(d, B)
    <3>1. d \in [store : Seq(B), r : Nat, w : Nat]
      BY <2>1, <2>3 DEF IsBuffer
    <3> HIDE DEF d
    <3>2. kPrependSize <= d.r /\ d.r <= d.w /\ d.w <= Len(d.store)
      BY <1>1, <2>1, <2>3, <2>4
    <3> QED
      BY <3>1, <3>2 DEF IsBuffer
  <2> HIDE DEF d
  <2>6. ASSUME NEW i \in 1 .. have - n PROVE t[i] = d.store[d.r + i]
    <3>1. n + i \in 1 .. have /\ b.r + (n + i) \in 1 .. size
      BY <1>1
    <3>2. d.r + i = b.r + (n + i) /\ (d.r + i) - 0 = d.r + i /\ ~ (d.r + i \in 1 .. r)
      BY <1>1, <2>1, <2>4
    <3>3. c[d.r + i] = b.store[d.r + i]
      BY <2>3, <3>1, <3>2
    <3> QED
      BY <1>2, <1>3, <2>4, <3>1, <3>2, <3>3
  <2>7. d.w - d.r = have - n
    BY <1>1, <2>4
  <2> HIDE DEF have, t
  <2>8. Readable(d) = t
    BY <1>3, <2>5, <2>6, <2>7, HoldsIs
  <2> QED
    BY <2>2, <2>5, <2>8 DEF t, have
<1> QED
  BY <1>5, <1>6

-----------------------------------------------------------------------------
(* What clients send is a sequence of bytes.                               *)

(* f lists the first parts of the whole that FlattenSeq makes of n pieces. *)
Flattens(f, ss, n, B) ==
    /\ n \in Nat \ {0} /\ ss \in [1 .. n -> Seq(B)]
    /\ f \in [1 .. n -> Seq(B)]
    /\ f[1] = ss[1]
    /\ \A i \in 2 .. n : f[i] = f[i - 1] \o ss[i]
    /\ FlattenSeq(ss) = f[n]

(* There is such a list, for any number of pieces.                         *)
LEMMA FlattenIs ==
  ASSUME NEW B, NEW n \in Nat, n # 0, NEW ss, ss \in [1 .. n -> Seq(B)]
  PROVE  \E f : Flattens(f, ss, n, B)
<1> DEFINE Is(f, m) == f = [i \in 1 .. m |-> IF i = 1 THEN ss[i] ELSE f[i - 1] \o ss[i]]
           P == {m \in Nat : \E f : Is(f, m)}
<1>1. 0 \in P
  <2> DEFINE g == [i \in 1 .. 0 |-> ss[i]]
  <2>1. Is(g, 0)
    OBVIOUS
  <2> QED
    BY <2>1
<1>2. ASSUME NEW m \in Nat, m \in P PROVE m + 1 \in P
  <2>1. PICK e : Is(e, m)
    BY <1>2
  <2> DEFINE g == [i \in 1 .. m + 1 |-> IF i \in 1 .. m THEN e[i]
                                        ELSE IF i = 1 THEN ss[i] ELSE e[i - 1] \o ss[i]]
  <2>2. ASSUME NEW i \in 1 .. m + 1
        PROVE g[i] = IF i = 1 THEN ss[i] ELSE g[i - 1] \o ss[i]
    <3>1. CASE i = 1
      <4>1. g[i] = ss[i]
        BY <2>1, <3>1
      <4> QED
        BY <3>1, <4>1
    <3>2. CASE i # 1
      <4>1. i - 1 \in 1 .. m /\ i - 1 \in 1 .. m + 1
        BY <3>2
      <4>2. g[i - 1] = e[i - 1]
        BY <4>1
      <4>3. g[i] = e[i - 1] \o ss[i]
        BY <2>1, <3>2
      <4> QED
        BY <3>2, <4>2, <4>3
    <3> QED
      BY <3>1, <3>2
  <2>3. Is(g, m + 1)
    <3> HIDE DEF g
    <3>1. g = [i \in 1 .. m + 1 |-> g[i]]
      BY DEF g
    <3> QED
      BY <2>2, <3>1, Zenon
  <2> HIDE DEF g, Is
  <2>4. \E f : Is(f, m + 1)
    BY <2>3
  <2> QED
    BY <2>4
<1>3. \E f : Is(f, n)
  <2> HIDE DEF Is
  <2> QED
    BY <1>1, <1>2, Inductive
<1> DEFINE flat == CHOOSE f : Is(f, n)
<1>4. Is(flat, n)
  BY <1>3, Zenon
<1>5. Len(ss) = n
  OBVIOUS
<1>6. FlattenSeq(ss) = flat[n]
  BY <1>5 DEF FlattenSeq
<1> HIDE DEF flat
<1>7. /\ flat[1] = ss[1]
      /\ \A i \in 2 .. n : flat[i] = flat[i - 1] \o ss[i]
      /\ DOMAIN flat = 1 .. n /\ flat = [i \in 1 .. n |-> flat[i]]
  <2>1. DOMAIN flat = 1 .. n
    BY <1>4
  <2>2. flat = [i \in 1 .. n |-> flat[i]]
    BY <1>4
  <2>3. ASSUME NEW i \in 1 .. n
        PROVE  flat[i] = IF i = 1 THEN ss[i] ELSE flat[i - 1] \o ss[i]
    BY <1>4
  <2>4. flat[1] = ss[1]
    BY <2>3
  <2>5. ASSUME NEW i \in 2 .. n PROVE flat[i] = flat[i - 1] \o ss[i]
    <3>1. i \in 1 .. n /\ i # 1
      OBVIOUS
    <3> QED
      BY <2>3, <3>1
  <2> QED
    BY <2>1, <2>2, <2>4, <2>5
<1> DEFINE Q == {k \in Nat : k + 1 <= n => flat[k + 1] \in Seq(B)}
<1> HIDE DEF Is
<1>8. 0 \in Q
  BY <1>7
<1>9. ASSUME NEW k \in Nat, k \in Q PROVE k + 1 \in Q
  <2> SUFFICES ASSUME (k + 1) + 1 <= n PROVE flat[(k + 1) + 1] \in Seq(B)
    OBVIOUS
  <2>1. (k + 1) + 1 \in 2 .. n /\ ((k + 1) + 1) - 1 = k + 1
    OBVIOUS
  <2>2. flat[k + 1] \in Seq(B) /\ ss[(k + 1) + 1] \in Seq(B)
    BY <1>9, <2>1
  <2>3. flat[(k + 1) + 1] = flat[k + 1] \o ss[(k + 1) + 1]
    BY <1>7, <2>1
  <2> QED
    BY <2>2, <2>3
<1>10. Nat \subseteq Q
  BY <1>8, <1>9, Inductive
<1>11. ASSUME NEW i \in 1 .. n PROVE flat[i] \in Seq(B)
  <2>1. i - 1 \in Nat /\ (i - 1) + 1 = i
    OBVIOUS
  <2>2. i - 1 \in Q
    BY <1>10, <2>1
  <2> QED
    BY <2>1, <2>2
<1>12. flat \in [1 .. n -> Seq(B)]
  BY <1>7, <1>11
<1>13. Flattens(flat, ss, n, B)
  BY <1>6, <1>7, <1>12 DEF Flattens
<1> QED
  BY <1>13

(* So the whole is a sequence of bytes.                                    *)
LEMMA FlatIs ==
  ASSUME NEW B, NEW n \in Nat, NEW ss \in [1 .. n -> Seq(B)]
  PROVE  FlattenSeq(ss) \in Seq(B)
<1>1. CASE n = 0
  <2>1. ss \in Seq(B) /\ Len(ss) = 0
    BY <1>1
  <2> QED
    BY <2>1 DEF FlattenSeq
<1>2. CASE n # 0
  <2>1. PICK f : Flattens(f, ss, n, B)
    BY <1>2, FlattenIs
  <2> QED
    BY <1>2, <2>1 DEF Flattens
<1> QED
  BY <1>1, <1>2

(* The bytes that the scripts are made of.                                 *)
Messages == UNION {ToSet(s) : s \in Scripts}

(* The bytes that the scripts are made of.                                 *)
Byte == {Junk, "r", "n"} \union LineTexts \union HeaderTexts
          \union UNION {ToSet(m.body) : m \in Messages}

(* A line is three bytes: its text and a CRLF.                             *)
LEMMA LineIs ==
  ASSUME NEW B, {"r", "n"} \subseteq B, NEW text \in B
  PROVE  LineBytes(text) \in Seq(B) /\ Len(LineBytes(text)) = 3
BY DEF LineBytes, CRLF

(* The bytes of a message,                                                 *)
LEMMA MessageIs ==
  ASSUME NEW m \in Messages
  PROVE  MessageBytes(m) \in Seq(Byte)
<1>1. m.line \in Byte /\ {"r", "n"} \subseteq Byte
  BY InputAssumption DEF Messages, IsMessage, Byte
<1>2. m.headers \in Seq(Byte) /\ m.body \in Seq(Byte)
  <2>1. m.headers \in Seq(HeaderTexts) /\ m.body \in Seq(ToSet(m.body))
    BY InputAssumption DEF Messages, IsMessage
  <2>2. HeaderTexts \subseteq Byte /\ ToSet(m.body) \subseteq Byte
    BY DEF Byte
  <2> QED
    BY <2>1, <2>2, SeqMonotonic
<1> DEFINE n == Len(m.headers)
           hs == [i \in DOMAIN m.headers |-> LineBytes(m.headers[i])]
<1>3. n \in Nat /\ DOMAIN m.headers = 1 .. n /\ \A i \in 1 .. n : m.headers[i] \in Byte
  BY <1>2, LenProperties, ElementOfSeq
<1>4. hs \in [1 .. n -> Seq(Byte)]
  BY <1>1, <1>3, LineIs
<1>5. FlattenSeq(hs) \in Seq(Byte)
  <2> HIDE DEF hs, n
  <2> QED
    BY <1>3, <1>4, FlatIs
<1>6. LineBytes(m.line) \in Seq(Byte) /\ CRLF \in Seq(Byte)
  BY <1>1, LineIs DEF CRLF
<1> QED
  BY <1>2, <1>5, <1>6 DEF MessageBytes

(* and of a script.                                                        *)
LEMMA BytesAre ==
  ASSUME NEW s \in Scripts
  PROVE  Bytes(s) \in Seq(Byte)
<1> DEFINE n == Len(s)
           ms == [i \in DOMAIN s |-> MessageBytes(s[i])]
<1>1. n \in Nat /\ DOMAIN s = 1 .. n /\ \A i \in 1 .. n : s[i] \in Messages
  <2>1. s \in Seq(ToSet(s)) /\ ToSet(s) \subseteq Messages
    BY InputAssumption DEF Messages
  <2> QED
    BY <2>1, LenProperties, ElementOfSeq
<1>2. ms \in [1 .. n -> Seq(Byte)]
  BY <1>1, MessageIs
<1>3. FlattenSeq(ms) \in Seq(Byte)
  <2> HIDE DEF ms, n
  <2> QED
    BY <1>1, <1>2, FlatIs
<1> QED
  BY <1>3 DEF Bytes

-----------------------------------------------------------------------------
(* What TextOf can make of a line,                                         *)
Text == Byte \union {"garbage"}

(* the outcomes,                                                           *)
Seen == [code : Nat, line : Text \union {""}, headers : Seq(Text), body : Seq(Byte)]

(* and the parser's contexts.                                              *)
Context == [state : {"line", "headers", "body"}, line : Text \union {""},
            headers : Seq(Text), headerBytes : 0 .. MaxHeaderBytes, length : Nat,
            lengthSeen : BOOLEAN, hostSeen : BOOLEAN, expect : BOOLEAN,
            continueSent : BOOLEAN]

(* The types, and what CallBack has tested while the parser runs.          *)
StateInv ==
    /\ script \in Scripts
    /\ pc \in {"wait", "read", "process", "parse"}
    /\ inflight \in 0 .. MaxInflight
    /\ pc = "parse" => inflight < MaxInflight
    /\ ctx \in Context
    /\ outcomes \in Seq(Seen)

(* The three positions in the stream are in their order, the buffer is     *)
(* one, and it holds what lies between the last two.                       *)
InputInv ==
    /\ sent \in 0 .. Len(Stream) /\ received \in 0 .. sent /\ consumed \in 0 .. received
    /\ IsBuffer(input, Byte)
    /\ BufferHolds

(* 100 Continue has gone out for messages up to the one being parsed, in   *)
(* their order, and for that one only if continueSent says so.             *)
ContinueInv ==
    /\ continued \in Seq(Nat)
    /\ \A j \in 1 .. Len(continued) :
          /\ continued[j] <= Len(outcomes) + 1
          /\ continued[j] = Len(outcomes) + 1 => ctx.continueSent
    /\ \A j, k \in 1 .. Len(continued) : j < k => continued[j] < continued[k]

(* The inductive invariant. Where the parser stands in a message is left   *)
(* open: an error makes it read the rest of the stream as anything.        *)
(* HttpRequestsProofs says it up to the first error.                       *)
IInv == StateInv /\ InputInv /\ ContinueInv

-----------------------------------------------------------------------------
(* The stream is a sequence of bytes.                                      *)
LEMMA StreamIs ==
  ASSUME script \in Scripts
  PROVE  Stream \in Seq(Byte) /\ Len(Stream) \in Nat
<1>1. Stream = Bytes(script)
  BY DEF Stream, StreamOf
<1> QED
  BY <1>1, BytesAre, LenProperties

(* A part of a sequence, place by place.                                   *)
LEMMA PartIs ==
  ASSUME NEW B, NEW s \in Seq(B), NEW a \in Nat, NEW c \in Nat, a <= c, c <= Len(s)
  PROVE  /\ SubSeq(s, a + 1, c) \in Seq(B)
         /\ Len(SubSeq(s, a + 1, c)) = c - a
         /\ \A i \in 1 .. c - a : SubSeq(s, a + 1, c)[i] = s[a + i]
<1>1. a + 1 \in Int /\ c \in Int /\ \A i \in a + 1 .. c : s[i] \in B
  BY LenProperties, ElementOfSeq
<1>2. /\ SubSeq(s, a + 1, c) \in Seq(B)
      /\ Len(SubSeq(s, a + 1, c)) = IF a + 1 <= c THEN c - (a + 1) + 1 ELSE 0
      /\ \A i \in 1 .. c - (a + 1) + 1 : SubSeq(s, a + 1, c)[i] = s[(a + 1) + i - 1]
  BY <1>1, SubSeqProperties
<1>3. Len(SubSeq(s, a + 1, c)) = c - a
  BY <1>2
<1>4. ASSUME NEW i \in 1 .. c - a PROVE SubSeq(s, a + 1, c)[i] = s[a + i]
  <2>1. i \in 1 .. c - (a + 1) + 1 /\ (a + 1) + i - 1 = a + i
    OBVIOUS
  <2> QED
    BY <1>2, <2>1
<1> QED
  BY <1>2, <1>3, <1>4

(* The part of a part: what remains when n more bytes are consumed.        *)
LEMMA PartOfPart ==
  ASSUME NEW B, NEW s \in Seq(B), NEW a \in Nat, NEW c \in Nat, a <= c, c <= Len(s),
         NEW n \in 0 .. c - a
  PROVE  SubSeq(SubSeq(s, a + 1, c), n + 1, c - a) = SubSeq(s, (a + n) + 1, c)
<1> DEFINE p == SubSeq(s, a + 1, c)
           l == SubSeq(p, n + 1, c - a)
           r == SubSeq(s, (a + n) + 1, c)
<1>1. p \in Seq(B) /\ Len(p) = c - a /\ \A i \in 1 .. c - a : p[i] = s[a + i]
  BY PartIs
<1> HIDE DEF p
<1>2. n \in Nat /\ c - a \in Nat /\ n <= c - a
  OBVIOUS
<1>3. /\ l \in Seq(B) /\ Len(l) = (c - a) - n
      /\ \A i \in 1 .. (c - a) - n : l[i] = p[n + i]
  BY <1>1, <1>2, PartIs
<1>4. /\ r \in Seq(B) /\ Len(r) = c - (a + n)
      /\ \A i \in 1 .. c - (a + n) : r[i] = s[(a + n) + i]
  <2>1. a + n \in Nat /\ a + n <= c
    BY <1>2
  <2> QED
    BY <2>1, PartIs
<1> HIDE DEF l, r
<1>5. ASSUME NEW i \in 1 .. Len(l) PROVE l[i] = r[i]
  <2>1. i \in 1 .. (c - a) - n /\ n + i \in 1 .. c - a /\ i \in 1 .. c - (a + n)
    BY <1>2, <1>3
  <2>2. a + (n + i) = (a + n) + i
    BY <1>2
  <2> QED
    BY <1>1, <1>3, <1>4, <2>1, <2>2
<1>6. Len(l) = Len(r)
  BY <1>2, <1>3, <1>4
<1>7. l = r
  BY <1>3, <1>4, <1>5, <1>6, SeqEqual
<1> QED
  BY <1>7 DEF l, r, p

(* What the buffer holds is as long as what has not been consumed.         *)
LEMMA HeldIs ==
  ASSUME StateInv, InputInv
  PROVE  /\ Readable(input) \in Seq(Byte)
         /\ Len(Readable(input)) = ReadableBytes
         /\ ReadableBytes = received - consumed /\ ReadableBytes \in Nat
         /\ input.w \in Nat /\ input.r \in Nat
<1>1. Stream \in Seq(Byte) /\ Len(Stream) \in Nat
  BY StreamIs DEF StateInv
<1>2. Readable(input) \in Seq(Byte) /\ Len(Readable(input)) = input.w - input.r
  BY ReadableIs DEF InputInv
<1>3. Len(SubSeq(Stream, consumed + 1, received)) = received - consumed
  BY <1>1, PartIs DEF InputInv
<1>4. Len(Readable(input)) = received - consumed
  BY <1>3 DEF InputInv, BufferHolds
<1> QED
  BY <1>2, <1>4 DEF InputInv, IsBuffer, ReadableBytes

(* The first CRLF lies within the readable bytes.                          *)
LEMMA LineFound ==
  ASSUME StateInv, InputInv, HasLine
  PROVE  /\ FindCrlf \in Nat \ {0}
         /\ Line \in Seq(Byte) /\ Len(Line) = FindCrlf - 1
         /\ WholeLine = FindCrlf + 1
         /\ WholeLine \in 1 .. ReadableBytes
<1> DEFINE bytes == Readable(input)
           n == Len(bytes)
           ends == {i \in 1 .. n - 1 : SubSeq(bytes, i, i + 1) = CRLF}
           S == ends \union {n + 1}
<1>1. n \in Nat /\ n = ReadableBytes /\ bytes \in Seq(Byte)
  BY HeldIs
<1>2. S \in SUBSET Nat /\ S # {}
  BY <1>1
<1>3. FindCrlf = Min(S)
  BY DEF FindCrlf
<1>4. Min(S) \in S
  <2> HIDE DEF S
  <2> QED
    BY <1>2, MinIs
<1>5. FindCrlf \in 1 .. n - 1
  BY <1>1, <1>3, <1>4 DEF HasLine
<1> HIDE DEF S, ends, n
<1>6. Line = SubSeq(bytes, 1, FindCrlf - 1)
  BY DEF Line
<1>7. Line \in Seq(Byte) /\ Len(Line) = FindCrlf - 1
  <2> DEFINE m == FindCrlf - 1
  <2>1. 0 \in Nat /\ m \in Nat /\ 0 <= m /\ m <= Len(bytes)
    BY <1>1, <1>5 DEF n
  <2> HIDE DEF m, bytes
  <2>2. SubSeq(bytes, 0 + 1, m) \in Seq(Byte) /\ Len(SubSeq(bytes, 0 + 1, m)) = m - 0
    BY <1>1, <2>1, PartIs
  <2>3. 0 + 1 = 1 /\ m - 0 = m
    BY <2>1
  <2> QED
    BY <1>6, <2>2, <2>3 DEF m
<1>8. Len(CRLF) = 2
  BY DEF CRLF
<1>9. WholeLine = FindCrlf + 1
  BY <1>5, <1>7, <1>8, <1>1 DEF WholeLine
<1> QED
  BY <1>1, <1>5, <1>7, <1>9

-----------------------------------------------------------------------------
(* The invariant holds at first.                                           *)
LEMMA InitHolds ==
  ASSUME Init
  PROVE  IInv
<1>1. Junk \in Byte
  BY DEF Byte
<1>2. IsBuffer(NewBuffer, Byte) /\ Readable(NewBuffer) = <<>>
  BY <1>1, NewIs
<1>3. Stream \in Seq(Byte) /\ Len(Stream) \in Nat
  BY StreamIs DEF Init
<1>4. NewContext \in Context
  <2>1. "" \in Text \union {""} /\ <<>> \in Seq(Text) /\ 0 \in 0 .. MaxHeaderBytes
    BY InputAssumption
  <2> HIDE DEF Text
  <2> QED
    BY <2>1 DEF NewContext, Context
<1>5. StateInv
  <2>1. outcomes \in Seq(Seen)
    BY DEF Init
  <2> QED
    BY <1>4, <2>1, InputAssumption DEF Init, StateInv
<1>6. InputInv
  <2>1. SubSeq(Stream, 1, 0) = <<>>
    BY SubSeqEmpty
  <2> QED
    BY <1>2, <1>3, <2>1 DEF Init, InputInv, BufferHolds
<1>7. ContinueInv
  BY DEF Init, ContinueInv
<1> QED
  BY <1>5, <1>6, <1>7 DEF IInv

(* The parser takes from the buffer what it adds to consumed.              *)
LEMMA TakesKeeps ==
  ASSUME StateInv, InputInv, NEW n \in 0 .. ReadableBytes, Takes(n),
         UNCHANGED <<script, sent, received>>
  PROVE  InputInv'
<1>1. Stream \in Seq(Byte) /\ Len(Stream) \in Nat
  BY StreamIs DEF StateInv
<1>2. Stream' = Stream
  BY DEF Stream
<1>3. /\ ReadableBytes = received - consumed /\ ReadableBytes = input.w - input.r
      /\ sent \in Nat /\ received \in Nat /\ consumed \in Nat
      /\ consumed <= received /\ received <= sent /\ sent <= Len(Stream)
  BY <1>1, HeldIs DEF InputInv, ReadableBytes
<1>4. input' = Consumed(input, n) /\ consumed' = consumed + n
  BY DEF Takes
<1>5. /\ IsBuffer(input', Byte)
      /\ Readable(input') = SubSeq(Readable(input), n + 1, input.w - input.r)
  <2>1. Junk \in Byte /\ IsBuffer(input, Byte) /\ n \in 0 .. input.w - input.r
    BY <1>3 DEF Byte, InputInv
  <2> QED
    BY <1>4, <2>1, ConsumedIs
<1>6. Readable(input') = SubSeq(Stream, (consumed + n) + 1, received)
  <2>1. Readable(input) = SubSeq(Stream, consumed + 1, received)
    BY DEF InputInv, BufferHolds
  <2>2. received <= Len(Stream) /\ n \in 0 .. received - consumed
    BY <1>3
  <2>3. SubSeq(SubSeq(Stream, consumed + 1, received), n + 1, received - consumed)
          = SubSeq(Stream, (consumed + n) + 1, received)
    BY <1>1, <1>3, <2>2, PartOfPart
  <2> QED
    BY <1>3, <1>5, <2>1, <2>3
<1>7. consumed' \in 0 .. received'
  BY <1>3, <1>4
<1>8. sent' \in 0 .. Len(Stream') /\ received' \in 0 .. sent'
  BY <1>2 DEF InputInv
<1>9. BufferHolds'
  BY <1>2, <1>4, <1>6 DEF BufferHolds
<1> QED
  BY <1>5, <1>7, <1>8, <1>9 DEF InputInv

(* The first bytes that are read follow those the buffer holds.            *)
LEMMA ReadvKeeps ==
  ASSUME IInv, Readv
  PROVE  IInv'
<1> DEFINE n == ReadSize(input, sent - received)
           new == SubSeq(Stream, received + 1, received + n)
<1>1. Stream \in Seq(Byte) /\ Len(Stream) \in Nat
  BY StreamIs DEF IInv, StateInv
<1>2. Stream' = Stream
  BY DEF Readv, Stream
<1>3. /\ sent \in Nat /\ received \in Nat /\ consumed \in Nat /\ sent > received
      /\ consumed <= received /\ received <= sent /\ sent <= Len(Stream)
      /\ IsBuffer(input, Byte)
  BY <1>1 DEF IInv, InputInv, Readv
<1>4. n \in Nat /\ n <= sent - received
  <2>1. sent - received \in Nat
    BY <1>3
  <2>2. WriteableBytes(input) + ExtraSize \in Nat
    BY <1>3, BufferAssumption, LenProperties DEF WriteableBytes, IsBuffer
  <2> HIDE DEF WriteableBytes
  <2>3. ReadSize(input, sent - received) =
           IF sent - received <= WriteableBytes(input) + ExtraSize THEN sent - received
           ELSE WriteableBytes(input) + ExtraSize
    BY <2>1, <2>2, MinOfTwo DEF ReadSize
  <2> QED
    BY <2>1, <2>2, <2>3
<1>5. input' = ReadInto(input, new) /\ received' = received + n
  BY DEF Readv
<1> HIDE DEF n
<1>6. received + n \in Nat /\ received <= received + n /\ received + n <= Len(Stream)
  BY <1>1, <1>3, <1>4
<1>7. new \in Seq(Byte)
  BY <1>1, <1>3, <1>6, PartIs
<1> HIDE DEF new
<1>8. IsBuffer(input', Byte) /\ Readable(input') = Readable(input) \o new
  <2>1. Junk \in Byte
    BY DEF Byte
  <2> QED
    BY <1>3, <1>5, <1>7, <2>1, ReadIntoIs
<1>9. Readable(input) \o new = SubSeq(Stream, consumed + 1, received + n)
  <2>1. Readable(input) = SubSeq(Stream, consumed + 1, received)
    BY DEF IInv, InputInv, BufferHolds
  <2>2. /\ consumed + 1 \in 1 .. Len(Stream) + 1
        /\ received \in (consumed + 1) - 1 .. Len(Stream)
        /\ received + n \in received .. Len(Stream)
    BY <1>1, <1>3, <1>6
  <2>3. SubSeq(Stream, consumed + 1, received) \o SubSeq(Stream, received + 1, received + n)
          = SubSeq(Stream, consumed + 1, received + n)
    BY <1>1, <2>2, ConcatAdjacentSubSeq
  <2> QED
    BY <2>1, <2>3 DEF new
<1>10. UNCHANGED <<script, sent, consumed, ctx, pc, oldLen, inflight, closed,
                   outcomes, continued>>
  BY DEF Readv, callVars, outVars
<1>11. InputInv'
  <2>1. BufferHolds'
    BY <1>2, <1>5, <1>8, <1>9, <1>10 DEF BufferHolds
  <2>2. consumed' \in 0 .. received' /\ received' \in 0 .. sent' /\ sent' \in 0 .. Len(Stream')
    BY <1>2, <1>3, <1>4, <1>5, <1>6, <1>10
  <2> QED
    BY <1>8, <2>1, <2>2 DEF InputInv
<1>12. StateInv'
  BY <1>10 DEF IInv, StateInv
<1>13. ContinueInv'
  BY <1>10 DEF IInv, ContinueInv
<1> QED
  BY <1>11, <1>12, <1>13 DEF IInv

(* The steps that leave the buffer and the parser alone.                   *)
LEMMA InputStays ==
  ASSUME InputInv, UNCHANGED <<script, received, consumed, input>>,
         sent' \in 0 .. Len(Stream), received <= sent'
  PROVE  InputInv'
<1>1. Stream' = Stream
  BY DEF Stream
<1>2. BufferHolds'
  BY <1>1 DEF InputInv, BufferHolds
<1>3. received' \in 0 .. sent'
  BY DEF InputInv
<1> QED
  BY <1>1, <1>2, <1>3 DEF InputInv

(* The steps of the client, of the loop and of the answers keep the        *)
(* invariant.                                                              *)
LEMMA SocketKeeps ==
  ASSUME IInv, ClientSends \/ HandleRead \/ ReadDone \/ CallBack \/ Answered
  PROVE  IInv'
<1>1. Stream \in Seq(Byte) /\ Len(Stream) \in Nat
  BY StreamIs DEF IInv, StateInv
<1>2. sent \in Nat /\ received \in Nat /\ received <= sent /\ sent <= Len(Stream)
  BY <1>1 DEF IInv, InputInv
<1>3. inflight \in Nat /\ MaxInflight \in Nat /\ inflight <= MaxInflight
  BY InputAssumption DEF IInv, StateInv
<1>4. UNCHANGED <<script, received, consumed, input, ctx, outcomes, continued>>
  BY DEF ClientSends, HandleRead, ReadDone, CallBack, Answered, outVars, callVars
<1>5. sent' \in 0 .. Len(Stream) /\ received <= sent'
  <2>1. CASE ClientSends
    <3>1. PICK n \in 1 .. Len(Stream) - sent : sent' = sent + n
      BY <2>1 DEF ClientSends
    <3> QED
      BY <1>1, <1>2, <3>1
  <2>2. CASE HandleRead \/ ReadDone \/ CallBack \/ Answered
    <3>1. sent' = sent
      BY <2>2 DEF HandleRead, ReadDone, CallBack, Answered
    <3> QED
      BY <1>1, <1>2, <3>1
  <2> QED
    BY <2>1, <2>2
<1>6. InputInv'
  BY <1>4, <1>5, InputStays DEF IInv
<1>7. StateInv'
  <2>1. pc' \in {"wait", "read", "process", "parse"}
    BY DEF IInv, StateInv, ClientSends, HandleRead, ReadDone, CallBack, Answered, callVars
  <2>2. inflight' \in 0 .. MaxInflight
    BY <1>3 DEF ClientSends, HandleRead, ReadDone, CallBack, Answered, outVars
  <2>3. pc' = "parse" => inflight' < MaxInflight
    BY <1>3 DEF IInv, StateInv, ClientSends, HandleRead, ReadDone, CallBack, Answered,
                callVars, outVars
  <2> QED
    BY <1>4, <2>1, <2>2, <2>3 DEF IInv, StateInv
<1>8. ContinueInv'
  BY <1>4 DEF IInv, ContinueInv
<1> QED
  BY <1>6, <1>7, <1>8 DEF IInv

-----------------------------------------------------------------------------
(* The common part of the parser's steps.                                  *)
Parsing == pc = "parse" /\ UNCHANGED <<script, sent, received, oldLen>>

(* The callback that finds no whole request keeps it, and 100 Continue     *)
(* goes out in the order of the messages.                                  *)
LEMMA IncompleteKeeps ==
  ASSUME IInv, Parsing, Incomplete
  PROVE  IInv'
<1>1. UNCHANGED <<script, sent, received, consumed, input, inflight, closed, outcomes>>
  BY DEF Parsing, Incomplete
<1>2. InputInv'
  <2>1. Stream \in Seq(Byte) /\ Len(Stream) \in Nat
    BY StreamIs DEF IInv, StateInv
  <2>2. sent' \in 0 .. Len(Stream) /\ received <= sent'
    BY <1>1, <2>1 DEF IInv, InputInv
  <2> QED
    BY <1>1, <2>2, InputStays DEF IInv
<1>3. ctx' \in Context
  <2>1. ctx \in Context
    BY DEF IInv, StateInv
  <2>2. [ctx EXCEPT !.continueSent = TRUE] \in Context
    BY <2>1 DEF Context
  <2> QED
    BY <2>1, <2>2 DEF Incomplete
<1>4. pc' \in {"wait", "process"}
  BY DEF Incomplete, Returns
<1>5. StateInv'
  BY <1>1, <1>3, <1>4 DEF IInv, StateInv
<1>6. ContinueInv'
  <2>1. CASE ShouldSendContinue
    <3> DEFINE n == Len(continued)
    <3>1. n \in Nat /\ continued \in Seq(Nat) /\ outcomes \in Seq(Seen)
      BY DEF IInv, ContinueInv, StateInv
    <3>2. Len(outcomes) \in Nat
      BY <3>1
    <3>3. continued' = Append(continued, Len(outcomes) + 1) /\ ctx'.continueSent
      BY <2>1 DEF Incomplete, IInv, StateInv, Context
    <3>4. ASSUME NEW j \in 1 .. n
          PROVE  continued[j] <= Len(outcomes) /\ continued[j] \in Nat
      <4>1. continued[j] \in Nat /\ continued[j] <= Len(outcomes) + 1
            /\ continued[j] # Len(outcomes) + 1
        BY <2>1, <3>1 DEF IInv, ContinueInv, ShouldSendContinue
      <4> QED
        BY <3>2, <4>1
    <3>5. /\ continued' \in Seq(Nat) /\ Len(continued') = n + 1
          /\ \A j \in 1 .. n : continued'[j] = continued[j]
          /\ continued'[n + 1] = Len(outcomes) + 1
      BY <3>1, <3>2, <3>3, AppendProperties
    <3>6. ASSUME NEW j \in 1 .. n + 1
          PROVE  continued'[j] <= Len(outcomes) + 1
      <4>1. CASE j \in 1 .. n
        BY <3>2, <3>4, <3>5, <4>1
      <4>2. CASE j = n + 1
        BY <3>2, <3>5, <4>2
      <4> QED
        BY <3>1, <4>1, <4>2
    <3>7. ASSUME NEW j \in 1 .. n + 1, NEW k \in 1 .. n + 1, j < k
          PROVE  continued'[j] < continued'[k]
      <4>1. j \in 1 .. n
        BY <3>1, <3>7
      <4>2. CASE k \in 1 .. n
        BY <3>5, <3>7, <4>1, <4>2 DEF IInv, ContinueInv
      <4>3. CASE k = n + 1
        BY <3>2, <3>4, <3>5, <4>1, <4>3
      <4> QED
        BY <3>1, <4>2, <4>3
    <3> HIDE DEF n
    <3> QED
      BY <1>1, <3>3, <3>5, <3>6, <3>7 DEF ContinueInv
  <2>2. CASE ~ ShouldSendContinue
    <3>1. UNCHANGED <<continued, ctx>>
      BY <2>2 DEF Incomplete
    <3> QED
      BY <1>1, <3>1 DEF IInv, ContinueInv
  <2> QED
    BY <2>1, <2>2
<1> QED
  BY <1>2, <1>5, <1>6 DEF IInv

(* One outcome more: what 100 Continue was sent for lies behind it.        *)
LEMMA OutcomeKeeps ==
  ASSUME IInv, Parsing, NEW o \in Seen, outcomes' = Append(outcomes, o),
         ctx' = Reset, UNCHANGED continued, Returns,
         inflight' \in {inflight, inflight + 1},
         NEW n \in 0 .. ReadableBytes, Takes(n)
  PROVE  IInv'
<1>1. outcomes \in Seq(Seen) /\ outcomes' \in Seq(Seen) /\ Len(outcomes') = Len(outcomes) + 1
  BY AppendProperties DEF IInv, StateInv
<1>2. InputInv'
  BY TakesKeeps DEF IInv, Parsing
<1>3. ctx' \in Context
  <2>1. "" \in Text \union {""} /\ <<>> \in Seq(Text) /\ 0 \in 0 .. MaxHeaderBytes
    BY InputAssumption
  <2> HIDE DEF Text
  <2> QED
    BY <2>1 DEF NewContext, Context, Reset
<1>4. pc' \in {"wait", "process"}
  BY DEF Returns
<1>5. inflight' \in 0 .. MaxInflight
  BY InputAssumption DEF IInv, StateInv, Parsing
<1>6. StateInv'
  BY <1>1, <1>3, <1>4, <1>5 DEF IInv, StateInv, Parsing
<1>7. ContinueInv'
  <2>1. Len(outcomes) \in Nat
    BY <1>1
  <2>2. ASSUME NEW j \in 1 .. Len(continued)
        PROVE  continued[j] <= Len(outcomes) + 1 /\ continued[j] \in Nat
    BY DEF IInv, ContinueInv
  <2>3. ASSUME NEW j \in 1 .. Len(continued)
        PROVE  continued[j] <= Len(outcomes') + 1 /\ continued[j] # Len(outcomes') + 1
    BY <1>1, <2>1, <2>2
  <2> QED
    BY <2>3 DEF IInv, ContinueInv
<1> QED
  BY <1>2, <1>6, <1>7 DEF IInv

(* An error keeps it,                                                      *)
LEMMA FailsKeeps ==
  ASSUME IInv, Parsing, NEW code \in Nat, NEW n \in 0 .. ReadableBytes, Fails(code, n)
  PROVE  IInv'
<1> DEFINE o == [code |-> code, line |-> "", headers |-> <<>>, body |-> <<>>]
<1>1. o \in Seen
  <2>1. "" \in Text \union {""} /\ <<>> \in Seq(Text) /\ <<>> \in Seq(Byte)
    OBVIOUS
  <2> HIDE DEF Text, Byte
  <2> QED
    BY <2>1 DEF Seen
<1>2. /\ outcomes' = Append(outcomes, o) /\ ctx' = Reset /\ UNCHANGED continued /\ Returns
      /\ inflight' = inflight /\ Takes(n)
  BY DEF Fails
<1> HIDE DEF o
<1> QED
  BY <1>1, <1>2, OutcomeKeeps

(* and so does a request,                                                  *)
LEMMA CompletesKeeps ==
  ASSUME IInv, Parsing, NEW body \in Seq(Byte), NEW n \in 0 .. ReadableBytes,
         Completes(body, n)
  PROVE  IInv'
<1> DEFINE o == [code |-> 200, line |-> ctx.line, headers |-> ctx.headers, body |-> body]
<1>1. o \in Seen
  <2>1. ctx.line \in Text \union {""} /\ ctx.headers \in Seq(Text)
    BY DEF IInv, StateInv, Context
  <2> QED
    BY <2>1 DEF Seen
<1>2. /\ outcomes' = Append(outcomes, o) /\ ctx' = Reset /\ UNCHANGED continued /\ Returns
      /\ inflight' \in {inflight, inflight + 1} /\ Takes(n)
  BY DEF Completes
<1> HIDE DEF o
<1> QED
  BY <1>1, <1>2, OutcomeKeeps

(* and a line or header that is taken.                                     *)
LEMMA GoesOnKeeps ==
  ASSUME IInv, Parsing, NEW context \in Context, context.continueSent = ctx.continueSent,
         NEW n \in 0 .. ReadableBytes, GoesOn(context, n)
  PROVE  IInv'
<1>1. /\ ctx' = context /\ Takes(n)
      /\ UNCHANGED <<script, sent, received, pc, inflight, closed, outcomes, continued>>
  BY DEF GoesOn, Parsing, outVars
<1>2. InputInv'
  BY <1>1, TakesKeeps DEF IInv
<1>3. StateInv'
  BY <1>1 DEF IInv, StateInv
<1>4. ContinueInv'
  BY <1>1 DEF IInv, ContinueInv
<1> QED
  BY <1>2, <1>3, <1>4 DEF IInv

(* Whatever the bytes of a line are, it has a text and a size.             *)
LEMMA TextIs ==
  ASSUME NEW line \in Seq(Byte)
  PROVE  TextOf(line) \in Text /\ SizeOf(line) \in Nat
<1>1. TextOf(line) \in Text
  BY ElementOfSeq DEF TextOf, Text
<1>2. Len(line) \in Nat
  OBVIOUS
<1> QED
  BY <1>1, <1>2, TextsAssumption DEF SizeOf

(* Every step of parseRequest keeps the invariant.                         *)
LEMMA ParserKeeps ==
  ASSUME IInv, ParseRequestLine \/ ParseHeader \/ EndOfHeaders \/ ParseBody
  PROVE  IInv'
<1>1. Parsing
  BY DEF ParseRequestLine, ParseHeader, EndOfHeaders, ParseBody, Parsing
<1>2. ctx \in Context
  BY DEF IInv, StateInv
<1>3. HasLine => /\ Line \in Seq(Byte) /\ WholeLine \in 0 .. ReadableBytes
                 /\ TextOf(Line) \in Text /\ SizeOf(Line) \in Nat
  <2> SUFFICES ASSUME HasLine
               PROVE  /\ Line \in Seq(Byte) /\ WholeLine \in 0 .. ReadableBytes
                      /\ TextOf(Line) \in Text /\ SizeOf(Line) \in Nat
    OBVIOUS
  <2>1. Line \in Seq(Byte) /\ WholeLine \in 1 .. ReadableBytes
    BY LineFound DEF IInv
  <2>2. ReadableBytes \in Nat
    BY HeldIs DEF IInv
  <2> QED
    BY <2>1, <2>2, TextIs
<1>4. 413 \in Nat /\ 400 \in Nat /\ 405 \in Nat /\ 505 \in Nat /\ 501 \in Nat /\ 417 \in Nat
  OBVIOUS
<1>5. CASE ParseRequestLine
  <2>1. CASE ~ HasLine
    BY <1>1, <1>5, <2>1, IncompleteKeeps DEF ParseRequestLine
  <2>2. CASE HasLine
    <3>1. CASE Fails(413, WholeLine)
      BY <1>1, <1>3, <2>2, <3>1, FailsKeeps
    <3>2. CASE Fails(LineError(TextOf(Line)), WholeLine)
      <4>1. LineError(TextOf(Line)) \in Nat
        BY DEF LineError
      <4> QED
        BY <1>1, <1>3, <2>2, <3>2, <4>1, FailsKeeps
    <3>3. CASE GoesOn([ctx EXCEPT !.line = TextOf(Line), !.state = "headers"], WholeLine)
      <4> DEFINE context == [ctx EXCEPT !.line = TextOf(Line), !.state = "headers"]
      <4>1. context \in Context /\ context.continueSent = ctx.continueSent
        <5>1. TextOf(Line) \in Text \union {""}
          BY <1>3, <2>2
        <5> HIDE DEF Text
        <5> QED
          BY <1>2, <5>1 DEF Context
      <4> HIDE DEF context
      <4>2. GoesOn(context, WholeLine)
        BY <3>3 DEF context
      <4> QED
        BY <1>1, <1>3, <2>2, <4>1, <4>2, GoesOnKeeps
    <3> QED
      BY <1>5, <2>2, <3>1, <3>2, <3>3 DEF ParseRequestLine
  <2> QED
    BY <2>1, <2>2
<1>6. CASE ParseHeader
  <2>1. CASE ~ HasLine
    BY <1>1, <1>6, <2>1, IncompleteKeeps DEF ParseHeader
  <2>2. CASE HasLine
    <3> DEFINE text == TextOf(Line)
               size == SizeOf(Line)
    <3>1. CASE Fails(413, WholeLine)
      BY <1>1, <1>3, <2>2, <3>1, FailsKeeps
    <3>2. CASE Fails(HeaderError(text), WholeLine)
      <4>1. HeaderError(text) \in Nat
        BY DEF HeaderError
      <4> QED
        BY <1>1, <1>3, <2>2, <3>2, <4>1, FailsKeeps
    <3>3. CASE /\ ~ (size > MaxHeaderLine \/ ctx.headerBytes + size > MaxHeaderBytes)
               /\ GoesOn(WithHeader(text, size), WholeLine)
      <4>1. text \in Text /\ size \in Nat
        BY <1>3, <2>2
      <4> HIDE DEF text, size
      <4>2. ctx.headerBytes + size \in 0 .. MaxHeaderBytes
        <5>1. ctx.headerBytes \in Nat
          <6>1. ctx.headerBytes \in 0 .. MaxHeaderBytes
            BY <1>2 DEF Context
          <6> QED
            BY <6>1
        <5>2. ctx.headerBytes + size <= MaxHeaderBytes /\ MaxHeaderBytes \in Nat
          BY <3>3, <4>1, <5>1, InputAssumption
        <5> QED
          BY <4>1, <5>1, <5>2
      <4>3. Append(ctx.headers, text) \in Seq(Text)
        BY <1>2, <4>1, AppendProperties DEF Context
      <4>4. (IF text \in Lengths THEN LengthOf[text] ELSE ctx.length) \in Nat
        BY <1>2, TextsAssumption DEF Context
      <4>5. WithHeader(text, size) \in Context
            /\ WithHeader(text, size).continueSent = ctx.continueSent
        BY <1>2, <4>2, <4>3, <4>4 DEF WithHeader, Context
      <4> QED
        BY <1>1, <1>3, <2>2, <3>3, <4>5, GoesOnKeeps
    <3> QED
      BY <1>6, <2>2, <3>1, <3>2, <3>3 DEF ParseHeader
  <2> QED
    BY <2>1, <2>2
<1>7. CASE EndOfHeaders
  <2>1. HasLine
    BY <1>7 DEF EndOfHeaders
  <2>2. CASE Fails(HeadersError, WholeLine)
    <3>1. HeadersError \in Nat
      BY DEF HeadersError
    <3> QED
      BY <1>1, <1>3, <2>1, <2>2, <3>1, FailsKeeps
  <2>3. CASE GoesOn([ctx EXCEPT !.state = "body"], WholeLine)
    <3>1. [ctx EXCEPT !.state = "body"] \in Context
          /\ [ctx EXCEPT !.state = "body"].continueSent = ctx.continueSent
      BY <1>2 DEF Context
    <3> QED
      BY <1>1, <1>3, <2>1, <2>3, <3>1, GoesOnKeeps
  <2>4. CASE Completes(<<>>, WholeLine)
    <3>1. <<>> \in Seq(Byte)
      OBVIOUS
    <3> QED
      BY <1>1, <1>3, <2>1, <2>4, <3>1, CompletesKeeps
  <2> QED
    BY <1>7, <2>2, <2>3, <2>4 DEF EndOfHeaders
<1>8. CASE ParseBody
  <2>1. CASE Incomplete
    BY <1>1, <2>1, IncompleteKeeps
  <2>2. CASE ~ (ReadableBytes < ctx.length)
    <3>1. /\ Readable(input) \in Seq(Byte) /\ Len(Readable(input)) = ReadableBytes
          /\ ReadableBytes \in Nat
      BY HeldIs DEF IInv
    <3>2. ctx.length \in Nat /\ ctx.length \in 0 .. ReadableBytes
      <4>1. ctx.length \in Nat
        BY <1>2 DEF Context
      <4> QED
        BY <2>2, <3>1, <4>1
    <3> DEFINE body == SubSeq(Readable(input), 1, ctx.length)
    <3>3. body \in Seq(Byte)
      <4> DEFINE l == ctx.length
                 held == Readable(input)
      <4>1. 0 \in Nat /\ l \in Nat /\ 0 <= l /\ l <= Len(held) /\ held \in Seq(Byte)
        BY <3>1, <3>2
      <4> HIDE DEF l, held
      <4>2. SubSeq(held, 0 + 1, l) \in Seq(Byte)
        BY <4>1, PartIs
      <4>3. 0 + 1 = 1
        OBVIOUS
      <4> QED
        BY <4>2, <4>3 DEF l, held
    <3>4. Completes(body, ctx.length)
      BY <1>8, <2>2 DEF ParseBody
    <3> HIDE DEF body
    <3> QED
      BY <1>1, <3>2, <3>3, <3>4, CompletesKeeps
  <2> QED
    BY <1>8, <2>1, <2>2 DEF ParseBody
<1> QED
  BY <1>5, <1>6, <1>7, <1>8

(* IInv holds in every reachable state.                                    *)
THEOREM Invariance == Spec => []IInv
<1>1. Init => IInv
  BY InitHolds
<1>2. IInv /\ [Next]_vars => IInv'
  <2> SUFFICES ASSUME IInv, [Next]_vars PROVE IInv'
    OBVIOUS
  <2>1. CASE Next
    BY <2>1, ReadvKeeps, SocketKeeps, ParserKeeps DEF Next
  <2>2. CASE UNCHANGED vars
    <3>1. UNCHANGED <<script, sent, received, consumed, input, ctx, pc, inflight,
                      outcomes, continued>>
      BY <2>2 DEF vars, callVars, outVars
    <3>2. Stream' = Stream
      BY <3>1 DEF Stream
    <3> QED
      BY <3>1, <3>2 DEF IInv, StateInv, InputInv, ContinueInv, BufferHolds
  <2> QED
    BY <2>1, <2>2
<1> QED
  BY <1>1, <1>2, PTL DEF Spec

(* The indices of the input buffer stay in it and in their order through   *)
(* every move, growth and reset; the parser's fields and the counters stay *)
(* in their ranges, inflight_ below kMaxInflight_ whatever its value.      *)
THEOREM TypeCorrect == Spec => []TypeOK
<1>1. IInv => TypeOK
  BY DEF IInv, StateInv, InputInv, IsBuffer, Context, TypeOK
<1> QED
  BY <1>1, Invariance, PTL

(* The buffer holds exactly the bytes that have arrived and have not been  *)
(* consumed, in their order: for any sizes of the buffer and of extrabuf,  *)
(* and wherever the stream is cut.                                         *)
THEOREM BufferFaithful == Spec => []BufferHolds
<1>1. IInv => BufferHolds
  BY DEF IInv, InputInv
<1> QED
  BY <1>1, Invariance, PTL
=============================================================================
