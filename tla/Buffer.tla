-------------------------------- MODULE Buffer --------------------------------
(***************************************************************************)
(* Buffer: the input buffer of a connection.  A buffer is [store, r, w]:   *)
(* buf_ and the two indices, which count from 0 as in the code, so that    *)
(* the readable bytes are store[r + 1] to store[w].  What lies outside     *)
(* them is never read and is the byte Junk.                                *)
(***************************************************************************)
EXTENDS Naturals, Sequences, FiniteSetsExt

CONSTANTS kPrependSize,   \* the bytes kept free in front
          ExtraSize,      \* the size of extrabuf in readFd
          Junk

ASSUME BufferAssumption == kPrependSize \in Nat \ {0} /\ ExtraSize \in Nat \ {0}

JunkOf(n) == [i \in 1 .. n |-> Junk]

NewBuffer == [store |-> JunkOf(kPrependSize), r |-> kPrependSize, w |-> kPrependSize]

Readable(b) == SubSeq(b.store, b.r + 1, b.w)
WriteableBytes(b) == Len(b.store) - b.w

(* memcpy to index at; the code does it only where there is room.          *)
Copy(store, at, bytes) ==
    [i \in DOMAIN store |-> IF i - at \in DOMAIN bytes THEN bytes[i - at] ELSE store[i]]

(* The capacity is doubled until it holds what is needed, which takes need *)
(* rounds at most.                                                         *)
Round(cap, need) == IF cap < need THEN 2 * cap ELSE cap
Doubled(size, need) ==
    LET cap[k \in 0 .. need] == IF k = 0 THEN size ELSE Round(cap[k - 1], need)
    IN  cap[need]

Resized(store, n) == [i \in 1 .. n |-> IF i \in DOMAIN store THEN store[i] ELSE Junk]

(* Enough room counting what has been consumed in front: the readable      *)
(* bytes move to the front.  Otherwise the buffer grows behind them.       *)
Enough_mutated(b, len) == WriteableBytes(b) + b.r >= len
Enough(b, len) == WriteableBytes(b) + b.r >= len + kPrependSize

MakeSpace(b, len) ==
    IF Enough(b, len)
    THEN [store |-> Copy(JunkOf(Len(b.store)), kPrependSize, Readable(b)),
          r |-> kPrependSize, w |-> kPrependSize + b.w - b.r]
    ELSE [b EXCEPT !.store = Resized(@, Doubled(Len(@), b.w + len + kPrependSize))]

AppendTo(b, bytes) ==
    LET room == MakeSpace(b, Len(bytes))
    IN  [room EXCEPT !.store = Copy(@, room.w, bytes), !.w = @ + Len(bytes)]

(* readFd: one readv fills what is writeable and then extrabuf, and what   *)
(* went to extrabuf is appended.                                           *)
ReadSize(b, available) ==
    Min({available, WriteableBytes(b) + ExtraSize})

ReadInto(b, bytes) ==
    LET direct == Min({Len(bytes), WriteableBytes(b)})
        filled == [b EXCEPT !.store = Copy(@, b.w, SubSeq(bytes, 1, direct)),
                            !.w = @ + direct]
    IN  IF Len(bytes) <= direct THEN filled
        ELSE AppendTo(filled, SubSeq(bytes, direct + 1, Len(bytes)))

(* retrieve: a buffer that is empty starts again, at its smallest size.    *)
Consumed_mutated(b, n) == NewBuffer
Consumed(b, n) ==
    LET r == b.r + Min({n, b.w - b.r})
    IN  IF r = b.w THEN NewBuffer
        ELSE [b EXCEPT !.r = r, !.store = Copy(@, 0, JunkOf(r))]
=============================================================================
