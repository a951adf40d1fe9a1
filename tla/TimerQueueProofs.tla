-------------------------- MODULE TimerQueueProofs --------------------------
(* Proofs about TimerQueue.tla, for any timers and any number of them, so  *)
(* for heaps of every size.                                                *)
(*                                                                         *)
(* The order: the loops of the code, which end within as many rounds as    *)
(* there are entries; the swap, the two sifts, eraseEntry and push_back as *)
(* operators on a queue, each with its loop invariant; the inductive       *)
(* invariant and the actions that keep it; the invariants the runs check;  *)
(* and the refinement of TimerService, step by step.                       *)
EXTENDS TimerQueue, FiniteSetTheorems, WellFoundedInduction, TLAPS

(* A record with the queue's four fields.                                  *)
IsQueue(q) ==
    q \in [heap : {q.heap}, index : {q.index}, timers : {q.timers}, expired : {q.expired}]

(* The entries of timerHeap_.                                              *)
Entry == [expiration : Nat, id : Nat]

(* A queue of n entries, its index exact.                                  *)
Exact(q, n) ==
    /\ IsQueue(q)
    /\ q.heap \in [0 .. n - 1 -> Entry]
    /\ q.index = [id \in DOMAIN q.index |-> q.index[id]]
    /\ \A x \in 0 .. n - 1 : q.heap[x].id \in DOMAIN q.index /\ q.index[q.heap[x].id] = x
    /\ \A id \in DOMAIN q.index : q.index[id] \in 0 .. n - 1 /\ q.heap[q.index[id]].id = id

(* What the heap holds, in whatever order.                                 *)
Entries(q) == Range(q.heap)

(* r differs from q in the order of the heap at most.                      *)
Permuted(q, r) ==
    /\ Entries(r) = Entries(q)
    /\ r.timers = q.timers
    /\ r.expired = q.expired

(* Place c is below place p: the formulas of siftDown.                     *)
Child(p, c) == c = 2 * p + 1 \/ c = 2 * p + 2

(* The heap order on places 0 .. n - 1.                                    *)
Ordered(h, n) ==
    \A p, c \in 0 .. n - 1 : Child(p, c) => h[p].expiration <= h[c].expiration

(* In order but for place x, whose entry may have to go up; and, as long   *)
(* as it has not moved from i, may have to go down instead.                *)
Rising(h, n, i, x) ==
    /\ \A p, c \in 0 .. n - 1 :
           Child(p, c) /\ c # x /\ (p # i \/ x # i) => h[p].expiration <= h[c].expiration
    /\ \A p, c \in 0 .. n - 1 :
           Child(p, x) /\ Child(x, c) => h[p].expiration <= h[c].expiration

(* In order but for place x, whose entry may have to go down.              *)
Falling(h, n, x) ==
    /\ \A p, c \in 0 .. n - 1 :
           Child(p, c) /\ p # x => h[p].expiration <= h[c].expiration
    /\ \A p, c \in 0 .. n - 1 :
           Child(p, x) /\ Child(x, c) => h[p].expiration <= h[c].expiration

(* The pause of a repeating timer, cut to whole ticks.                     *)
LEMMA StepIsNat ==
    ASSUME NEW i \in Nat PROVE i \div PerTick \in Nat
  BY TimerAssumption

-----------------------------------------------------------------------------
(* Induction, as a fact about sets of numbers.                             *)
LEMMA Inductive ==
  ASSUME NEW S, 0 \in S, \A n \in Nat : n \in S => n + 1 \in S
  PROVE  Nat \subseteq S
<1> DEFINE T == Nat \ S
<1> SUFFICES ASSUME T # {} PROVE FALSE
  OBVIOUS
<1>1. PICK m \in T : \A y \in T : <<y, m>> \notin OpToRel(<, Nat)
  BY WFMin, NatLessThanWellFounded, Zenon
<1>2. m # 0 /\ m \in Nat
  OBVIOUS
<1>3. m - 1 \in Nat /\ m - 1 \notin S
  BY <1>2
<1>4. <<m - 1, m>> \in OpToRel(<, Nat)
  BY <1>2, <1>3 DEF OpToRel
<1> QED
  BY <1>1, <1>3, <1>4

(* A round of one of the three loops.                                      *)
Turn(loop, s) ==
    IF loop = "up" THEN Up(s) ELSE IF loop = "down" THEN Down(s) ELSE Popped(s)

(* f lists the states of a loop, round by round.                           *)
Turns(f, loop, s, k) == f = [n \in 0 .. k |-> IF n = 0 THEN s ELSE Turn(loop, f[n - 1])]

(* There is such a list for any number of rounds.                          *)
LEMMA RoundsExist ==
  ASSUME NEW loop, NEW s, NEW k \in Nat
  PROVE  \E f : Turns(f, loop, s, k)
<1> DEFINE Is(f, m) == f = [n \in 0 .. m |-> IF n = 0 THEN s ELSE Turn(loop, f[n - 1])]
           P == {m \in Nat : \E f : Is(f, m)}
<1>1. 0 \in P
  <2> DEFINE g == [n \in 0 .. 0 |-> s]
  <2>1. Is(g, 0)
    OBVIOUS
  <2> QED
    BY <2>1
<1>2. ASSUME NEW m \in Nat, m \in P PROVE m + 1 \in P
  <2>1. PICK e : Is(e, m)
    BY <1>2
  <2> DEFINE g == [n \in 0 .. m + 1 |-> IF n \in 0 .. m THEN e[n] ELSE Turn(loop, e[m])]
  <2>2. ASSUME NEW n \in 0 .. m + 1 PROVE g[n] = IF n = 0 THEN s ELSE Turn(loop, g[n - 1])
    <3>1. CASE n = 0
      BY <2>1, <3>1
    <3>2. CASE n \in 1 .. m
      <4>1. n - 1 \in 0 .. m /\ n - 1 \in 0 .. m + 1 /\ n \in 0 .. m
        BY <3>2
      <4>2. g[n - 1] = e[n - 1] /\ g[n] = e[n]
        BY <4>1
      <4> QED
        BY <2>1, <3>2, <4>1, <4>2
    <3>3. CASE n = m + 1
      BY <3>3
    <3> QED
      BY <3>1, <3>2, <3>3
  <2>3. Is(g, m + 1)
    <3> HIDE DEF g
    <3>1. g = [n \in 0 .. m + 1 |-> g[n]]
      BY DEF g
    <3> QED
      BY <2>2, <3>1, Zenon
  <2> HIDE DEF g, Is
  <2>4. \E f : Is(f, m + 1)
    BY <2>3
  <2> QED
    BY <2>4
<1>3. \E f : Is(f, k)
  BY <1>1, <1>2, Inductive
<1> QED
  BY <1>3 DEF Turns

(* So Rounds(Up, s, k) is the last of k + 1 states, each but the first a   *)
(* round after the one before.                                             *)
LEMMA UpRounds ==
  ASSUME NEW s, NEW k \in Nat
  PROVE  \E f : /\ f[0] = s
                /\ \A n \in 0 .. k - 1 : f[n + 1] = Up(f[n])
                /\ Rounds(Up, s, k) = f[k]
<1> DEFINE Is(f) == f = [n \in 0 .. k |-> IF n = 0 THEN s ELSE Up(f[n - 1])]
           h == CHOOSE f : Is(f)
<1>1. \E f : Is(f)
  <2>1. PICK loop : loop = "up"
    OBVIOUS
  <2>2. PICK f : Turns(f, loop, s, k)
    BY RoundsExist
  <2>3. Is(f)
    BY <2>1, <2>2 DEF Turns, Turn
  <2> QED
    BY <2>3
<1>2. Is(h)
  BY <1>1, Zenon
<1>3. Rounds(Up, s, k) = h[k]
  BY DEF Rounds
<1> HIDE DEF h
<1>4. h[0] = s /\ \A n \in 0 .. k - 1 : h[n + 1] = Up(h[n])
  BY <1>2
<1> QED
  BY <1>3, <1>4

(* The same for siftDown's loop,                                           *)
LEMMA DownRounds ==
  ASSUME NEW s, NEW k \in Nat
  PROVE  \E f : /\ f[0] = s
                /\ \A n \in 0 .. k - 1 : f[n + 1] = Down(f[n])
                /\ Rounds(Down, s, k) = f[k]
<1> DEFINE Is(f) == f = [n \in 0 .. k |-> IF n = 0 THEN s ELSE Down(f[n - 1])]
           h == CHOOSE f : Is(f)
<1>1. \E f : Is(f)
  <2>1. PICK loop : loop = "down"
    OBVIOUS
  <2>2. PICK f : Turns(f, loop, s, k)
    BY RoundsExist
  <2>3. Is(f)
    BY <2>1, <2>2 DEF Turns, Turn
  <2> QED
    BY <2>3
<1>2. Is(h)
  BY <1>1, Zenon
<1>3. Rounds(Down, s, k) = h[k]
  BY DEF Rounds
<1> HIDE DEF h
<1>4. h[0] = s /\ \A n \in 0 .. k - 1 : h[n + 1] = Down(h[n])
  BY <1>2
<1> QED
  BY <1>3, <1>4

(* and for the one that collects what is due.                              *)
LEMMA PopRounds ==
  ASSUME NEW s, NEW k \in Nat
  PROVE  \E f : /\ f[0] = s
                /\ \A n \in 0 .. k - 1 : f[n + 1] = Popped(f[n])
                /\ Rounds(Popped, s, k) = f[k]
<1> DEFINE Is(f) == f = [n \in 0 .. k |-> IF n = 0 THEN s ELSE Popped(f[n - 1])]
           h == CHOOSE f : Is(f)
<1>1. \E f : Is(f)
  <2>1. PICK loop : loop = "pop"
    OBVIOUS
  <2>2. PICK f : Turns(f, loop, s, k)
    BY RoundsExist
  <2>3. Is(f)
    BY <2>1, <2>2 DEF Turns, Turn
  <2> QED
    BY <2>3
<1>2. Is(h)
  BY <1>1, Zenon
<1>3. Rounds(Popped, s, k) = h[k]
  BY DEF Rounds
<1> HIDE DEF h
<1>4. h[0] = s /\ \A n \in 0 .. k - 1 : h[n + 1] = Popped(h[n])
  BY <1>2
<1> QED
  BY <1>3, <1>4

-----------------------------------------------------------------------------
(* r is q with places i and j swapped, the index kept exact.               *)
Swapped(q, r, n, i, j) ==
    /\ Exact(r, n)
    /\ Permuted(q, r)
    /\ \A x \in 0 .. n - 1 :
           r.heap[x] = IF x = i THEN q.heap[j] ELSE IF x = j THEN q.heap[i] ELSE q.heap[x]

(* std::swap, and the two assignments to id2index_ after it.               *)
LEMMA SwapIs ==
  ASSUME NEW q, NEW n \in Nat, Exact(q, n), NEW i \in 0 .. n - 1, NEW j \in 0 .. n - 1
  PROVE  Swapped(q, Swap(q, i, j), n, i, j)
<1> DEFINE h == q.heap
           g == [x \in 0 .. n - 1 |-> IF x = i THEN h[j] ELSE IF x = j THEN h[i] ELSE h[x]]
           ind == [id \in DOMAIN q.index |-> IF id = h[j].id THEN i
                                             ELSE IF id = h[i].id THEN j ELSE q.index[id]]
           r == Swap(q, i, j)
<1>1. h \in [0 .. n - 1 -> Entry] /\ q.index = [id \in DOMAIN q.index |-> q.index[id]]
  BY DEF Exact
<1>2. [h EXCEPT ![i] = h[j], ![j] = h[i]] = g
  BY <1>1
<1>3. h[i].id \in DOMAIN q.index /\ h[j].id \in DOMAIN q.index
  BY DEF Exact
<1>4. (h[i].id = h[j].id) => i = j
  BY DEF Exact
<1>5. [q.index EXCEPT ![h[i].id] = j, ![h[j].id] = i] = ind
  BY <1>1, <1>3
<1>6. /\ IsQueue(r)
      /\ r.heap = g /\ r.index = ind /\ r.timers = q.timers /\ r.expired = q.expired
  <2>1. IsQueue(q)
    BY DEF Exact
  <2>2. r = [q EXCEPT !.heap = g, !.index = ind]
    BY <1>2, <1>5, Zenon DEF Swap
  <2> HIDE DEF g, ind, r
  <2> QED
    BY <2>1, <2>2 DEF IsQueue
<1>7. Exact(r, n)
  <2>1. g \in [0 .. n - 1 -> Entry]
    BY <1>1
  <2>2. ASSUME NEW x \in 0 .. n - 1 PROVE g[x].id \in DOMAIN ind /\ ind[g[x].id] = x
    <3>1. h[x].id \in DOMAIN q.index /\ q.index[h[x].id] = x
      BY DEF Exact
    <3>2. q.index[h[i].id] = i /\ q.index[h[j].id] = j
      BY DEF Exact
    <3> HIDE DEF h
    <3> QED
      BY <1>3, <3>1, <3>2
  <2>3. ASSUME NEW id \in DOMAIN ind PROVE ind[id] \in 0 .. n - 1 /\ g[ind[id]].id = id
    <3>1. id \in DOMAIN q.index /\ q.index[id] \in 0 .. n - 1 /\ h[q.index[id]].id = id
      BY DEF Exact
    <3>2. q.index[h[i].id] = i /\ q.index[h[j].id] = j
      BY DEF Exact
    <3> HIDE DEF h
    <3> QED
      BY <1>3, <3>1, <3>2
  <2>4. ind = [id \in DOMAIN ind |-> ind[id]]
    OBVIOUS
  <2> HIDE DEF g, ind, r
  <2> QED
    BY <1>6, <2>1, <2>2, <2>3, <2>4 DEF Exact
<1>8. Range(g) = Range(h)
  <2>1. DOMAIN g = 0 .. n - 1 /\ DOMAIN h = 0 .. n - 1
    BY <1>1
  <2>2. ASSUME NEW x \in 0 .. n - 1 PROVE \E y \in 0 .. n - 1 : g[x] = h[y]
    OBVIOUS
  <2>3. ASSUME NEW x \in 0 .. n - 1 PROVE \E y \in 0 .. n - 1 : h[x] = g[y]
    <3>1. CASE x = i
      <4>1. h[x] = g[j]
        BY <3>1
      <4> QED
        BY <4>1
    <3>2. CASE x = j
      <4>1. h[x] = g[i]
        BY <3>2
      <4> QED
        BY <4>1
    <3>3. CASE x # i /\ x # j
      <4>1. h[x] = g[x]
        BY <3>3
      <4> QED
        BY <4>1
    <3> QED
      BY <3>1, <3>2, <3>3
  <2> HIDE DEF g, h
  <2>4. Range(g) = {g[x] : x \in 0 .. n - 1} /\ Range(h) = {h[x] : x \in 0 .. n - 1}
    BY <2>1 DEF Range
  <2>5. Range(g) \subseteq Range(h)
    <3> SUFFICES ASSUME NEW x \in 0 .. n - 1 PROVE g[x] \in Range(h)
      BY <2>4
    <3>1. PICK y \in 0 .. n - 1 : g[x] = h[y]
      BY <2>2
    <3> QED
      BY <2>4, <3>1
  <2>6. Range(h) \subseteq Range(g)
    <3> SUFFICES ASSUME NEW x \in 0 .. n - 1 PROVE h[x] \in Range(g)
      BY <2>4
    <3>1. PICK y \in 0 .. n - 1 : h[x] = g[y]
      BY <2>3
    <3> QED
      BY <2>4, <3>1
  <2> QED
    BY <2>5, <2>6
<1> HIDE DEF r
<1>9. Permuted(q, r)
  BY <1>6, <1>8 DEF Permuted, Entries
<1>10. \A x \in 0 .. n - 1 :
           r.heap[x] = IF x = i THEN h[j] ELSE IF x = j THEN h[i] ELSE h[x]
  BY <1>6
<1> QED
  BY <1>7, <1>9, <1>10 DEF r, Swapped

-----------------------------------------------------------------------------
(* A sift of q under way.                                                  *)
Sifting(s, q, n) ==
    /\ s \in [q : {s.q}, at : 0 .. n - 1]
    /\ Exact(s.q, n)
    /\ Permuted(q, s.q)

(* One round that moves the entry to place y.                              *)
LEMMA MovedIs ==
  ASSUME NEW q, NEW n \in Nat, NEW s, Sifting(s, q, n), NEW y \in 0 .. n - 1
  PROVE  /\ Sifting(Moved(s, y), q, n)
         /\ Moved(s, y).at = y
         /\ Swapped(s.q, Moved(s, y).q, n, s.at, y)
<1> DEFINE w == Swap(s.q, s.at, y)
<1>1. s.at \in 0 .. n - 1 /\ Exact(s.q, n) /\ Permuted(q, s.q)
  BY DEF Sifting
<1>2. Swapped(s.q, w, n, s.at, y)
  BY <1>1, SwapIs
<1> HIDE DEF w
<1>3. Moved(s, y) = [q |-> w, at |-> y]
  BY DEF Moved, w
<1>4. Exact(w, n) /\ Permuted(q, w)
  BY <1>1, <1>2 DEF Permuted, Swapped
<1> QED
  BY <1>2, <1>3, <1>4 DEF Sifting

(* The places above and below a place.                                     *)
LEMMA ParentIs ==
  ASSUME NEW x \in Nat, x # 0
  PROVE  Parent(x) \in Nat /\ Parent(x) < x /\ Child(Parent(x), x)
  BY DEF Parent, Child

(* It is the only one.                                                     *)
LEMMA ParentOf ==
  ASSUME NEW p \in Nat, NEW c \in Nat, Child(p, c)
  PROVE  c # 0 /\ Parent(c) = p
  BY DEF Parent, Child

(* siftDown's choice is a child, and no child expires earlier.             *)
LEMMA SmallestIs ==
  ASSUME NEW n \in Nat, NEW h \in [0 .. n - 1 -> Entry], NEW x \in 0 .. n - 1,
         2 * x + 1 \in 0 .. n - 1
  PROVE  LET c == Smallest(h, x) IN
         /\ c \in 0 .. n - 1 /\ Child(x, c) /\ c > x
         /\ \A d \in 0 .. n - 1 : Child(x, d) => h[c].expiration <= h[d].expiration
<1>1. DOMAIN h = 0 .. n - 1
  OBVIOUS
<1>2. \A y \in 0 .. n - 1 : h[y].expiration \in Nat
  BY DEF Entry
<1>3. CASE 2 * x + 2 \in 0 .. n - 1 /\ h[2 * x + 2].expiration < h[2 * x + 1].expiration
  <2>1. Smallest(h, x) = 2 * x + 2
    BY <1>1, <1>3 DEF Smallest
  <2>2. h[2 * x + 2].expiration \in Nat /\ h[2 * x + 1].expiration \in Nat
    BY <1>2, <1>3
  <2> QED
    BY <1>3, <2>1, <2>2 DEF Child
<1>4. CASE ~ (2 * x + 2 \in 0 .. n - 1 /\ h[2 * x + 2].expiration < h[2 * x + 1].expiration)
  <2>1. Smallest(h, x) = 2 * x + 1
    BY <1>1, <1>4 DEF Smallest
  <2>2. ASSUME NEW d \in 0 .. n - 1, Child(x, d)
        PROVE  h[2 * x + 1].expiration <= h[d].expiration
    <3>1. h[d].expiration \in Nat /\ h[2 * x + 1].expiration \in Nat
      BY <1>2
    <3> QED
      BY <1>4, <2>2, <3>1 DEF Child
  <2> QED
    BY <2>1, <2>2 DEF Child
<1> QED
  BY <1>3, <1>4

(* A round of siftUp either ends the loop or carries the entry up, and     *)
(* keeps Rising.                                                           *)
LEMMA UpKeeps ==
  ASSUME NEW q, NEW n \in Nat, NEW s, NEW i \in 0 .. n - 1,
         Sifting(s, q, n), Rising(s.q.heap, n, i, s.at)
  PROVE  /\ Sifting(Up(s), q, n)
         /\ Rising(Up(s).q.heap, n, i, Up(s).at)
         /\ Up(s) = s \/ Up(s).at < s.at
<1> DEFINE h == s.q.heap
           x == s.at
           p == Parent(x)
<1>1. x \in 0 .. n - 1 /\ h \in [0 .. n - 1 -> Entry]
  BY DEF Sifting, Exact
<1>2. \A y \in 0 .. n - 1 : h[y].expiration \in Nat
  BY <1>1 DEF Entry
<1>3. CASE x = 0 \/ h[x].expiration >= h[p].expiration
  BY <1>3 DEF Up
<1>4. CASE ~ (x = 0 \/ h[x].expiration >= h[p].expiration)
  <2> DEFINE r == Moved(s, p)
             g == r.q.heap
  <2>1. Up(s) = r
    BY <1>4 DEF Up
  <2>2. p \in 0 .. n - 1 /\ p < x /\ Child(p, x) /\ x # 0
    BY <1>1, <1>4, ParentIs
  <2>3. h[x].expiration < h[p].expiration
    BY <1>1, <1>2, <1>4, <2>2
  <2> HIDE DEF p
  <2>4. /\ Sifting(r, q, n) /\ r.at = p
        /\ \A y \in 0 .. n - 1 : g[y] = IF y = x THEN h[p] ELSE IF y = p THEN h[x] ELSE h[y]
    <3>1. Sifting(s, q, n) /\ p \in 0 .. n - 1
      BY <2>2
    <3>2. Sifting(r, q, n) /\ r.at = p /\ Swapped(s.q, r.q, n, x, p)
      BY <3>1, MovedIs
    <3> HIDE DEF r
    <3> QED
      BY <3>2 DEF Swapped
  <2> HIDE DEF r, g, h, x
  <2>5. Rising(h, n, i, x)
    BY DEF h, x
  <2>6. ASSUME NEW a \in 0 .. n - 1, NEW c \in 0 .. n - 1, Child(a, c), c # p,
               a # i \/ p # i
        PROVE  g[a].expiration <= g[c].expiration
    <3>1. CASE c = x
      <4>1. a = p
        BY <2>2, <2>6, <3>1 DEF Child
      <4> QED
        BY <1>1, <1>2, <2>2, <2>3, <2>4, <3>1, <4>1
    <3>2. CASE c # x /\ a = p
      <4>1. g[a] = h[x] /\ g[c] = h[c]
        BY <2>2, <2>4, <2>6, <3>2
      <4>2. h[p].expiration <= h[c].expiration
        <5>1. p # i \/ x # i
          BY <2>2
        <5> QED
          BY <2>2, <2>5, <2>6, <3>2, <5>1 DEF Rising
      <4> QED
        BY <1>1, <1>2, <2>2, <2>3, <4>1, <4>2
    <3>3. CASE c # x /\ a = x
      <4>1. g[a] = h[p] /\ g[c] = h[c]
        BY <1>1, <2>2, <2>4, <2>6, <3>3
      <4> QED
        BY <2>2, <2>5, <2>6, <3>3, <4>1 DEF Rising
    <3>4. CASE c # x /\ a # p /\ a # x
      <4>1. g[a] = h[a] /\ g[c] = h[c]
        BY <2>4, <2>6, <3>4
      <4>2. a # i \/ x # i
        BY <3>4
      <4> QED
        BY <2>5, <2>6, <3>4, <4>1, <4>2 DEF Rising
    <3> QED
      BY <3>1, <3>2, <3>3, <3>4
  <2>7. ASSUME NEW a \in 0 .. n - 1, NEW c \in 0 .. n - 1, Child(a, p), Child(p, c)
        PROVE  g[a].expiration <= g[c].expiration
    <3>1. a # p /\ a # x /\ c # p
      BY <2>2, <2>7 DEF Child
    <3>2. h[a].expiration <= h[p].expiration
      <4>1. p # x
        BY <1>1, <2>2
      <4>2. a # i \/ x # i
        BY <3>1
      <4> QED
        BY <2>2, <2>5, <2>7, <4>1, <4>2 DEF Rising
    <3>3. CASE c = x
      BY <2>2, <2>4, <3>1, <3>2, <3>3
    <3>4. CASE c # x
      <4>1. h[p].expiration <= h[c].expiration
        <5>1. p # i \/ x # i
          BY <1>1, <2>2
        <5> QED
          BY <2>2, <2>5, <2>7, <3>4, <5>1 DEF Rising
      <4>2. g[a] = h[a] /\ g[c] = h[c]
        BY <2>4, <3>1, <3>4
      <4> QED
        BY <1>2, <2>2, <3>2, <4>1, <4>2
    <3> QED
      BY <3>3, <3>4
  <2>8. Rising(g, n, i, p)
    BY <2>6, <2>7 DEF Rising
  <2> QED
    BY <2>1, <2>2, <2>4, <2>8 DEF g, x
<1> QED
  BY <1>3, <1>4

(* siftUp() from a place below which it may be out of order.               *)
LEMMA SiftUpIs ==
  ASSUME NEW q, NEW n \in Nat, NEW i \in 0 .. n - 1, Exact(q, n), Rising(q.heap, n, i, i)
  PROVE  LET r == SiftUp(q, i) IN
         Exact(r, n) /\ Permuted(q, r) /\ Falling(r.heap, n, i)
<1> DEFINE s == [q |-> q, at |-> i]
<1>1. Size(q.heap) = n
  <2>1. DOMAIN q.heap = 0 .. n - 1
    BY DEF Exact
  <2>2. Cardinality(0 .. n - 1) = n
    BY FS_Interval
  <2> QED
    BY <2>1, <2>2, Zenon DEF Size
<1>2. PICK f : /\ f[0] = s
               /\ \A k \in 0 .. n - 1 : f[k + 1] = Up(f[k])
               /\ Rounds(Up, s, n) = f[n]
  BY UpRounds
<1> DEFINE Good(t, k) == /\ Sifting(t, q, n)
                         /\ Rising(t.q.heap, n, i, t.at)
                         /\ Up(t) = t \/ t.at + k <= i
           P == {k \in Nat : k <= n => Good(f[k], k)}
<1>3. 0 \in P
  <2>1. Sifting(s, q, n)
    BY DEF Sifting, Permuted
  <2>2. Good(s, 0)
    BY <2>1
  <2> QED
    BY <1>2, <2>2
<1>4. ASSUME NEW k \in Nat, k \in P PROVE k + 1 \in P
  <2> SUFFICES ASSUME k + 1 <= n PROVE Good(f[k + 1], k + 1)
    OBVIOUS
  <2> DEFINE t == f[k]
  <2>1. Good(t, k)
    BY <1>4
  <2>2. f[k + 1] = Up(t)
    BY <1>2
  <2> HIDE DEF t
  <2>3. /\ Sifting(Up(t), q, n) /\ Rising(Up(t).q.heap, n, i, Up(t).at)
        /\ Up(t) = t \/ Up(t).at < t.at
    BY <2>1, UpKeeps
  <2>4. Up(Up(t)) = Up(t) \/ Up(t).at + (k + 1) <= i
    <3>1. CASE Up(t) = t
      BY <3>1
    <3>2. CASE Up(t) # t
      <4>1. Up(t).at < t.at /\ t.at + k <= i
        BY <2>1, <2>3, <3>2
      <4>2. Up(t).at \in Int /\ t.at \in Int
        BY <2>1, <2>3 DEF Sifting
      <4> QED
        BY <4>1, <4>2
    <3> QED
      BY <3>1, <3>2
  <2> QED
    BY <2>2, <2>3, <2>4
<1>5. Good(f[n], n)
  <2> HIDE DEF Good
  <2>1. Nat \subseteq P
    <3> HIDE DEF P
    <3> QED
      BY <1>3, <1>4, Inductive
  <2> QED
    BY <2>1
<1> DEFINE e == f[n]
           h == e.q.heap
           x == e.at
<1>6. Sifting(e, q, n) /\ Rising(h, n, i, x) /\ (Up(e) = e \/ x + n <= i)
  BY <1>5
<1>7. SiftUp(q, i) = e.q
  BY <1>1, <1>2 DEF SiftUp
<1> HIDE DEF e
<1>8. x \in 0 .. n - 1 /\ h \in [0 .. n - 1 -> Entry]
  BY <1>6 DEF Sifting, Exact
<1>9. Up(e) = e
  BY <1>6, <1>8
<1>10. x = 0 \/ h[Parent(x)].expiration <= h[x].expiration
  <2> SUFFICES ASSUME x # 0 PROVE h[Parent(x)].expiration <= h[x].expiration
    OBVIOUS
  <2>1. Parent(x) \in 0 .. n - 1 /\ Parent(x) < x
    BY <1>8, ParentIs
  <2>2. h[x].expiration \in Nat /\ h[Parent(x)].expiration \in Nat
    BY <1>8, <2>1 DEF Entry
  <2>3. CASE h[x].expiration >= h[Parent(x)].expiration
    BY <2>2, <2>3
  <2>4. CASE ~ (h[x].expiration >= h[Parent(x)].expiration)
    <3>1. Up(e) = Moved(e, Parent(x))
      BY <2>4 DEF Up
    <3>2. Moved(e, Parent(x)).at = Parent(x)
      BY DEF Moved
    <3>3. Parent(x) = x
      BY <1>9, <3>1, <3>2, Zenon
    <3> QED
      BY <1>8, <2>1, <3>3
  <2> QED
    BY <2>3, <2>4
<1>11. Falling(h, n, i)
  <2> HIDE DEF h, x
  <2>1. ASSUME NEW p \in 0 .. n - 1, NEW c \in 0 .. n - 1, Child(p, c), p # i
        PROVE  h[p].expiration <= h[c].expiration
    <3>1. CASE c = x
      <4>1. x # 0 /\ Parent(x) = p
        BY <1>8, <2>1, <3>1, ParentOf
      <4> QED
        BY <1>10, <3>1, <4>1
    <3>2. CASE c # x
      BY <1>6, <2>1, <3>2 DEF Rising
    <3> QED
      BY <3>1, <3>2
  <2>2. ASSUME NEW p \in 0 .. n - 1, NEW c \in 0 .. n - 1, Child(p, i), Child(i, c)
        PROVE  h[p].expiration <= h[c].expiration
    <3>1. CASE x = i
      BY <1>6, <2>2, <3>1 DEF Rising
    <3>2. CASE x # i
      <4>1. h[p].expiration <= h[i].expiration
        BY <2>1, <2>2 DEF Child
      <4>2. h[i].expiration <= h[c].expiration
        <5>1. CASE c = x
          <6>1. x # 0 /\ Parent(x) = i
            BY <1>8, <2>2, <5>1, ParentOf
          <6> QED
            BY <1>10, <5>1, <6>1
        <5>2. CASE c # x
          BY <1>6, <2>2, <3>2, <5>2 DEF Rising
        <5> QED
          BY <5>1, <5>2
      <4>3. /\ h[p].expiration \in Nat /\ h[i].expiration \in Nat
            /\ h[c].expiration \in Nat
        BY <1>8 DEF Entry
      <4> QED
        BY <4>1, <4>2, <4>3
    <3> QED
      BY <3>1, <3>2
  <2> QED
    BY <2>1, <2>2 DEF Falling
<1>12. Exact(e.q, n) /\ Permuted(q, e.q)
  BY <1>6 DEF Sifting
<1> QED
  BY <1>7, <1>11, <1>12

(* A round of siftDown carries the entry down and keeps Falling, or ends   *)
(* with the heap in order.                                                 *)
LEMMA DownKeeps ==
  ASSUME NEW q, NEW n \in Nat, NEW s, Sifting(s, q, n), Falling(s.q.heap, n, s.at)
  PROVE  /\ Sifting(Down(s), q, n)
         /\ Falling(Down(s).q.heap, n, Down(s).at)
         /\ \/ Down(s) = s /\ Ordered(s.q.heap, n)
            \/ Down(s).at > s.at
<1> DEFINE h == s.q.heap
           x == s.at
           y == Smallest(h, x)
<1>1. x \in 0 .. n - 1 /\ h \in [0 .. n - 1 -> Entry]
  BY DEF Sifting, Exact
<1>2. \A z \in 0 .. n - 1 : h[z].expiration \in Nat
  BY <1>1 DEF Entry
<1>3. Falling(h, n, x)
  OBVIOUS
<1>4. DOMAIN h = 0 .. n - 1
  BY <1>1
<1>5. CASE 2 * x + 1 \notin DOMAIN h
  <2>1. Down(s) = s
    BY <1>5 DEF Down
  <2> HIDE DEF h, x
  <2>2. ASSUME NEW p \in 0 .. n - 1, NEW c \in 0 .. n - 1, Child(p, c)
        PROVE  h[p].expiration <= h[c].expiration
    <3>1. p # x
      BY <1>1, <1>4, <1>5, <2>2 DEF Child
    <3> QED
      BY <1>3, <2>2, <3>1 DEF Falling
  <2> QED
    BY <2>1, <2>2 DEF Ordered, h, x
<1>6. CASE 2 * x + 1 \in DOMAIN h
  <2>1. /\ y \in 0 .. n - 1 /\ Child(x, y) /\ y > x
        /\ \A d \in 0 .. n - 1 : Child(x, d) => h[y].expiration <= h[d].expiration
    <3> HIDE DEF h, x
    <3> QED
      BY <1>1, <1>4, <1>6, SmallestIs
  <2>2. CASE h[x].expiration <= h[y].expiration
    <3>1. Down(s) = s
      BY <2>2 DEF Down
    <3> HIDE DEF h, x, y
    <3>2. ASSUME NEW p \in 0 .. n - 1, NEW c \in 0 .. n - 1, Child(p, c)
          PROVE  h[p].expiration <= h[c].expiration
      <4>1. CASE p = x
        <5>1. h[y].expiration <= h[c].expiration
          BY <2>1, <3>2, <4>1
        <5>2. /\ h[x].expiration \in Nat /\ h[y].expiration \in Nat
              /\ h[c].expiration \in Nat
          BY <1>1, <1>2, <2>1
        <5> QED
          BY <2>2, <4>1, <5>1, <5>2
      <4>2. CASE p # x
        BY <1>3, <3>2, <4>2 DEF Falling
      <4> QED
        BY <4>1, <4>2
    <3> QED
      BY <3>1, <3>2 DEF Ordered, h, x
  <2>3. CASE ~ (h[x].expiration <= h[y].expiration)
    <3> DEFINE r == Moved(s, y)
               g == r.q.heap
    <3>1. Down(s) = r
      BY <1>6, <2>3 DEF Down
    <3> HIDE DEF y
    <3>2. Sifting(r, q, n) /\ r.at = y /\ Swapped(s.q, r.q, n, x, y)
      BY <2>1, MovedIs
    <3> HIDE DEF r
    <3>3. \A z \in 0 .. n - 1 :
              g[z] = IF z = x THEN h[y] ELSE IF z = y THEN h[x] ELSE h[z]
      BY <3>2 DEF Swapped
    <3> HIDE DEF g, h, x
    <3>4. h[y].expiration < h[x].expiration
      BY <1>1, <1>2, <2>1, <2>3
    <3>5. ASSUME NEW p \in 0 .. n - 1, NEW c \in 0 .. n - 1, Child(p, c), p # y
          PROVE  g[p].expiration <= g[c].expiration
      <4>1. CASE p = x
        <5>1. g[p] = h[y]
          BY <3>3, <4>1
        <5>2. CASE c = y
          <6>1. g[c] = h[x]
            BY <3>3, <3>5, <4>1, <5>2
          <6> QED
            BY <1>1, <1>2, <2>1, <3>4, <5>1, <6>1
        <5>3. CASE c # y
          <6>1. c # x
            BY <3>5, <4>1 DEF Child
          <6>2. g[c] = h[c]
            BY <3>3, <5>3, <6>1
          <6> QED
            BY <2>1, <3>5, <4>1, <5>1, <6>2
        <5> QED
          BY <5>2, <5>3
      <4>2. CASE p # x
        <5>1. g[p] = h[p] /\ c # y
          <6>1. c # y
            BY <1>1, <2>1, <3>5, <4>2 DEF Child
          <6> QED
            BY <3>3, <3>5, <4>2, <6>1
        <5>2. CASE c = x
          <6>1. g[c] = h[y]
            BY <3>3, <5>2
          <6> QED
            BY <1>3, <2>1, <3>5, <5>1, <5>2, <6>1 DEF Falling
        <5>3. CASE c # x
          <6>1. g[c] = h[c]
            BY <3>3, <5>1, <5>3
          <6> QED
            BY <1>3, <3>5, <4>2, <5>1, <6>1 DEF Falling
        <5> QED
          BY <5>2, <5>3
      <4> QED
        BY <4>1, <4>2
    <3>6. ASSUME NEW p \in 0 .. n - 1, NEW c \in 0 .. n - 1, Child(p, y), Child(y, c)
          PROVE  g[p].expiration <= g[c].expiration
      <4>1. p = x /\ c # x /\ c # y
        BY <1>1, <2>1, <3>6 DEF Child
      <4>2. g[p] = h[y] /\ g[c] = h[c]
        BY <3>3, <4>1
      <4>3. y # x
        BY <1>1, <2>1
      <4> QED
        BY <1>3, <2>1, <3>6, <4>2, <4>3 DEF Falling
    <3>7. Falling(g, n, y)
      BY <3>5, <3>6 DEF Falling
    <3> QED
      BY <2>1, <3>1, <3>2, <3>7 DEF g, x
  <2> QED
    BY <2>2, <2>3
<1> QED
  BY <1>5, <1>6

(* timerHeap_.size().                                                      *)
LEMMA SizeIs ==
  ASSUME NEW q, NEW n \in Nat, Exact(q, n)
  PROVE  Size(q.heap) = n /\ DOMAIN q.heap = 0 .. n - 1
<1>1. DOMAIN q.heap = 0 .. n - 1
  BY DEF Exact
<1> QED
  BY <1>1, FS_Interval DEF Size

(* siftDown() from a place below which it may be out of order.             *)
LEMMA SiftDownIs ==
  ASSUME NEW q, NEW n \in Nat, NEW i \in 0 .. n - 1, Exact(q, n), Falling(q.heap, n, i)
  PROVE  LET r == SiftDown(q, i) IN
         Exact(r, n) /\ Permuted(q, r) /\ Ordered(r.heap, n)
<1> DEFINE s == [q |-> q, at |-> i]
<1>1. PICK f : /\ f[0] = s
               /\ \A k \in 0 .. n - 1 : f[k + 1] = Down(f[k])
               /\ Rounds(Down, s, n) = f[n]
  BY DownRounds
<1> DEFINE Good(t, k) == /\ Sifting(t, q, n)
                         /\ Falling(t.q.heap, n, t.at)
                         /\ Down(t) = t \/ t.at >= i + k
           P == {k \in Nat : k <= n => Good(f[k], k)}
<1>2. 0 \in P
  <2>1. Sifting(s, q, n)
    BY DEF Sifting, Permuted
  <2>2. Good(s, 0)
    BY <2>1
  <2> QED
    BY <1>1, <2>2
<1>3. ASSUME NEW k \in Nat, k \in P PROVE k + 1 \in P
  <2> SUFFICES ASSUME k + 1 <= n PROVE Good(f[k + 1], k + 1)
    OBVIOUS
  <2> DEFINE t == f[k]
  <2>1. Good(t, k)
    BY <1>3
  <2>2. f[k + 1] = Down(t)
    BY <1>1
  <2> HIDE DEF t
  <2>3. /\ Sifting(Down(t), q, n) /\ Falling(Down(t).q.heap, n, Down(t).at)
        /\ (Down(t) = t /\ Ordered(t.q.heap, n)) \/ Down(t).at > t.at
    BY <2>1, DownKeeps
  <2>4. Down(Down(t)) = Down(t) \/ Down(t).at >= i + (k + 1)
    <3>1. Down(t).at \in Int /\ t.at \in Int
      BY <2>1, <2>3 DEF Sifting
    <3>2. CASE Down(t) = t
      BY <3>2
    <3>3. CASE Down(t) # t
      <4>1. Down(t).at > t.at /\ t.at >= i + k
        BY <2>1, <2>3, <3>3
      <4> QED
        BY <3>1, <4>1
    <3> QED
      BY <3>2, <3>3
  <2> QED
    BY <2>2, <2>3, <2>4
<1>4. Good(f[n], n)
  <2> HIDE DEF Good
  <2>1. Nat \subseteq P
    <3> HIDE DEF P
    <3> QED
      BY <1>2, <1>3, Inductive
  <2> QED
    BY <2>1
<1>5. SiftDown(q, i) = f[n].q
  BY <1>1, SizeIs DEF SiftDown
<1>6. f[n].at \in 0 .. n - 1 /\ Exact(f[n].q, n) /\ Permuted(q, f[n].q)
  BY <1>4 DEF Sifting
<1>7. Ordered(f[n].q.heap, n)
  <2> DEFINE t == f[n]
  <2>1. Good(t, n)
    BY <1>4
  <2> HIDE DEF t
  <2>2. Down(t) = t
    BY <2>1 DEF Sifting
  <2>3. (Down(t) = t /\ Ordered(t.q.heap, n)) \/ Down(t).at > t.at
    BY <2>1, DownKeeps
  <2>4. t.at \in Int
    BY <2>1 DEF Sifting
  <2>5. Ordered(t.q.heap, n)
    BY <2>2, <2>3, <2>4
  <2> QED
    BY <2>5 DEF t
<1> QED
  BY <1>5, <1>6, <1>7

-----------------------------------------------------------------------------
(* r is q without its entry e.                                             *)
Lacks(r, q, e) ==
    /\ Entries(r) = Entries(q) \ {e}
    /\ r.timers = q.timers
    /\ r.expired = q.expired

(* pop_back, and the erasure of its id from id2index_.                     *)
LEMMA PopBackIs ==
  ASSUME NEW q, NEW n \in Nat, n # 0, Exact(q, n)
  PROVE  /\ Exact(PopBack(q), n - 1)
         /\ Lacks(PopBack(q), q, q.heap[n - 1])
         /\ \A x \in 0 .. n - 2 : PopBack(q).heap[x] = q.heap[x]
<1> DEFINE h == q.heap
           e == h[n - 1]
           g == [x \in 0 .. n - 2 |-> h[x]]
           ind == [id \in DOMAIN q.index \ {e.id} |-> q.index[id]]
           r == PopBack(q)
<1>1. /\ IsQueue(q) /\ h \in [0 .. n - 1 -> Entry]
      /\ \A x \in 0 .. n - 1 : h[x].id \in DOMAIN q.index /\ q.index[h[x].id] = x
      /\ \A id \in DOMAIN q.index : q.index[id] \in 0 .. n - 1 /\ h[q.index[id]].id = id
  BY DEF Exact
<1>2. Size(h) = n /\ DOMAIN h = 0 .. n - 1
  BY SizeIs
<1>3. (0 .. n - 1) \ {n - 1} = 0 .. n - 2
  OBVIOUS
<1>4. Without(h, {n - 1}) = g
  BY <1>2, <1>3 DEF Without, Restrict
<1>5. Without(q.index, {e.id}) = ind
  BY DEF Without, Restrict
<1>6. r = [q EXCEPT !.heap = g, !.index = ind]
  BY <1>2, <1>4, <1>5 DEF PopBack
<1>7. /\ IsQueue(r)
      /\ r.heap = g /\ r.index = ind /\ r.timers = q.timers /\ r.expired = q.expired
  <2> HIDE DEF g, ind, r
  <2> QED
    BY <1>1, <1>6 DEF IsQueue
<1>8. g \in [0 .. n - 2 -> Entry] /\ (n - 1) - 1 = n - 2 /\ n - 1 \in 0 .. n - 1
  BY <1>1
<1>9. ASSUME NEW x \in 0 .. n - 2 PROVE g[x].id \in DOMAIN ind /\ ind[g[x].id] = x
  <2>1. x \in 0 .. n - 1 /\ x # n - 1 /\ g[x] = h[x]
    OBVIOUS
  <2>2. h[x].id # e.id
    <3>1. q.index[h[x].id] = x /\ q.index[e.id] = n - 1
      BY <1>1, <1>8, <2>1
    <3> QED
      BY <2>1, <3>1
  <2> QED
    BY <1>1, <2>1, <2>2
<1>10. ASSUME NEW id \in DOMAIN ind PROVE ind[id] \in 0 .. n - 2 /\ g[ind[id]].id = id
  <2>1. id \in DOMAIN q.index /\ id # e.id /\ ind[id] = q.index[id]
    OBVIOUS
  <2>2. q.index[id] \in 0 .. n - 1 /\ h[q.index[id]].id = id
    BY <1>1, <2>1
  <2>3. q.index[id] # n - 1
    BY <2>1, <2>2
  <2>4. q.index[id] \in 0 .. n - 2
    BY <2>2, <2>3
  <2> QED
    BY <2>1, <2>2, <2>4
<1>11. ind = [id \in DOMAIN ind |-> ind[id]]
  OBVIOUS
<1>12. {g[x] : x \in 0 .. n - 2} = {h[x] : x \in 0 .. n - 1} \ {e}
  <2>1. ASSUME NEW x \in 0 .. n - 2 PROVE x \in 0 .. n - 1 /\ g[x] = h[x] /\ h[x] # e
    <3>1. x \in 0 .. n - 1 /\ x # n - 1
      OBVIOUS
    <3>2. q.index[h[x].id] = x /\ q.index[e.id] = n - 1
      BY <1>1, <1>8, <3>1
    <3>3. g[x] = h[x]
      OBVIOUS
    <3> QED
      BY <3>1, <3>2, <3>3
  <2>2. ASSUME NEW x \in 0 .. n - 1, h[x] # e PROVE x \in 0 .. n - 2 /\ g[x] = h[x]
    <3>1. x # n - 1
      BY <2>2
    <3> QED
      BY <3>1
  <2> HIDE DEF g, h, e
  <2> QED
    BY <2>1, <2>2
<1>13. DOMAIN g = 0 .. n - 2
  OBVIOUS
<1>14. \A x \in 0 .. n - 2 : g[x] = h[x]
  OBVIOUS
<1> HIDE DEF g, ind, r
<1>15. Exact(r, n - 1)
  BY <1>7, <1>8, <1>9, <1>10, <1>11 DEF Exact
<1>16. Lacks(r, q, e)
  <2>1. Entries(r) = {g[x] : x \in 0 .. n - 2}
    BY <1>7, <1>13 DEF Entries, Range
  <2>2. Entries(q) = {h[x] : x \in 0 .. n - 1}
    BY <1>2 DEF Entries, Range
  <2> QED
    BY <1>7, <1>12, <2>1, <2>2 DEF Lacks
<1> QED
  BY <1>7, <1>14, <1>15, <1>16 DEF r

(* eraseEntry(i) takes away the entry at i and leaves a heap in order with *)
(* an exact index, wherever i is.                                          *)
LEMMA EraseIs ==
  ASSUME NEW q, NEW n \in Nat, Exact(q, n), Ordered(q.heap, n), NEW i \in 0 .. n - 1
  PROVE  /\ Exact(EraseEntry(q, i), n - 1)
         /\ Ordered(EraseEntry(q, i).heap, n - 1)
         /\ Lacks(EraseEntry(q, i), q, q.heap[i])
<1> DEFINE h == q.heap
           w == Swap(q, i, n - 1)
           popped == PopBack(w)
           g == popped.heap
           r == EraseEntry(q, i)
<1>1. Size(h) = n /\ DOMAIN h = 0 .. n - 1 /\ n # 0 /\ n - 1 \in 0 .. n - 1 /\ n - 1 \in Nat
  BY SizeIs
<1>2. r = IF i < n - 1 THEN Settle(popped, i) ELSE popped
  BY <1>1 DEF EraseEntry
<1>3. Swapped(q, w, n, i, n - 1)
  BY <1>1, SwapIs
<1> HIDE DEF w
<1>4. /\ Exact(popped, n - 1) /\ Lacks(popped, w, w.heap[n - 1])
      /\ \A x \in 0 .. n - 2 : g[x] = w.heap[x]
  BY <1>1, <1>3, PopBackIs DEF Swapped
<1> HIDE DEF popped
<1>5. w.heap[n - 1] = h[i]
  BY <1>1, <1>3 DEF Swapped
<1>6. Lacks(popped, q, h[i])
  BY <1>3, <1>4, <1>5 DEF Lacks, Swapped, Permuted
<1> HIDE DEF g, h
<1>7. \A x \in 0 .. n - 2 : g[x] = IF x = i THEN h[n - 1] ELSE h[x]
  <2> SUFFICES ASSUME NEW x \in 0 .. n - 2 PROVE g[x] = IF x = i THEN h[n - 1] ELSE h[x]
    OBVIOUS
  <2>1. x \in 0 .. n - 1 /\ x # n - 1
    OBVIOUS
  <2>2. w.heap[x] = IF x = i THEN h[n - 1] ELSE h[x]
    BY <1>3, <2>1 DEF Swapped, h
  <2> QED
    BY <1>4, <2>2
<1>8. \A p, c \in 0 .. n - 1 : Child(p, c) => h[p].expiration <= h[c].expiration
  BY DEF Ordered, h
<1>9. (n - 1) - 1 = n - 2
  BY <1>1
<1>10. CASE i = n - 1
  <2>1. r = popped
    BY <1>2, <1>10
  <2>2. ASSUME NEW p \in 0 .. n - 2, NEW c \in 0 .. n - 2, Child(p, c)
        PROVE  g[p].expiration <= g[c].expiration
    <3>1. p \in 0 .. n - 1 /\ c \in 0 .. n - 1 /\ p # i /\ c # i
      BY <1>10
    <3> QED
      BY <1>7, <1>8, <2>2, <3>1
  <2>3. Ordered(g, n - 1)
    BY <1>9, <2>2 DEF Ordered
  <2> QED
    BY <1>4, <1>6, <2>1, <2>3 DEF g, h
<1>11. CASE i # n - 1
  <2>1. i \in 0 .. n - 2 /\ i < n - 1
    BY <1>11
  <2>2. r = SiftDown(SiftUp(popped, i), i)
    BY <1>2, <2>1 DEF Settle
  <2>3. ASSUME NEW p \in 0 .. n - 2, NEW c \in 0 .. n - 2, Child(p, c), p # i, c # i
        PROVE  g[p].expiration <= g[c].expiration
    <3>1. p \in 0 .. n - 1 /\ c \in 0 .. n - 1
      OBVIOUS
    <3> QED
      BY <1>7, <1>8, <2>3, <3>1
  <2>4. ASSUME NEW p \in 0 .. n - 2, NEW c \in 0 .. n - 2, Child(p, i), Child(i, c)
        PROVE  g[p].expiration <= g[c].expiration
    <3>1. p \in 0 .. n - 1 /\ c \in 0 .. n - 1 /\ p # i /\ c # i
      BY <2>4 DEF Child
    <3>2. h[p].expiration <= h[i].expiration /\ h[i].expiration <= h[c].expiration
      BY <1>8, <2>4, <3>1
    <3>3. /\ h[p].expiration \in Nat /\ h[i].expiration \in Nat
          /\ h[c].expiration \in Nat
      BY <3>1 DEF Exact, Entry, h
    <3> QED
      BY <1>7, <3>1, <3>2, <3>3
  <2>5. Rising(g, n - 1, i, i)
    BY <1>9, <2>3, <2>4 DEF Rising
  <2> DEFINE u == SiftUp(popped, i)
             d == SiftDown(u, i)
  <2>6. i \in 0 .. (n - 1) - 1
    BY <1>9, <2>1
  <2>7. Exact(u, n - 1) /\ Permuted(popped, u) /\ Falling(u.heap, n - 1, i)
    BY <1>1, <1>4, <2>5, <2>6, SiftUpIs DEF g
  <2> HIDE DEF u
  <2>8. Exact(d, n - 1) /\ Permuted(u, d) /\ Ordered(d.heap, n - 1)
    BY <1>1, <2>6, <2>7, SiftDownIs
  <2> HIDE DEF d
  <2>9. Lacks(d, q, h[i])
    BY <1>6, <2>7, <2>8 DEF Lacks, Permuted
  <2> QED
    BY <2>2, <2>8, <2>9 DEF d, u, h
<1> QED
  BY <1>10, <1>11

(* push_back, the index and siftUp put an entry in, and the heap is in     *)
(* order again.                                                            *)
LEMMA PushIs ==
  ASSUME NEW q, NEW n \in Nat, Exact(q, n), Ordered(q.heap, n),
         NEW t, t.expiration \in Nat, t.id \in Nat, t.id \notin DOMAIN q.index
  PROVE  /\ Exact(Push(q, t), n + 1)
         /\ Ordered(Push(q, t).heap, n + 1)
         /\ Entries(Push(q, t))
              = Entries(q) \cup {[expiration |-> t.expiration, id |-> t.id]}
         /\ Push(q, t).timers = IF t.id \in DOMAIN q.timers THEN q.timers
                                ELSE With(q.timers, t.id, t)
         /\ Push(q, t).expired = q.expired
<1> DEFINE h == q.heap
           e == [expiration |-> t.expiration, id |-> t.id]
           g == [x \in 0 .. n |-> IF x = n THEN e ELSE h[x]]
           ind == [id \in DOMAIN q.index \cup {t.id} |-> IF id = t.id THEN n ELSE q.index[id]]
           tm == IF t.id \in DOMAIN q.timers THEN q.timers ELSE With(q.timers, t.id, t)
           w == [q EXCEPT !.heap = g, !.index = ind, !.timers = tm]
<1>1. /\ IsQueue(q) /\ h \in [0 .. n - 1 -> Entry]
      /\ \A x \in 0 .. n - 1 : h[x].id \in DOMAIN q.index /\ q.index[h[x].id] = x
      /\ \A id \in DOMAIN q.index : q.index[id] \in 0 .. n - 1 /\ h[q.index[id]].id = id
  BY DEF Exact
<1>2. Size(h) = n /\ DOMAIN h = 0 .. n - 1
  BY SizeIs
<1>3. (0 .. n - 1) \cup {n} = 0 .. n
  OBVIOUS
<1>4. With(h, n, e) = g
  BY <1>2, <1>3 DEF With
<1>5. With(q.index, t.id, n) = ind
  BY DEF With
<1>6. Push(q, t) = SiftUp(w, n)
  <2> HIDE DEF e
  <2> QED
    BY <1>2, <1>4, <1>5 DEF Push, e
<1>7. IsQueue(w) /\ w.heap = g /\ w.index = ind /\ w.timers = tm /\ w.expired = q.expired
  <2> HIDE DEF g, ind, tm
  <2> QED
    BY <1>1 DEF IsQueue
<1>8. e \in Entry /\ e.id = t.id
  BY DEF Entry
<1> HIDE DEF e
<1>9. g \in [0 .. n -> Entry] /\ (n + 1) - 1 = n
  <2>1. ASSUME NEW x \in 0 .. n, x # n PROVE x \in 0 .. n - 1
    BY <2>1
  <2> QED
    BY <1>1, <1>8, <2>1
<1>10. ASSUME NEW x \in 0 .. n PROVE g[x].id \in DOMAIN ind /\ ind[g[x].id] = x
  <2>1. CASE x = n
    BY <1>8, <2>1
  <2>2. CASE x # n
    <3>1. x \in 0 .. n - 1 /\ g[x] = h[x]
      BY <2>2
    <3>2. h[x].id \in DOMAIN q.index /\ q.index[h[x].id] = x
      BY <1>1, <3>1
    <3> QED
      BY <3>1, <3>2
  <2> QED
    BY <2>1, <2>2
<1>11. ASSUME NEW id \in DOMAIN ind PROVE ind[id] \in 0 .. n /\ g[ind[id]].id = id
  <2>1. CASE id = t.id
    BY <1>8, <2>1
  <2>2. CASE id # t.id
    <3>1. id \in DOMAIN q.index /\ ind[id] = q.index[id]
      BY <2>2
    <3>2. q.index[id] \in 0 .. n - 1 /\ h[q.index[id]].id = id
      BY <1>1, <3>1
    <3>3. g[q.index[id]] = h[q.index[id]] /\ q.index[id] \in 0 .. n
      BY <3>2
    <3> QED
      BY <3>1, <3>2, <3>3
  <2> QED
    BY <2>1, <2>2
<1>12. ind = [id \in DOMAIN ind |-> ind[id]]
  OBVIOUS
<1>13. Exact(w, n + 1)
  <2> HIDE DEF g, ind, w
  <2> QED
    BY <1>7, <1>9, <1>10, <1>11, <1>12 DEF Exact
<1>14. Entries(w) = Entries(q) \cup {e}
  <2>1. DOMAIN g = 0 .. n
    OBVIOUS
  <2>2. Entries(w) = {g[x] : x \in 0 .. n} /\ Entries(q) = {h[x] : x \in 0 .. n - 1}
    BY <1>2, <1>7, <2>1 DEF Entries, Range
  <2>3. ASSUME NEW x \in 0 .. n PROVE g[x] = e \/ \E y \in 0 .. n - 1 : g[x] = h[y]
    <3>1. CASE x = n
      BY <3>1
    <3>2. CASE x # n
      <4>1. x \in 0 .. n - 1 /\ g[x] = h[x]
        BY <3>2
      <4> QED
        BY <4>1
    <3> QED
      BY <3>1, <3>2
  <2>4. ASSUME NEW x \in 0 .. n - 1 PROVE \E y \in 0 .. n : h[x] = g[y]
    <3>1. x \in 0 .. n /\ g[x] = h[x]
      OBVIOUS
    <3> QED
      BY <3>1
  <2>5. n \in 0 .. n /\ g[n] = e
    OBVIOUS
  <2> HIDE DEF g, h, w
  <2> QED
    BY <2>2, <2>3, <2>4, <2>5
<1>15. Rising(g, n + 1, n, n)
  <2>1. ASSUME NEW p \in 0 .. n, NEW c \in 0 .. n, Child(p, c), c # n
        PROVE  g[p].expiration <= g[c].expiration
    <3>1. p \in 0 .. n - 1 /\ c \in 0 .. n - 1
      BY <2>1 DEF Child
    <3>2. h[p].expiration <= h[c].expiration
      BY <2>1, <3>1 DEF Ordered
    <3>3. g[p] = h[p] /\ g[c] = h[c]
      BY <3>1
    <3> QED
      BY <3>2, <3>3
  <2>2. \A c \in 0 .. n : ~ Child(n, c)
    BY DEF Child
  <2> HIDE DEF g
  <2> QED
    BY <1>9, <2>1, <2>2 DEF Rising
<1> DEFINE r == SiftUp(w, n)
<1>16. n \in 0 .. (n + 1) - 1 /\ n + 1 \in Nat
  OBVIOUS
<1> HIDE DEF w
<1>17. Exact(r, n + 1) /\ Permuted(w, r) /\ Falling(r.heap, n + 1, n)
  BY <1>7, <1>13, <1>15, <1>16, SiftUpIs
<1> HIDE DEF r
<1>18. Ordered(r.heap, n + 1)
  <2>1. ASSUME NEW p \in 0 .. n, NEW c \in 0 .. n, Child(p, c)
        PROVE  r.heap[p].expiration <= r.heap[c].expiration
    <3>1. p # n
      BY <2>1 DEF Child
    <3> QED
      BY <1>9, <1>17, <2>1, <3>1 DEF Falling
  <2> QED
    BY <1>9, <2>1 DEF Ordered
<1>19. Entries(r) = Entries(q) \cup {e} /\ r.timers = tm /\ r.expired = q.expired
  BY <1>7, <1>14, <1>17 DEF Permuted
<1>20. Push(q, t) = r
  BY <1>6 DEF r
<1> HIDE DEF tm
<1> QED
  BY <1>17, <1>18, <1>19, <1>20 DEF tm, e

(* No timer expires before the one in front.                               *)
LEMMA FrontIsLeast ==
  ASSUME NEW n \in Nat, n # 0, NEW h \in [0 .. n - 1 -> Entry], Ordered(h, n),
         NEW x \in 0 .. n - 1
  PROVE  h[0].expiration <= h[x].expiration
<1> DEFINE P == {m \in Nat : \A y \in 0 .. n - 1 :
                                 y <= m => h[0].expiration <= h[y].expiration}
<1>1. \A y \in 0 .. n - 1 : h[y].expiration \in Nat
  BY DEF Entry
<1>2. 0 \in P
  BY <1>1
<1>3. ASSUME NEW m \in Nat, m \in P PROVE m + 1 \in P
  <2> SUFFICES ASSUME m + 1 \in 0 .. n - 1 PROVE h[0].expiration <= h[m + 1].expiration
    BY <1>3
  <2> DEFINE p == Parent(m + 1)
  <2>1. p \in Nat /\ p < m + 1 /\ Child(p, m + 1)
    BY ParentIs
  <2> HIDE DEF p
  <2>2. p \in 0 .. n - 1 /\ 0 \in 0 .. n - 1 /\ p <= m
    BY <2>1
  <2>3. h[0].expiration <= h[p].expiration
    BY <1>3, <2>2
  <2>4. h[p].expiration <= h[m + 1].expiration
    BY <2>1, <2>2 DEF Ordered
  <2> QED
    BY <1>1, <2>2, <2>3, <2>4
<1>4. Nat \subseteq P
  <2> HIDE DEF P
  <2> QED
    BY <1>2, <1>3, Inductive
<1> QED
  BY <1>4

-----------------------------------------------------------------------------
(* The entries that stand for the timers of tm.                            *)
EntriesOf(tm) == {[expiration |-> tm[id].expiration, id |-> id] : id \in DOMAIN tm}

(* A queue of n timers as the loop keeps it between two calls: the heap is *)
(* in order, its index exact, and its entries are those of the timers.     *)
Whole(q, n) ==
    /\ Exact(q, n)
    /\ Ordered(q.heap, n)
    /\ \A id \in DOMAIN q.timers : q.timers[id] \in Timer /\ q.timers[id].id = id
    /\ q.timers = [id \in DOMAIN q.timers |-> q.timers[id]]
    /\ Entries(q) = EntriesOf(q.timers)

(* In such a queue the index, the heap and the timers have the same ids.   *)
LEMMA WholeIds ==
  ASSUME NEW q, NEW n \in Nat, Whole(q, n)
  PROVE  /\ DOMAIN q.index = DOMAIN q.timers
         /\ \A x \in 0 .. n - 1 :
                /\ q.heap[x].id \in DOMAIN q.timers
                /\ q.heap[x].expiration = q.timers[q.heap[x].id].expiration
                /\ q.heap[x] = [expiration |-> q.timers[q.heap[x].id].expiration,
                                id |-> q.heap[x].id]
<1>1. DOMAIN q.heap = 0 .. n - 1 /\ Entries(q) = {q.heap[x] : x \in 0 .. n - 1}
  BY SizeIs DEF Whole, Entries, Range
<1>2. Entries(q) = EntriesOf(q.timers)
  BY DEF Whole
<1>3. ASSUME NEW x \in 0 .. n - 1
      PROVE  /\ q.heap[x].id \in DOMAIN q.timers
             /\ q.heap[x].expiration = q.timers[q.heap[x].id].expiration
             /\ q.heap[x] = [expiration |-> q.timers[q.heap[x].id].expiration,
                             id |-> q.heap[x].id]
  <2>1. q.heap[x] \in EntriesOf(q.timers)
    BY <1>1, <1>2
  <2>2. PICK id \in DOMAIN q.timers :
            q.heap[x] = [expiration |-> q.timers[id].expiration, id |-> id]
    BY <2>1 DEF EntriesOf
  <2> QED
    BY <2>2
<1>4. ASSUME NEW id \in DOMAIN q.timers PROVE id \in DOMAIN q.index
  <2>1. [expiration |-> q.timers[id].expiration, id |-> id] \in Entries(q)
    BY <1>2 DEF EntriesOf
  <2>2. PICK x \in 0 .. n - 1 :
            q.heap[x] = [expiration |-> q.timers[id].expiration, id |-> id]
    BY <1>1, <2>1
  <2>3. q.heap[x].id = id
    BY <2>2
  <2> QED
    BY <2>3 DEF Whole, Exact
<1>5. ASSUME NEW id \in DOMAIN q.index PROVE id \in DOMAIN q.timers
  <2>1. q.index[id] \in 0 .. n - 1 /\ q.heap[q.index[id]].id = id
    BY DEF Whole, Exact
  <2> QED
    BY <1>3, <2>1
<1> QED
  BY <1>3, <1>4, <1>5

(* What eraseEntry() leaves, once the timer is erased as well.             *)
LEMMA WithoutIs ==
  ASSUME NEW q, NEW n \in Nat, Whole(q, n), NEW i \in 0 .. n - 1, NEW r,
         Exact(r, n - 1), Ordered(r.heap, n - 1),
         Entries(r) = Entries(q) \ {q.heap[i]},
         r.timers = Without(q.timers, {q.heap[i].id})
  PROVE  Whole(r, n - 1)
<1> DEFINE id == q.heap[i].id
<1>1. /\ id \in DOMAIN q.timers
      /\ q.heap[i] = [expiration |-> q.timers[id].expiration, id |-> id]
  BY WholeIds
<1> HIDE DEF id
<1>2. r.timers = [j \in DOMAIN q.timers \ {id} |-> q.timers[j]]
  BY DEF Without, Restrict, id
<1>3. EntriesOf(r.timers) = EntriesOf(q.timers) \ {q.heap[i]}
  <2>1. DOMAIN r.timers = DOMAIN q.timers \ {id}
    BY <1>2
  <2> DEFINE e(j) == [expiration |-> q.timers[j].expiration, id |-> j]
             D == DOMAIN q.timers \ {id}
  <2>2. ASSUME NEW j \in D PROVE [expiration |-> r.timers[j].expiration, id |-> j] = e(j)
    BY <1>2, <2>2
  <2>3. ASSUME NEW j \in D PROVE e(j) # e(id)
    <3>1. e(j).id = j /\ e(id).id = id
      OBVIOUS
    <3> QED
      BY <3>1
  <2>4. EntriesOf(r.timers) = {e(j) : j \in D}
    <3>1. EntriesOf(r.timers) = {[expiration |-> r.timers[j].expiration, id |-> j] : j \in D}
      BY <2>1 DEF EntriesOf
    <3> HIDE DEF e, D
    <3> QED
      BY <2>2, <3>1
  <2>5. EntriesOf(q.timers) = {e(j) : j \in DOMAIN q.timers}
    BY DEF EntriesOf
  <2>6. q.heap[i] = e(id)
    BY <1>1
  <2>7. DOMAIN q.timers = D \cup {id}
    BY <1>1
  <2> HIDE DEF e, D
  <2> QED
    BY <2>3, <2>4, <2>5, <2>6, <2>7
<1>4. \A j \in DOMAIN r.timers : r.timers[j] \in Timer /\ r.timers[j].id = j
  BY <1>2 DEF Whole
<1>5. r.timers = [j \in DOMAIN r.timers |-> r.timers[j]]
  BY <1>2
<1> QED
  BY <1>3, <1>4, <1>5 DEF Whole

(* cancel().                                                               *)
LEMMA CancelIs ==
  ASSUME NEW q, NEW n \in Nat, Whole(q, n), NEW id \in DOMAIN q.timers
  PROVE  LET r == [EraseEntry(q, q.index[id]) EXCEPT !.timers = Without(@, {id})] IN
         /\ n # 0 /\ Whole(r, n - 1)
         /\ r.timers = Without(q.timers, {id})
         /\ Entries(r) \subseteq Entries(q)
<1> DEFINE i == q.index[id]
           u == EraseEntry(q, i)
           r == [u EXCEPT !.timers = Without(u.timers, {id})]
<1>1. id \in DOMAIN q.index
  BY WholeIds
<1>2. i \in 0 .. n - 1 /\ q.heap[i].id = id /\ n # 0
  BY <1>1 DEF Whole, Exact
<1> HIDE DEF i
<1>3. Exact(u, n - 1) /\ Ordered(u.heap, n - 1) /\ Lacks(u, q, q.heap[i])
  BY <1>2, EraseIs DEF Whole
<1> HIDE DEF u
<1>4. /\ IsQueue(r) /\ r.heap = u.heap /\ r.index = u.index
      /\ r.timers = Without(q.timers, {id}) /\ r.expired = u.expired
  BY <1>3 DEF Exact, IsQueue, Lacks
<1> HIDE DEF r
<1>5. Exact(r, n - 1) /\ Ordered(r.heap, n - 1)
  BY <1>3, <1>4 DEF Exact
<1>6. Entries(r) = Entries(q) \ {q.heap[i]}
  BY <1>3, <1>4 DEF Entries, Lacks
<1>7. Whole(r, n - 1)
  BY <1>2, <1>4, <1>5, <1>6, WithoutIs
<1> QED
  BY <1>2, <1>4, <1>6, <1>7 DEF r, u, i

(* A timer with a new id goes into the queue.                              *)
LEMMA PushWhole ==
  ASSUME NEW q, NEW n \in Nat, Whole(q, n), NEW t \in Timer, t.id \notin DOMAIN q.timers
  PROVE  LET r == Push(q, t) IN
         /\ Whole(r, n + 1)
         /\ r.timers = With(q.timers, t.id, t)
         /\ Entries(r) = Entries(q) \cup {[expiration |-> t.expiration, id |-> t.id]}
<1> DEFINE r == Push(q, t)
           e == [expiration |-> t.expiration, id |-> t.id]
           tm == q.timers
<1>1. t.id \notin DOMAIN q.index
  BY WholeIds
<1>2. t.expiration \in Nat /\ t.id \in Nat
  BY DEF Timer
<1>3. Exact(q, n) /\ Ordered(q.heap, n)
  BY DEF Whole
<1>4. /\ Exact(r, n + 1) /\ Ordered(r.heap, n + 1)
      /\ Entries(r) = Entries(q) \cup {e}
      /\ r.timers = With(tm, t.id, t)
  BY <1>1, <1>2, <1>3, PushIs
<1> HIDE DEF r, e
<1>5. r.timers = [id \in DOMAIN tm \cup {t.id} |-> IF id = t.id THEN t ELSE tm[id]]
  BY <1>4 DEF With
<1>6. EntriesOf(r.timers) = EntriesOf(tm) \cup {e}
  <2>1. DOMAIN r.timers = DOMAIN tm \cup {t.id}
    BY <1>5
  <2>2. [expiration |-> r.timers[t.id].expiration, id |-> t.id] = e
    BY <1>5 DEF e
  <2>3. \A id \in DOMAIN tm : r.timers[id] = tm[id]
    BY <1>5
  <2> QED
    BY <2>1, <2>2, <2>3 DEF EntriesOf
<1>7. \A id \in DOMAIN r.timers : r.timers[id] \in Timer /\ r.timers[id].id = id
  BY <1>5 DEF Whole
<1>8. r.timers = [id \in DOMAIN r.timers |-> r.timers[id]]
  BY <1>5
<1>9. Whole(r, n + 1)
  BY <1>4, <1>6, <1>7, <1>8 DEF Whole
<1> QED
  BY <1>4, <1>9 DEF r, e

-----------------------------------------------------------------------------
(* One round of the loop that collects what is due.                        *)
LEMMA PoppedIs ==
  ASSUME NEW q, NEW n \in Nat, Whole(q, n), n # 0, IsDue(q.heap[0])
  PROVE  LET id == q.heap[0].id IN
         /\ Whole(Popped(q), n - 1)
         /\ Popped(q).timers = Without(q.timers, {id})
         /\ Popped(q).expired = Append(q.expired, q.timers[id])
         /\ Entries(Popped(q)) \subseteq Entries(q)
<1> DEFINE id == q.heap[0].id
           u == EraseEntry(q, 0)
           ind == Without(u.index, {id})
           ex == Append(u.expired, u.timers[id])
           tm == Without(u.timers, {id})
           r == [u EXCEPT !.index = ind, !.expired = ex, !.timers = tm]
<1>1. 0 \in 0 .. n - 1
  OBVIOUS
<1>2. /\ id \in DOMAIN q.timers /\ DOMAIN q.heap = 0 .. n - 1
      /\ q.heap[0] = [expiration |-> q.timers[id].expiration, id |-> id]
  BY <1>1, WholeIds, SizeIs DEF Whole
<1>3. Exact(u, n - 1) /\ Ordered(u.heap, n - 1) /\ Lacks(u, q, q.heap[0])
  BY <1>1, EraseIs DEF Whole
<1>4. Popped(q) = r
  <2>1. ~ Empty(q.heap)
    BY <1>1, <1>2 DEF Empty
  <2>2. id \in DOMAIN u.timers
    BY <1>2, <1>3 DEF Lacks
  <2> HIDE DEF u
  <2>3. Popped(q) = [u EXCEPT !.index = Without(@, {id}),
                              !.expired = IF id \in DOMAIN u.timers
                                          THEN Append(@, u.timers[id]) ELSE @,
                              !.timers = Without(@, {id})]
    BY <1>3, <2>1, <2>2 DEF Popped, u, Lacks
  <2> QED
    BY <2>2, <2>3
<1> HIDE DEF u
<1>5. id \notin DOMAIN u.index
  <2>1. Entries(u) = {u.heap[x] : x \in 0 .. n - 2}
    BY <1>3, SizeIs DEF Entries, Range
  <2> SUFFICES ASSUME id \in DOMAIN u.index PROVE FALSE
    OBVIOUS
  <2> DEFINE y == u.index[id]
  <2>2. y \in 0 .. n - 2 /\ u.heap[y].id = id
    <3>1. Exact(u, n - 1) /\ id \in DOMAIN u.index
      BY <1>3
    <3> HIDE DEF id
    <3>2. y \in 0 .. (n - 1) - 1 /\ u.heap[y].id = id
      BY <3>1 DEF Exact
    <3>3. (n - 1) - 1 = n - 2
      OBVIOUS
    <3> QED
      BY <3>2, <3>3
  <2>3. u.heap[y] \in Entries(q) /\ u.heap[y] # q.heap[0]
    BY <1>3, <2>1, <2>2 DEF Lacks
  <2>4. PICK x \in 0 .. n - 1 : u.heap[y] = q.heap[x]
    BY <1>2, <2>3 DEF Entries, Range
  <2>5. x = 0
    BY <1>1, <2>2, <2>4 DEF Whole, Exact
  <2> QED
    BY <2>3, <2>4, <2>5
<1>6. ind = u.index
  <2>1. DOMAIN u.index \ {id} = DOMAIN u.index
    BY <1>5
  <2>2. u.index = [j \in DOMAIN u.index |-> u.index[j]]
    BY <1>3 DEF Exact
  <2> QED
    BY <2>1, <2>2 DEF Without, Restrict
<1>7. /\ IsQueue(r) /\ r.heap = u.heap /\ r.index = ind
      /\ r.timers = tm /\ r.expired = ex
  <2>1. IsQueue(u)
    BY <1>3 DEF Exact
  <2> HIDE DEF ind, ex, tm
  <2> QED
    BY <2>1 DEF IsQueue
<1>8. tm = Without(q.timers, {id}) /\ ex = Append(q.expired, q.timers[id])
  BY <1>3 DEF Lacks
<1> HIDE DEF r, ind, tm, ex
<1>9. Exact(r, n - 1) /\ Ordered(r.heap, n - 1)
  BY <1>3, <1>6, <1>7 DEF Exact
<1>10. Entries(r) = Entries(q) \ {q.heap[0]}
  BY <1>3, <1>7 DEF Entries, Lacks
<1>11. Whole(r, n - 1)
  BY <1>1, <1>7, <1>8, <1>9, <1>10, WithoutIs
<1> QED
  BY <1>4, <1>7, <1>8, <1>10, <1>11

(* How far the loop has come from q0: what it took is due, is in order,    *)
(* and is no later than what is left.                                      *)
Gathered(q, q0) ==
    /\ Size(q.heap) \in Nat
    /\ Whole(q, Size(q.heap))
    /\ q.expired \in Seq(Timer)
    /\ \A a, b \in DOMAIN q.expired :
           a < b => /\ q.expired[a].id # q.expired[b].id
                    /\ q.expired[a].expiration <= q.expired[b].expiration
    /\ \A a \in DOMAIN q.expired :
           /\ q.expired[a].expiration <= now
           /\ q.expired[a].id \in DOMAIN q0.timers \ DOMAIN q.timers
           /\ q.expired[a] = q0.timers[q.expired[a].id]
           /\ \A e \in Entries(q) : q.expired[a].expiration <= e.expiration
    /\ DOMAIN q.timers \subseteq DOMAIN q0.timers
    /\ \A id \in DOMAIN q.timers : q.timers[id] = q0.timers[id]
    /\ \A id \in DOMAIN q0.timers \ DOMAIN q.timers :
           \E a \in DOMAIN q.expired : q.expired[a] = q0.timers[id]

(* A round takes the front timer if it is due; if not, nothing in the      *)
(* queue is.                                                               *)
LEMMA PoppedKeeps ==
  ASSUME now \in Nat, NEW q, NEW q0, Gathered(q, q0)
  PROVE  /\ Gathered(Popped(q), q0)
         /\ \/ Popped(q) = q /\ \A e \in Entries(q) : now < e.expiration
            \/ Size(Popped(q).heap) < Size(q.heap)
<1> DEFINE n == Size(q.heap)
           h == q.heap
           id == h[0].id
           r == Popped(q)
<1>1. n \in Nat /\ Whole(q, n)
  BY DEF Gathered
<1> HIDE DEF n
<1>2. DOMAIN h = 0 .. n - 1 /\ Entries(q) = {h[x] : x \in 0 .. n - 1}
  BY <1>1, SizeIs DEF Whole, Entries, Range
<1>3. h \in [0 .. n - 1 -> Entry] /\ Ordered(h, n)
  BY <1>1 DEF Whole, Exact
<1>4. CASE n = 0
  <2>1. Popped(q) = q
    BY <1>2, <1>4 DEF Popped, Empty
  <2>2. Entries(q) = {}
    BY <1>2, <1>4
  <2> QED
    BY <2>1, <2>2
<1>5. CASE n # 0 /\ ~ IsDue(h[0])
  <2>1. Popped(q) = q
    BY <1>5 DEF Popped
  <2>2. ASSUME NEW x \in 0 .. n - 1 PROVE now < h[x].expiration
    <3>1. h[0].expiration <= h[x].expiration
      BY <1>1, <1>3, <1>5, FrontIsLeast
    <3>2. h[0].expiration \in Nat /\ h[x].expiration \in Nat
      BY <1>1, <1>3, <1>5 DEF Entry
    <3> QED
      BY <1>5, <3>1, <3>2 DEF IsDue
  <2> QED
    BY <1>2, <2>1, <2>2
<1>6. CASE n # 0 /\ IsDue(h[0])
  <2> DEFINE t == q.timers[id]
  <2>1. /\ Whole(r, n - 1) /\ r.timers = Without(q.timers, {id})
        /\ r.expired = Append(q.expired, t)
        /\ Entries(r) \subseteq Entries(q)
    BY <1>1, <1>6, PoppedIs
  <2> HIDE DEF r
  <2>2. /\ id \in DOMAIN q.timers /\ 0 \in 0 .. n - 1
        /\ h[0] = [expiration |-> t.expiration, id |-> id]
    BY <1>1, <1>6, WholeIds
  <2>3. t \in Timer /\ t.id = id /\ t = q0.timers[id] /\ id \in DOMAIN q0.timers
    BY <1>1, <2>2 DEF Whole, Gathered
  <2>4. t.expiration = h[0].expiration /\ t.expiration <= now
    BY <1>6, <2>2 DEF IsDue
  <2> HIDE DEF id, t
  <2>5. Size(r.heap) = n - 1 /\ n - 1 \in Nat
    BY <1>1, <1>6, <2>1, SizeIs DEF Whole
  <2>6. r.timers = [j \in DOMAIN q.timers \ {id} |-> q.timers[j]]
    BY <2>1 DEF Without, Restrict
  <2> DEFINE s == q.expired
             w == r.expired
             l == Len(s)
  <2>7. s \in Seq(Timer)
    BY DEF Gathered
  <2>8. /\ w \in Seq(Timer) /\ l \in Nat /\ DOMAIN s = 1 .. l /\ DOMAIN w = 1 .. l + 1
        /\ w[l + 1] = t /\ \A a \in 1 .. l : w[a] = s[a]
    BY <2>1, <2>3, <2>7
  <2> HIDE DEF s, w, l
  <2>9. /\ \A a, b \in 1 .. l :
               a < b => /\ s[a].id # s[b].id
                        /\ s[a].expiration <= s[b].expiration
        /\ \A a \in 1 .. l :
               /\ s[a].expiration <= now
               /\ s[a].id \in DOMAIN q0.timers \ DOMAIN q.timers
               /\ s[a] = q0.timers[s[a].id]
               /\ \A e \in Entries(q) : s[a].expiration <= e.expiration
    BY <2>8 DEF Gathered, s
  <2>10. h[0] \in Entries(q)
    BY <1>2, <2>2
  <2>11. ASSUME NEW a \in 1 .. l + 1, NEW b \in 1 .. l + 1, a < b
         PROVE  w[a].id # w[b].id /\ w[a].expiration <= w[b].expiration
    <3>1. a \in 1 .. l /\ w[a] = s[a]
      BY <2>8, <2>11
    <3>2. CASE b = l + 1
      <4>1. w[b] = t
        BY <2>8, <3>2
      <4>2. s[a].id # id
        BY <2>2, <2>9, <3>1
      <4> QED
        BY <2>3, <2>4, <2>9, <2>10, <3>1, <4>1, <4>2
    <3>3. CASE b # l + 1
      <4>1. b \in 1 .. l /\ w[b] = s[b]
        BY <2>8, <3>3
      <4> QED
        BY <2>9, <2>11, <3>1, <4>1
    <3> QED
      BY <3>2, <3>3
  <2>12. ASSUME NEW a \in 1 .. l + 1
         PROVE  /\ w[a].expiration <= now
                /\ w[a].id \in DOMAIN q0.timers \ DOMAIN r.timers
                /\ w[a] = q0.timers[w[a].id]
                /\ \A e \in Entries(r) : w[a].expiration <= e.expiration
    <3>1. CASE a = l + 1
      <4>1. w[a] = t
        BY <2>8, <3>1
      <4>2. ASSUME NEW e \in Entries(r) PROVE t.expiration <= e.expiration
        <5>1. PICK x \in 0 .. n - 1 : e = h[x]
          BY <1>2, <2>1
        <5> QED
          BY <1>1, <1>3, <1>6, <2>4, <5>1, FrontIsLeast
      <4> QED
        BY <2>3, <2>4, <2>6, <4>1, <4>2
    <3>2. CASE a # l + 1
      <4>1. a \in 1 .. l /\ w[a] = s[a]
        BY <2>8, <3>2
      <4> QED
        BY <2>1, <2>6, <2>9, <4>1
    <3> QED
      BY <3>1, <3>2
  <2>13. DOMAIN r.timers \subseteq DOMAIN q0.timers
    BY <2>6 DEF Gathered
  <2>14. \A j \in DOMAIN r.timers : r.timers[j] = q0.timers[j]
    BY <2>6 DEF Gathered
  <2>15. ASSUME NEW j \in DOMAIN q0.timers \ DOMAIN r.timers
         PROVE  \E a \in 1 .. l + 1 : w[a] = q0.timers[j]
    <3>1. CASE j = id
      BY <2>3, <2>8, <3>1
    <3>2. CASE j # id
      <4>1. j \in DOMAIN q0.timers \ DOMAIN q.timers
        BY <2>6, <3>2
      <4>2. PICK a \in 1 .. l : s[a] = q0.timers[j]
        BY <2>8, <4>1 DEF Gathered, s
      <4>3. a \in 1 .. l + 1 /\ w[a] = q0.timers[j]
        BY <2>8, <4>2
      <4> QED
        BY <4>3
    <3> QED
      BY <3>1, <3>2
  <2>16. Gathered(r, q0)
    BY <2>1, <2>5, <2>8, <2>11, <2>12, <2>13, <2>14, <2>15 DEF Gathered, w
  <2>17. Size(r.heap) < n
    BY <1>1, <2>5
  <2> QED
    BY <2>16, <2>17 DEF n, r
<1> QED
  BY <1>4, <1>5, <1>6

(* The loop takes all that is due and nothing else.                        *)
LEMMA PopDueIs ==
  ASSUME now \in Nat, NEW q0, NEW n \in Nat, Whole(q0, n), q0.expired = <<>>
  PROVE  /\ Gathered(PopDue(q0), q0)
         /\ \A e \in Entries(PopDue(q0)) : now < e.expiration
<1>1. Size(q0.heap) = n
  BY SizeIs DEF Whole
<1>2. PICK f : /\ f[0] = q0
               /\ \A k \in 0 .. n - 1 : f[k + 1] = Popped(f[k])
               /\ Rounds(Popped, q0, n) = f[n]
  BY PopRounds
<1> DEFINE Good(q, k) == /\ Gathered(q, q0)
                         /\ \/ Popped(q) = q /\ \A e \in Entries(q) : now < e.expiration
                            \/ Size(q.heap) + k <= n
           P == {k \in Nat : k <= n => Good(f[k], k)}
<1>3. 0 \in P
  <2>1. q0.expired \in Seq(Timer) /\ DOMAIN q0.expired = {}
    OBVIOUS
  <2>2. Gathered(q0, q0)
    BY <1>1, <2>1 DEF Gathered
  <2> QED
    BY <1>1, <1>2, <2>2
<1>4. ASSUME NEW k \in Nat, k \in P PROVE k + 1 \in P
  <2> SUFFICES ASSUME k + 1 <= n PROVE Good(f[k + 1], k + 1)
    OBVIOUS
  <2> DEFINE q == f[k]
             r == Popped(q)
  <2>1. Good(q, k)
    BY <1>4
  <2>2. f[k + 1] = r
    BY <1>2
  <2> HIDE DEF q
  <2>3. /\ Gathered(r, q0)
        /\ \/ r = q /\ \A e \in Entries(q) : now < e.expiration
           \/ Size(r.heap) < Size(q.heap)
    BY <2>1, PoppedKeeps
  <2>4. Good(r, k + 1)
    <3>1. CASE r = q /\ \A e \in Entries(q) : now < e.expiration
      BY <2>3, <3>1
    <3>2. CASE ~ (r = q /\ \A e \in Entries(q) : now < e.expiration)
      <4>1. Size(r.heap) < Size(q.heap) /\ Size(q.heap) + k <= n
        BY <2>1, <2>3, <3>2
      <4>2. Size(r.heap) \in Nat /\ Size(q.heap) \in Nat
        BY <2>1, <2>3 DEF Gathered
      <4> QED
        BY <2>3, <4>1, <4>2
    <3> QED
      BY <3>1, <3>2
  <2> QED
    BY <2>2, <2>4
<1>5. Good(f[n], n)
  <2> HIDE DEF Good
  <2>1. Nat \subseteq P
    <3> HIDE DEF P
    <3> QED
      BY <1>3, <1>4, Inductive
  <2> QED
    BY <2>1
<1> DEFINE q == f[n]
<1>6. PopDue(q0) = q
  BY <1>1, <1>2 DEF PopDue
<1> HIDE DEF q
<1>7. Good(q, n)
  BY <1>5 DEF q
<1>8. CASE Popped(q) = q /\ \A e \in Entries(q) : now < e.expiration
  BY <1>6, <1>7, <1>8
<1>9. CASE Size(q.heap) + n <= n
  <2>1. Size(q.heap) = 0
    BY <1>7, <1>9 DEF Gathered
  <2>2. Whole(q, 0)
    BY <1>7, <2>1 DEF Gathered
  <2>3. Entries(q) = {}
    BY <2>2, SizeIs DEF Whole, Entries, Range
  <2> QED
    BY <1>6, <1>7, <2>3
<1> QED
  BY <1>7, <1>8, <1>9

-----------------------------------------------------------------------------
(* What TypeOK says but for the queue.                                     *)
StateInv ==
    /\ now \in 1 .. MaxTime
    /\ nextId \in 1 .. MaxTimers + 1
    /\ armed \in Nat
    /\ pc \in {"idle", "returned", "reading", "running"}
    /\ runNow \in 0 .. MaxTime
    /\ expired \in Seq(Timer)
    /\ thrown \in BOOLEAN

(* The queue is whole.                                                     *)
QueueInv == Size(heap) \in Nat /\ Whole(Queue, Size(heap))

(* A timer is in the queue or being run, once, and its id has been given.  *)
IdInv ==
    /\ \A id \in DOMAIN timers : id < nextId
    /\ \A a \in DOMAIN expired : expired[a].id < nextId /\ expired[a].id \notin DOMAIN timers
    /\ \A a, b \in DOMAIN expired : a < b => expired[a].id # expired[b].id

(* handleRead() runs what it took at the time it read.                     *)
RunInv ==
    /\ pc # "running" => expired = <<>>
    /\ pc = "running" => runNow \in 1 .. now

(* No timer expires at 0, the time that disarms the timerfd, or before the *)
(* alarm.                                                                  *)
AlarmInv ==
    /\ \A id \in DOMAIN timers : timers[id].expiration # 0
    /\ pc = "idle" /\ ~ thrown =>
           \A id \in DOMAIN timers : armed # 0 /\ armed <= timers[id].expiration

(* The inductive invariant.  FrontArmed looks at the front only: that it   *)
(* is kept when the front is cancelled needs the alarm to be no later than *)
(* any timer (AlarmInv), which follows again at the handler's end from the *)
(* heap order.  The heap order of one step needs that of the last, through *)
(* every sift, with the exact index (QueueInv): cancel() finds its entry   *)
(* there.  A repeating timer can be pushed with its old id since no other  *)
(* has it (IdInv).                                                         *)
IInv == StateInv /\ QueueInv /\ IdInv /\ RunInv /\ AlarmInv

-----------------------------------------------------------------------------
(* The record the operators work on.                                       *)
LEMMA QueueFields ==
  /\ Queue.heap = heap /\ Queue.index = index /\ Queue.timers = timers
  /\ Queue.expired = <<>>
  BY DEF Queue

(* The operators do not look at the timers that are being run.             *)
LEMMA WholeSame ==
  ASSUME NEW q, NEW r, NEW n \in Nat, Whole(q, n), IsQueue(r),
         r.heap = q.heap, r.index = q.index, r.timers = q.timers
  PROVE  Whole(r, n)
  BY DEF Whole, Exact, Entries

(* The queue an action leaves is the one its operator returns.             *)
LEMMA BecomesIs ==
  ASSUME NEW q, NEW n \in Nat, Whole(q, n), Becomes(q)
  PROVE  QueueInv'
<1> DEFINE r == [heap |-> heap', index |-> index', timers |-> timers', expired |-> <<>>]
<1>1. heap' = q.heap /\ index' = q.index /\ timers' = q.timers
  BY DEF Becomes
<1>2. /\ IsQueue(r) /\ r.heap = q.heap /\ r.index = q.index /\ r.timers = q.timers
  BY <1>1 DEF IsQueue
<1>3. Queue' = r
  BY DEF Queue
<1> HIDE DEF r
<1>4. Whole(r, n)
  BY <1>2, WholeSame
<1>5. Size(q.heap) = n
  BY SizeIs DEF Whole
<1> QED
  BY <1>1, <1>3, <1>4, <1>5 DEF QueueInv

(* An action that leaves the three structures alone keeps the queue whole. *)
LEMMA QueueKept ==
  ASSUME QueueInv, UNCHANGED <<heap, index, timers>>
  PROVE  QueueInv'
  BY DEF QueueInv, Queue

(* The constructor's state.                                                *)
LEMMA InitIInv ==
  ASSUME Init
  PROVE  IInv
<1> USE TimerAssumption
<1>1. StateInv
  <2>1. expired \in Seq(Timer)
    <3>1. expired = <<>>
      BY DEF Init
    <3> QED
      BY <3>1
  <2>2. now \in 1 .. MaxTime /\ nextId \in 1 .. MaxTimers + 1 /\ runNow \in 0 .. MaxTime
    BY DEF Init, FirstId
  <2> QED
    BY <2>1, <2>2 DEF Init, StateInv
<1>2. DOMAIN heap = {} /\ DOMAIN index = {} /\ DOMAIN timers = {}
  BY DEF Init
<1>3. heap \in [0 .. 0 - 1 -> Entry]
  BY <1>2 DEF Init
<1>4. Size(heap) = 0
  BY <1>2, FS_EmptySet DEF Size
<1>5. /\ index = [id \in DOMAIN index |-> index[id]]
      /\ timers = [id \in DOMAIN timers |-> timers[id]]
  BY <1>2 DEF Init
<1>6. IsQueue(Queue)
  BY DEF IsQueue, Queue
<1>7. Exact(Queue, 0)
  BY <1>2, <1>3, <1>5, <1>6, QueueFields DEF Exact
<1>8. Entries(Queue) = EntriesOf(Queue.timers)
  BY <1>2, QueueFields DEF Entries, EntriesOf, Range
<1>9. Whole(Queue, 0)
  BY <1>2, <1>5, <1>7, <1>8, QueueFields DEF Whole, Ordered
<1>10. QueueInv
  BY <1>4, <1>9 DEF QueueInv
<1>11. IdInv /\ RunInv /\ AlarmInv
  BY <1>2 DEF Init, IdInv, RunInv, AlarmInv
<1> QED
  BY <1>1, <1>10, <1>11 DEF IInv

(* The clock.                                                              *)
LEMMA TickKeeps ==
  ASSUME IInv, Tick
  PROVE  IInv'
<1> USE TimerAssumption
<1>1. StateInv'
  BY DEF IInv, StateInv, Tick
<1>2. QueueInv'
  BY QueueKept DEF IInv, Tick
<1>3. IdInv' /\ AlarmInv'
  BY DEF IInv, IdInv, AlarmInv, Tick
<1>4. RunInv'
  BY DEF IInv, StateInv, RunInv, Tick
<1> QED
  BY <1>1, <1>2, <1>3, <1>4 DEF IInv

(* epoll_wait returns: the queue is not touched.                           *)
LEMMA EpollReturnKeeps ==
  ASSUME IInv, EpollReturn
  PROVE  IInv'
<1>1. StateInv'
  BY DEF IInv, StateInv, EpollReturn
<1>2. QueueInv'
  BY QueueKept DEF IInv, EpollReturn
<1>3. IdInv' /\ RunInv' /\ AlarmInv'
  BY DEF IInv, IdInv, RunInv, AlarmInv, EpollReturn
<1> QED
  BY <1>1, <1>2, <1>3 DEF IInv

(* read() disarms the timerfd; the loop is not asleep.                     *)
LEMMA ReadTimerfdKeeps ==
  ASSUME IInv, ReadTimerfd
  PROVE  IInv'
<1>1. StateInv'
  BY DEF IInv, StateInv, ReadTimerfd
<1>2. QueueInv'
  BY QueueKept DEF IInv, ReadTimerfd
<1>3. IdInv' /\ RunInv' /\ AlarmInv'
  BY DEF IInv, IdInv, RunInv, AlarmInv, ReadTimerfd
<1> QED
  BY <1>1, <1>2, <1>3 DEF IInv

(* A callback that throws leaves the queue whole, though without an alarm. *)
LEMMA CallbackThrowsKeeps ==
  ASSUME IInv, CallbackThrows
  PROVE  IInv'
<1>1. StateInv'
  BY TimerAssumption DEF IInv, StateInv, CallbackThrows
<1>2. QueueInv'
  BY QueueKept DEF IInv, CallbackThrows
<1>3. IdInv' /\ RunInv' /\ AlarmInv'
  BY DEF IInv, IdInv, RunInv, AlarmInv, CallbackThrows
<1> QED
  BY <1>1, <1>2, <1>3 DEF IInv

(* The end of handleRead() sets the alarm to the front's time, which is    *)
(* the earliest.                                                           *)
LEMMA HandlerEndsKeeps ==
  ASSUME IInv, HandlerEnds
  PROVE  IInv'
<1> DEFINE n == Size(heap)
<1>1. n \in Nat /\ Whole(Queue, n)
  BY DEF IInv, QueueInv
<1> HIDE DEF n
<1>2. DOMAIN heap = 0 .. n - 1 /\ heap \in [0 .. n - 1 -> Entry] /\ Ordered(heap, n)
  BY <1>1, QueueFields, SizeIs DEF Whole, Exact
<1>3. ~ Empty(heap) => n # 0 /\ 0 \in 0 .. n - 1
  BY <1>1, <1>2 DEF Empty
<1>4. \A x \in 0 .. n - 1 :
          heap[x].id \in DOMAIN timers /\ heap[x].expiration = timers[heap[x].id].expiration
  BY <1>1, QueueFields, WholeIds
<1>5. StateInv'
  <2>1. Rearmed \in Nat
    BY <1>2, <1>3 DEF Rearmed, Entry, IInv, StateInv
  <2> QED
    BY <2>1, TimerAssumption DEF IInv, StateInv, HandlerEnds
<1>6. QueueInv'
  BY QueueKept DEF IInv, HandlerEnds
<1>7. IdInv' /\ RunInv'
  BY DEF IInv, IdInv, RunInv, HandlerEnds
<1>8. AlarmInv'
  <2>1. ASSUME NEW id \in DOMAIN timers PROVE Rearmed # 0 /\ Rearmed <= timers[id].expiration
    <3>1. index[id] \in 0 .. n - 1 /\ heap[index[id]].id = id
      BY <1>1, QueueFields, WholeIds DEF Whole, Exact
    <3>2. n # 0 /\ 0 \in 0 .. n - 1 /\ ~ Empty(heap)
      BY <1>1, <1>2, <3>1 DEF Empty
    <3>3. heap[0].expiration <= heap[index[id]].expiration
      BY <1>1, <1>2, <3>1, <3>2, FrontIsLeast
    <3>4. heap[index[id]].expiration = timers[id].expiration
      BY <1>4, <3>1
    <3>5. heap[0].expiration # 0
      BY <1>4, <3>2 DEF IInv, AlarmInv
    <3> QED
      BY <3>2, <3>3, <3>4, <3>5 DEF Rearmed
  <2> QED
    BY <2>1 DEF IInv, AlarmInv, HandlerEnds
<1> QED
  BY <1>5, <1>6, <1>7, <1>8 DEF IInv

(* The queue as the actions find it.                                       *)
LEMMA QueueIs ==
  ASSUME IInv
  PROVE  /\ Size(heap) \in Nat
         /\ Whole(Queue, Size(heap))
         /\ heap \in [0 .. Size(heap) - 1 -> Entry]
         /\ Ordered(heap, Size(heap))
         /\ DOMAIN heap = 0 .. Size(heap) - 1
         /\ DOMAIN index = DOMAIN timers
         /\ \A x \in 0 .. Size(heap) - 1 :
                heap[x].id \in DOMAIN timers /\ heap[x].expiration = timers[heap[x].id].expiration
         /\ \A id \in DOMAIN timers :
                index[id] \in 0 .. Size(heap) - 1 /\ heap[index[id]].id = id
         /\ \A id \in DOMAIN timers : timers[id] \in Timer /\ timers[id].id = id
<1> DEFINE n == Size(heap)
<1>1. n \in Nat /\ Whole(Queue, n)
  BY DEF IInv, QueueInv
<1> HIDE DEF n
<1>2. heap \in [0 .. n - 1 -> Entry] /\ Ordered(heap, n)
  BY <1>1, QueueFields DEF Whole, Exact
<1>3. DOMAIN index = DOMAIN timers
  BY <1>1, QueueFields, WholeIds
<1>4. \A x \in 0 .. n - 1 :
          heap[x].id \in DOMAIN timers /\ heap[x].expiration = timers[heap[x].id].expiration
  BY <1>1, QueueFields, WholeIds
<1>5. \A id \in DOMAIN timers : index[id] \in 0 .. n - 1 /\ heap[index[id]].id = id
  BY <1>1, <1>3, QueueFields DEF Whole, Exact
<1>6. \A id \in DOMAIN timers : timers[id] \in Timer /\ timers[id].id = id
  BY <1>1, QueueFields DEF Whole
<1> QED
  BY <1>1, <1>2, <1>3, <1>4, <1>5, <1>6 DEF n

(* The front of the queue is no later than any timer.                      *)
LEMMA FrontOfTimers ==
  ASSUME IInv, NEW id \in DOMAIN timers
  PROVE  /\ ~ Empty(heap)
         /\ heap[0].expiration \in Nat
         /\ heap[0].expiration <= timers[id].expiration
         /\ \E first \in DOMAIN timers : heap[0].expiration = timers[first].expiration
<1> DEFINE n == Size(heap)
           x == index[id]
<1>1. /\ n \in Nat /\ heap \in [0 .. n - 1 -> Entry] /\ Ordered(heap, n)
      /\ DOMAIN heap = 0 .. n - 1
      /\ x \in 0 .. n - 1 /\ heap[x].id = id
      /\ \A y \in 0 .. n - 1 :
             heap[y].id \in DOMAIN timers /\ heap[y].expiration = timers[heap[y].id].expiration
  BY QueueIs
<1> HIDE DEF n, x
<1>2. n # 0 /\ 0 \in 0 .. n - 1 /\ ~ Empty(heap)
  BY <1>1 DEF Empty
<1>3. heap[0].expiration <= heap[x].expiration
  BY <1>1, <1>2, FrontIsLeast
<1> QED
  BY <1>1, <1>2, <1>3 DEF Entry

(* addTimer() moves the alarm only if the new timer is earlier than all.   *)
LEMMA AddTimerKeeps ==
  ASSUME IInv, NEW k \in Kinds, AddTimer(now + k[1], k[2])
  PROVE  IInv'
<1> USE TimerAssumption
<1> DEFINE e == now + k[1]
           t == [id |-> nextId, expiration |-> e, interval |-> k[2]]
           n == Size(heap)
           r == Push(Queue, t)
<1>1. k[1] \in Nat /\ k[2] \in Nat /\ e \in Nat /\ e # 0
  BY DEF IInv, StateInv
<1> HIDE DEF e
<1>2. /\ UserCode /\ nextId < FirstId + MaxTimers /\ Becomes(r) /\ nextId' = nextId + 1
      /\ armed' = IF EarliestChanged(e) THEN e ELSE armed
      /\ UNCHANGED <<now, pc, runNow, expired, thrown>>
  BY DEF AddTimer, e
<1>3. nextId \in 1 .. MaxTimers /\ t \in Timer
  BY <1>1, <1>2 DEF IInv, StateInv, FirstId, Timer
<1>4. t.id = nextId /\ t.expiration = e
  OBVIOUS
<1> HIDE DEF t
<1>5. nextId \notin DOMAIN timers
  BY <1>3 DEF IInv, IdInv
<1>6. n \in Nat /\ Whole(Queue, n)
  BY QueueIs
<1> HIDE DEF n
<1>7. Whole(r, n + 1) /\ r.timers = With(timers, nextId, t)
  BY <1>3, <1>4, <1>5, <1>6, QueueFields, PushWhole
<1> HIDE DEF r
<1>8. timers' = [id \in DOMAIN timers \cup {nextId} |-> IF id = nextId THEN t ELSE timers[id]]
  BY <1>2, <1>7 DEF Becomes, With
<1>9. StateInv'
  BY <1>1, <1>2, <1>3 DEF IInv, StateInv
<1>10. QueueInv'
  BY <1>2, <1>6, <1>7, BecomesIs
<1>11. IdInv'
  <2>1. ASSUME NEW id \in DOMAIN timers' PROVE id < nextId'
    <3>1. CASE id = nextId
      BY <1>2, <1>3, <3>1
    <3>2. CASE id # nextId
      <4>1. id \in DOMAIN timers
        BY <1>8, <3>2
      <4>2. id < nextId /\ id \in Nat
        BY <4>1, QueueIs DEF IInv, IdInv, Timer
      <4> QED
        BY <1>2, <1>3, <4>2
    <3> QED
      BY <3>1, <3>2
  <2>2. ASSUME NEW a \in DOMAIN expired
        PROVE  expired[a].id < nextId' /\ expired[a].id \notin DOMAIN timers'
    <3>1. expired[a].id < nextId /\ expired[a].id \notin DOMAIN timers
      BY DEF IInv, IdInv
    <3>2. expired[a].id \in Nat
      <4>1. expired \in Seq(Timer)
        BY DEF IInv, StateInv
      <4>2. expired[a] \in Timer
        BY <4>1
      <4> QED
        BY <4>2 DEF Timer
    <3> QED
      BY <1>2, <1>3, <1>8, <3>1, <3>2
  <2> QED
    BY <1>2, <2>1, <2>2 DEF IInv, IdInv
<1>12. RunInv'
  BY <1>2 DEF IInv, RunInv
<1>13. AlarmInv'
  <2>1. \A id \in DOMAIN timers' : timers'[id].expiration # 0
    BY <1>1, <1>4, <1>8 DEF IInv, AlarmInv
  <2>2. ASSUME pc = "idle", ~ thrown, NEW id \in DOMAIN timers'
        PROVE  armed' # 0 /\ armed' <= timers'[id].expiration
    <3>1. \A j \in DOMAIN timers : armed # 0 /\ armed <= timers[j].expiration
      BY <2>2 DEF IInv, AlarmInv
    <3>2. \A j \in DOMAIN timers : timers[j].expiration \in Nat
      BY QueueIs DEF Timer
    <3>3. armed \in Nat
      BY DEF IInv, StateInv
    <3>4. CASE EarliestChanged(e)
      <4>1. armed' = e
        BY <1>2, <3>4
      <4>2. CASE id = nextId
        BY <1>1, <1>4, <1>8, <4>1, <4>2
      <4>3. CASE id # nextId
        <5>1. id \in DOMAIN timers /\ timers'[id] = timers[id]
          BY <1>8, <2>2, <4>3
        <5>2. e < heap[0].expiration
          BY <3>4, <5>1, FrontOfTimers DEF EarliestChanged
        <5>3. heap[0].expiration \in Nat /\ heap[0].expiration <= timers[id].expiration
          BY <5>1, FrontOfTimers
        <5> QED
          BY <1>1, <3>2, <4>1, <5>1, <5>2, <5>3
      <4> QED
        BY <4>2, <4>3
    <3>5. CASE ~ EarliestChanged(e)
      <4>1. armed' = armed /\ ~ Empty(heap) /\ ~ (e < heap[0].expiration)
        BY <1>2, <3>5 DEF EarliestChanged
      <4>2. PICK first \in DOMAIN timers : heap[0].expiration = timers[first].expiration
        <5>1. 0 \in 0 .. n - 1
          BY <1>6, <4>1, QueueIs DEF Empty, n
        <5> QED
          BY <5>1, QueueIs DEF n
      <4>3. armed # 0 /\ armed <= e
        BY <1>1, <3>1, <3>2, <3>3, <4>1, <4>2
      <4> QED
        BY <1>4, <1>8, <2>2, <3>1, <4>1, <4>3
    <3> QED
      BY <3>4, <3>5
  <2> QED
    BY <1>2, <2>1, <2>2 DEF AlarmInv
<1> QED
  BY <1>9, <1>10, <1>11, <1>12, <1>13 DEF IInv

(* cancel() leaves the alarm alone, which then is early at worst.          *)
LEMMA CancelKeeps ==
  ASSUME IInv, NEW id \in 1 .. MaxTimers, Cancel(id)
  PROVE  IInv'
<1> DEFINE n == Size(heap)
           r == [EraseEntry(Queue, Queue.index[id]) EXCEPT !.timers = Without(@, {id})]
<1>1. n \in Nat /\ Whole(Queue, n) /\ DOMAIN index = DOMAIN timers
  BY QueueIs
<1> HIDE DEF n
<1>2. /\ UserCode /\ id \in DOMAIN timers /\ Becomes(r)
      /\ UNCHANGED <<now, nextId, armed, pc, runNow, expired, thrown>>
  BY <1>1, QueueFields DEF Cancel
<1>3. n # 0 /\ Whole(r, n - 1) /\ r.timers = Without(timers, {id})
  BY <1>1, <1>2, QueueFields, CancelIs
<1> HIDE DEF r
<1>4. timers' = [j \in DOMAIN timers \ {id} |-> timers[j]]
  BY <1>2, <1>3 DEF Becomes, Without, Restrict
<1>5. StateInv'
  BY <1>2 DEF IInv, StateInv
<1>6. QueueInv'
  <2>1. n - 1 \in Nat
    BY <1>1, <1>3
  <2> QED
    BY <1>2, <1>3, <2>1, BecomesIs
<1>7. IdInv' /\ RunInv'
  BY <1>2, <1>4 DEF IInv, IdInv, RunInv
<1>8. AlarmInv'
  BY <1>2, <1>4 DEF IInv, AlarmInv
<1> QED
  BY <1>5, <1>6, <1>7, <1>8 DEF IInv

(* What is collected leaves the queue, each timer once.                    *)
LEMMA CollectKeeps ==
  ASSUME IInv, Collect
  PROVE  IInv'
<1> USE TimerAssumption
<1> DEFINE n == Size(heap)
           r == PopDue(Queue)
<1>1. n \in Nat /\ Whole(Queue, n) /\ now \in Nat
  BY QueueIs DEF IInv, StateInv
<1> HIDE DEF n
<1>2. /\ Becomes(r) /\ expired' = r.expired /\ runNow' = now /\ pc' = "running"
      /\ pc = "reading"
      /\ UNCHANGED <<now, nextId, armed, thrown>>
  BY DEF Collect
<1>3. Gathered(r, Queue)
  BY <1>1, QueueFields, PopDueIs
<1> HIDE DEF r
<1>4. timers' = r.timers
  BY <1>2 DEF Becomes
<1>5. StateInv'
  <2>1. expired' \in Seq(Timer)
    BY <1>2, <1>3 DEF Gathered
  <2> QED
    BY <1>2, <2>1 DEF IInv, StateInv
<1>6. QueueInv'
  BY <1>2, <1>3, BecomesIs DEF Gathered
<1>7. IdInv'
  <2>1. DOMAIN timers' \subseteq DOMAIN timers
    BY <1>3, <1>4, QueueFields DEF Gathered
  <2>2. ASSUME NEW a \in DOMAIN expired'
        PROVE  expired'[a].id \in DOMAIN timers /\ expired'[a].id \notin DOMAIN timers'
    BY <1>2, <1>3, <1>4, QueueFields DEF Gathered
  <2>3. \A a, b \in DOMAIN expired' : a < b => expired'[a].id # expired'[b].id
    BY <1>2, <1>3 DEF Gathered
  <2> QED
    BY <1>2, <2>1, <2>2, <2>3 DEF IInv, IdInv
<1>8. RunInv'
  BY <1>2 DEF IInv, StateInv, RunInv
<1>9. AlarmInv'
  <2>1. \A id \in DOMAIN timers' : id \in DOMAIN timers /\ timers'[id] = timers[id]
    BY <1>3, <1>4, QueueFields DEF Gathered
  <2> QED
    BY <1>2, <2>1 DEF IInv, AlarmInv
<1> QED
  BY <1>5, <1>6, <1>7, <1>8, <1>9 DEF IInv

(* A repeating timer comes back with its id, a later time and no alarm of  *)
(* its own: the handler's end sets it.                                     *)
LEMMA CallbackReturnsKeeps ==
  ASSUME IInv, CallbackReturns
  PROVE  IInv'
<1> USE TimerAssumption
<1> DEFINE t == Head(expired)
           u == Restart(t)
           l == Len(expired)
<1>1. expired \in Seq(Timer) /\ expired # <<>>
  BY DEF IInv, StateInv, CallbackReturns
<1>2. /\ t \in Timer /\ t = expired[1] /\ l \in Nat \ {0} /\ DOMAIN expired = 1 .. l
      /\ Tail(expired) \in Seq(Timer) /\ DOMAIN Tail(expired) = 1 .. l - 1
      /\ \A a \in 1 .. l - 1 : Tail(expired)[a] = expired[a + 1]
  BY <1>1
<1> HIDE DEF t, l
<1>3. /\ pc = "running" /\ expired' = Tail(expired)
      /\ IF Repeats(t) THEN Becomes(Push(Queue, u)) ELSE UNCHANGED <<heap, index, timers>>
      /\ UNCHANGED <<now, nextId, armed, pc, runNow, thrown>>
  BY DEF CallbackReturns, t
<1>4. runNow \in Nat /\ runNow # 0 /\ now \in Nat
  BY <1>3 DEF IInv, StateInv, RunInv
<1>5. u \in Timer /\ u.id = t.id /\ u.expiration # 0
  <2>1. /\ t.expiration \in Nat /\ t.interval \in Nat
        /\ t \in [id : 1 .. MaxTimers, expiration : Nat, interval : Nat]
    BY <1>2 DEF Timer
  <2>2. runNow + t.interval \div PerTick \in Nat /\ runNow + t.interval \div PerTick # 0
    BY <1>4, <2>1, StepIsNat
  <2> QED
    BY <2>1, <2>2 DEF Restart, Timer
<1>6. t.id < nextId /\ t.id \notin DOMAIN timers
  BY <1>2 DEF IInv, IdInv
<1> HIDE DEF u
<1>7. StateInv'
  BY <1>2, <1>3 DEF IInv, StateInv
<1>8. RunInv'
  BY <1>3 DEF IInv, RunInv
<1>9. ASSUME NEW a \in DOMAIN expired'
      PROVE  expired'[a].id < nextId /\ expired'[a].id \notin DOMAIN timers \cup {t.id}
  <2>1. a \in 1 .. l - 1 /\ expired'[a] = expired[a + 1]
    BY <1>2, <1>3, <1>9
  <2>2. a + 1 \in DOMAIN expired /\ 1 \in DOMAIN expired /\ 1 < a + 1
    BY <1>2, <2>1
  <2>3. expired[1].id # expired[a + 1].id
    BY <2>2 DEF IInv, IdInv
  <2> QED
    BY <1>2, <2>1, <2>2, <2>3 DEF IInv, IdInv
<1>10. ASSUME NEW a \in DOMAIN expired', NEW b \in DOMAIN expired', a < b
       PROVE  expired'[a].id # expired'[b].id
  <2>1. /\ a \in 1 .. l - 1 /\ expired'[a] = expired[a + 1]
        /\ b \in 1 .. l - 1 /\ expired'[b] = expired[b + 1]
    BY <1>2, <1>3, <1>10
  <2>2. a + 1 \in DOMAIN expired /\ b + 1 \in DOMAIN expired /\ a + 1 < b + 1
    BY <1>2, <1>10, <2>1
  <2> QED
    BY <2>1, <2>2 DEF IInv, IdInv
<1>11. CASE Repeats(t)
  <2> DEFINE n == Size(heap)
             r == Push(Queue, u)
  <2>1. n \in Nat /\ Whole(Queue, n)
    BY QueueIs
  <2> HIDE DEF n
  <2>2. Whole(r, n + 1) /\ r.timers = With(timers, t.id, u)
    BY <1>5, <1>6, <2>1, QueueFields, PushWhole
  <2>3. Becomes(r)
    BY <1>3, <1>11
  <2> HIDE DEF r
  <2>4. timers' = [id \in DOMAIN timers \cup {t.id} |-> IF id = t.id THEN u ELSE timers[id]]
    BY <2>2, <2>3 DEF Becomes, With
  <2>5. QueueInv'
    BY <2>1, <2>2, <2>3, BecomesIs
  <2>6. IdInv'
    BY <1>3, <1>6, <1>9, <1>10, <2>4 DEF IInv, IdInv
  <2>7. AlarmInv'
    BY <1>3, <1>5, <2>4 DEF IInv, AlarmInv
  <2> QED
    BY <1>7, <1>8, <2>5, <2>6, <2>7 DEF IInv
<1>12. CASE ~ Repeats(t)
  <2>1. UNCHANGED <<heap, index, timers>>
    BY <1>3, <1>12
  <2>2. QueueInv'
    BY <2>1, QueueKept DEF IInv
  <2>3. IdInv'
    BY <1>3, <1>9, <1>10, <2>1 DEF IInv, IdInv
  <2>4. AlarmInv'
    BY <1>3, <2>1 DEF IInv, AlarmInv
  <2> QED
    BY <1>7, <1>8, <2>2, <2>3, <2>4 DEF IInv
<1> QED
  BY <1>11, <1>12

(* Every step keeps the invariant.                                         *)
LEMMA StepIInv ==
  ASSUME IInv, [Next]_vars
  PROVE  IInv'
<1>1. CASE Tick
  BY <1>1, TickKeeps
<1>2. CASE EpollReturn
  BY <1>2, EpollReturnKeeps
<1>3. CASE \E k \in Kinds : AddTimer(now + k[1], k[2])
  BY <1>3, AddTimerKeeps
<1>4. CASE \E id \in 1 .. MaxTimers : Cancel(id)
  BY <1>4, CancelKeeps
<1>5. CASE HandleRead
  BY <1>5, ReadTimerfdKeeps, CollectKeeps, CallbackReturnsKeeps, CallbackThrowsKeeps,
     HandlerEndsKeeps DEF HandleRead
<1>6. CASE UNCHANGED vars
  <2>1. QueueInv'
    BY <1>6, QueueKept DEF IInv, vars
  <2>2. StateInv'
    BY <1>6 DEF IInv, StateInv, vars
  <2>3. IdInv' /\ RunInv' /\ AlarmInv'
    BY <1>6 DEF IInv, IdInv, RunInv, AlarmInv, vars
  <2> QED
    BY <2>1, <2>2, <2>3 DEF IInv
<1> QED
  BY <1>1, <1>2, <1>3, <1>4, <1>5, <1>6 DEF Next

(* The inductive invariant holds in every reachable state.                 *)
THEOREM Invariance == Spec => []IInv
<1>1. Init => IInv
  BY InitIInv
<1>2. IInv /\ [Next]_vars => IInv'
  BY StepIInv
<1> QED
  BY <1>1, <1>2, PTL DEF Spec

-----------------------------------------------------------------------------
(* It implies the type invariant,                                          *)
LEMMA IInvTypeOK ==
  ASSUME IInv
  PROVE  TypeOK
<1>1. StateInv
  BY DEF IInv
<1>2. ASSUME NEW i \in DOMAIN heap PROVE heap[i] \in [expiration : Nat, id : 1 .. MaxTimers]
  <2>1. heap[i] \in Entry /\ heap[i].id \in 1 .. MaxTimers
    BY QueueIs DEF Timer
  <2> QED
    BY <2>1 DEF Entry
<1>3. \A id \in DOMAIN timers : timers[id] \in Timer /\ timers[id].id = id
  BY QueueIs
<1> QED
  BY <1>1, <1>2, <1>3 DEF TypeOK, StateInv

(* Every reachable state is well-typed.                                    *)
THEOREM TypeCorrect == Spec => []TypeOK
  BY Invariance, IInvTypeOK, PTL

(* the order of the heap,                                                  *)
LEMMA IInvHeapOrdered ==
  ASSUME IInv
  PROVE  HeapOrdered
<1>1. Ordered(heap, Size(heap)) /\ DOMAIN heap = 0 .. Size(heap) - 1
  BY QueueIs
<1> QED
  BY <1>1 DEF HeapOrdered, Ordered, Child

(* After any sequence of insertions, cancellations in the middle and pops, *)
(* in a heap of any size, no timer stands above one that expires earlier.  *)
THEOREM AlwaysHeapOrdered == Spec => []HeapOrdered
  BY Invariance, IInvHeapOrdered, PTL

(* the agreement of the three structures,                                  *)
LEMMA IInvIndexExact ==
  ASSUME IInv
  PROVE  IndexExact
<1> DEFINE n == Size(heap)
<1>1. /\ DOMAIN heap = 0 .. n - 1 /\ DOMAIN index = DOMAIN timers
      /\ \A x \in 0 .. n - 1 :
             heap[x].id \in DOMAIN timers /\ heap[x].expiration = timers[heap[x].id].expiration
      /\ \A id \in DOMAIN timers : index[id] \in 0 .. n - 1 /\ heap[index[id]].id = id
  BY QueueIs
<1>2. \A x \in 0 .. n - 1 : index[heap[x].id] = x
  BY QueueIs, QueueFields DEF Whole, Exact
<1> HIDE DEF n
<1>3. DOMAIN timers = HeapIds
  BY <1>1 DEF HeapIds
<1> QED
  BY <1>1, <1>2, <1>3 DEF IndexExact, n

(* An id is indexed exactly when it is in the heap, at its place there,    *)
(* with its timer kept: cancel() never erases another timer's entry.       *)
THEOREM AlwaysIndexExact == Spec => []IndexExact
  BY Invariance, IInvIndexExact, PTL

(* and the alarm of the front.                                             *)
LEMMA IInvFrontArmed ==
  ASSUME IInv
  PROVE  FrontArmed
<1> SUFFICES ASSUME pc = "idle", ~ Empty(heap), ~ thrown
             PROVE  armed # 0 /\ armed <= heap[0].expiration
  BY DEF FrontArmed
<1> DEFINE n == Size(heap)
<1>1. /\ n \in Nat /\ DOMAIN heap = 0 .. n - 1
      /\ \A x \in 0 .. n - 1 :
             heap[x].id \in DOMAIN timers /\ heap[x].expiration = timers[heap[x].id].expiration
  BY QueueIs
<1>2. 0 \in 0 .. n - 1
  BY <1>1 DEF Empty
<1> QED
  BY <1>1, <1>2 DEF IInv, AlarmInv

(* When the loop may go to sleep, the timerfd expires no later than the    *)
(* earliest timer, unless a callback threw.                                *)
THEOREM AlwaysFrontArmed == Spec => []FrontArmed
  BY Invariance, IInvFrontArmed, PTL

-----------------------------------------------------------------------------
(* The mapping to the service.                                             *)
Pending == {timers[heap[i].id] : i \in DOMAIN heap}

(* They are all the timers that are kept.                                  *)
LEMMA WholePending ==
  ASSUME NEW q, NEW n \in Nat, Whole(q, n)
  PROVE  {q.timers[q.heap[i].id] : i \in DOMAIN q.heap} = {q.timers[id] : id \in DOMAIN q.timers}
<1>1. /\ DOMAIN q.heap = 0 .. n - 1
      /\ DOMAIN q.index = DOMAIN q.timers
      /\ \A x \in 0 .. n - 1 : q.heap[x].id \in DOMAIN q.timers
  BY SizeIs, WholeIds DEF Whole
<1>2. \A id \in DOMAIN q.timers : q.index[id] \in 0 .. n - 1 /\ q.heap[q.index[id]].id = id
  BY <1>1 DEF Whole, Exact
<1> QED
  BY <1>1, <1>2

(* This is so in a state,                                                  *)
LEMMA PendingIs ==
  ASSUME QueueInv
  PROVE  Pending = {timers[id] : id \in DOMAIN timers}
<1> DEFINE q == Queue
<1>1. q.heap = heap /\ q.timers = timers
  BY DEF Queue
<1>2. Size(heap) \in Nat /\ Whole(q, Size(heap))
  BY DEF QueueInv
<1> HIDE DEF q
<1>3. {q.timers[q.heap[i].id] : i \in DOMAIN q.heap} = {q.timers[id] : id \in DOMAIN q.timers}
  BY <1>2, WholePending
<1> QED
  BY <1>1, <1>3 DEF Pending

(* and in the next one.                                                    *)
LEMMA PendingNext ==
  ASSUME QueueInv'
  PROVE  Pending' = {timers'[id] : id \in DOMAIN timers'}
<1> DEFINE q == Queue'
<1>1. q.heap = heap' /\ q.timers = timers'
  BY DEF Queue
<1>2. Size(heap') \in Nat /\ Whole(q, Size(heap'))
  BY DEF QueueInv
<1> HIDE DEF q
<1>3. {q.timers[q.heap[i].id] : i \in DOMAIN q.heap} = {q.timers[id] : id \in DOMAIN q.timers}
  BY <1>2, WholePending
<1> QED
  BY <1>1, <1>3 DEF Pending

(* The service starts with no timers.                                      *)
LEMMA ServiceInit ==
  ASSUME Init
  PROVE  Service!Init
  BY DEF Init, Service!Init

(* The clock is the service's.                                             *)
LEMMA TickServes ==
  ASSUME Tick
  PROVE  Service!Tick
  BY DEF Tick, Service!Tick

(* addTimer() adds a timer whose id no other has, waiting or being run.    *)
LEMMA AddTimerServes ==
  ASSUME IInv, IInv', NEW k \in Kinds, AddTimer(now + k[1], k[2])
  PROVE  Service!Add
<1> DEFINE t == [id |-> nextId, expiration |-> now + k[1], interval |-> k[2]]
           r == Push(Queue, t)
           n == Size(heap)
<1>1. /\ Becomes(r) /\ UNCHANGED <<now, expired, runNow>>
      /\ nextId \in 1 .. MaxTimers
  BY TimerAssumption DEF AddTimer, IInv, StateInv, FirstId
<1>2. t \in Timer /\ t.id = nextId
  BY <1>1, TimerAssumption DEF Timer, IInv, StateInv
<1> HIDE DEF t
<1>3. nextId \notin DOMAIN timers
  BY <1>1 DEF IInv, IdInv
<1>4. n \in Nat /\ Whole(Queue, n)
  BY QueueIs
<1> HIDE DEF n
<1>5. Whole(r, n + 1) /\ r.timers = With(timers, nextId, t)
  BY <1>2, <1>3, <1>4, QueueFields, PushWhole
<1> HIDE DEF r
<1>6. timers' = [id \in DOMAIN timers \cup {nextId} |-> IF id = nextId THEN t ELSE timers[id]]
  BY <1>1, <1>5 DEF Becomes, With
<1>7. /\ Pending = {timers[id] : id \in DOMAIN timers}
      /\ Pending' = {timers'[id] : id \in DOMAIN timers'}
  BY PendingIs, PendingNext DEF IInv
<1>8. Pending' = Pending \cup {t}
  <2>1. DOMAIN timers' = DOMAIN timers \cup {nextId} /\ timers'[nextId] = t
    BY <1>6
  <2>2. \A id \in DOMAIN timers : timers'[id] = timers[id]
    BY <1>3, <1>6
  <2> QED
    BY <1>7, <2>1, <2>2
<1>9. nextId \notin Service!Ids(Pending)
  <2>1. \A id \in DOMAIN timers : timers[id].id = id
    BY QueueIs
  <2> QED
    BY <1>3, <1>7, <2>1 DEF Service!Ids
<1>10. nextId \notin Service!Ids(Service!ToSet(expired))
  <2>1. \A a \in DOMAIN expired : expired[a].id # nextId
    BY <1>1 DEF IInv, IdInv
  <2> QED
    BY <2>1 DEF Service!Ids, Service!ToSet
<1> QED
  BY <1>1, <1>2, <1>8, <1>9, <1>10 DEF Service!Add, Pending

(* cancel() removes the one that was named.                                *)
LEMMA CancelServes ==
  ASSUME IInv, IInv', NEW id \in 1 .. MaxTimers, Cancel(id)
  PROVE  Service!Cancel
<1> DEFINE n == Size(heap)
           r == [EraseEntry(Queue, Queue.index[id]) EXCEPT !.timers = Without(@, {id})]
<1>1. n \in Nat /\ Whole(Queue, n) /\ DOMAIN index = DOMAIN timers
  BY QueueIs
<1> HIDE DEF n
<1>2. /\ id \in DOMAIN timers /\ Becomes(r)
      /\ UNCHANGED <<now, expired, runNow>>
  BY <1>1, QueueFields DEF Cancel
<1>3. r.timers = Without(timers, {id})
  BY <1>1, <1>2, QueueFields, CancelIs
<1> HIDE DEF r
<1>4. timers' = [j \in DOMAIN timers \ {id} |-> timers[j]]
  BY <1>2, <1>3 DEF Becomes, Without, Restrict
<1>5. /\ Pending = {timers[j] : j \in DOMAIN timers}
      /\ Pending' = {timers'[j] : j \in DOMAIN timers'}
  BY PendingIs, PendingNext DEF IInv
<1>6. Pending' = Pending \ {timers[id]}
  <2>1. DOMAIN timers' = DOMAIN timers \ {id}
    BY <1>4
  <2>2. \A j \in DOMAIN timers' : timers'[j] = timers[j]
    BY <1>4
  <2>3. \A j \in DOMAIN timers' : timers[j] # timers[id]
    BY <1>2, <2>1, QueueIs
  <2> QED
    BY <1>5, <2>1, <2>2, <2>3
<1>7. timers[id] \in Pending
  BY <1>2, <1>5
<1> QED
  BY <1>2, <1>6, <1>7 DEF Service!Cancel, Pending

(* A reading of the clock takes all that is due, in order and each once;   *)
(* if nothing is due the service does not notice.                          *)
LEMMA CollectServes ==
  ASSUME IInv, IInv', Collect
  PROVE  Service!Take \/ UNCHANGED Service!vars
<1> DEFINE n == Size(heap)
           r == PopDue(Queue)
           D == Service!Due
<1>1. n \in Nat /\ Whole(Queue, n) /\ now \in Nat
  BY QueueIs, TimerAssumption DEF IInv, StateInv
<1> HIDE DEF n
<1>2. /\ Becomes(r) /\ expired' = r.expired /\ runNow' = now /\ now' = now
      /\ pc = "reading"
  BY DEF Collect
<1>3. Gathered(r, Queue) /\ \A e \in Entries(r) : now < e.expiration
  BY <1>1, QueueFields, PopDueIs
<1> HIDE DEF r
<1>4. timers' = r.timers /\ heap' = r.heap
  BY <1>2 DEF Becomes
<1>5. expired = <<>>
  BY <1>2 DEF IInv, RunInv
<1>6. /\ Pending = {timers[id] : id \in DOMAIN timers}
      /\ Pending' = {timers'[id] : id \in DOMAIN timers'}
  BY PendingIs, PendingNext DEF IInv
<1>7. D = {t \in Pending : t.expiration <= now}
  BY DEF Service!Due, Pending
<1> HIDE DEF D
<1>8. \A id \in DOMAIN timers : timers[id] \in Timer /\ timers[id].id = id
  BY QueueIs
<1>9. ASSUME NEW id \in DOMAIN timers'
      PROVE  id \in DOMAIN timers /\ timers'[id] = timers[id] /\ now < timers[id].expiration
  <2>1. id \in DOMAIN timers /\ timers'[id] = timers[id]
    BY <1>3, <1>4, QueueFields DEF Gathered
  <2>2. [expiration |-> r.timers[id].expiration, id |-> id] \in Entries(r)
    BY <1>3, <1>4 DEF Gathered, Whole, EntriesOf
  <2>3. now < [expiration |-> r.timers[id].expiration, id |-> id].expiration
    BY <1>3, <2>2
  <2> QED
    BY <1>4, <2>1, <2>3
<1>10. ASSUME NEW a \in DOMAIN expired'
       PROVE  expired'[a] \in D /\ expired'[a].id \notin DOMAIN timers'
  <2>1. /\ expired'[a].expiration <= now
        /\ expired'[a].id \in DOMAIN timers \ DOMAIN timers'
        /\ expired'[a] = timers[expired'[a].id]
    BY <1>2, <1>3, <1>4, QueueFields DEF Gathered
  <2> QED
    BY <1>6, <1>7, <2>1
<1>11. ASSUME NEW t \in D PROVE t \notin Pending' /\ \E a \in DOMAIN expired' : expired'[a] = t
  <2>1. PICK id \in DOMAIN timers : t = timers[id]
    BY <1>6, <1>7
  <2>2. t.expiration <= now /\ t.expiration \in Nat
    BY <1>7, <1>8, <2>1 DEF Timer
  <2>3. id \notin DOMAIN timers'
    BY <1>1, <1>9, <2>1, <2>2
  <2>4. \E a \in DOMAIN expired' : expired'[a] = t
    BY <1>2, <1>3, <1>4, <2>1, <2>3, QueueFields DEF Gathered
  <2>5. t \notin Pending'
    BY <1>6, <1>8, <1>9, <2>1, <2>3
  <2> QED
    BY <2>4, <2>5
<1>12. Pending' = Pending \ D
  <2>1. ASSUME NEW p \in Pending' PROVE p \in Pending /\ p \notin D
    BY <1>6, <1>9, <1>11
  <2>2. ASSUME NEW p \in Pending, p \notin D PROVE p \in Pending'
    <3>1. PICK id \in DOMAIN timers : p = timers[id]
      BY <1>6
    <3>2. id \in DOMAIN timers'
      <4> SUFFICES ASSUME id \notin DOMAIN timers' PROVE FALSE
        OBVIOUS
      <4>1. \E a \in DOMAIN expired' : expired'[a] = timers[id]
        BY <1>2, <1>3, <1>4, <3>1, QueueFields DEF Gathered
      <4> QED
        BY <1>10, <2>2, <3>1, <4>1
    <3>3. timers'[id] = p
      BY <1>9, <3>1, <3>2
    <3> QED
      BY <1>6, <3>2, <3>3
  <2> QED
    BY <2>1, <2>2
<1>13. Service!ToSet(expired') = D
  BY <1>10, <1>11 DEF Service!ToSet
<1>14. CASE D = {}
  <2>1. expired' = <<>>
    <3>1. expired' \in Seq(Timer)
      BY <1>2, <1>3 DEF Gathered
    <3>2. DOMAIN expired' = {}
      BY <1>10, <1>14
    <3> QED
      BY <3>1, <3>2
  <2>2. Pending' = Pending
    BY <1>12, <1>14
  <2> QED
    BY <1>2, <1>5, <2>1, <2>2 DEF Service!vars, Pending
<1>15. CASE D # {}
  <2>1. expired' \in Seq(Timer)
    BY <1>2, <1>3 DEF Gathered
  <2>2. \A a, b \in DOMAIN expired' :
            a < b => /\ expired'[a].id # expired'[b].id
                     /\ expired'[a].expiration <= expired'[b].expiration
    BY <1>2, <1>3 DEF Gathered
  <2>3. Service!IsInjective(expired')
    <3> SUFFICES ASSUME NEW a \in DOMAIN expired', NEW b \in DOMAIN expired',
                        expired'[a] = expired'[b]
                 PROVE  a = b
      BY DEF Service!IsInjective
    <3>1. a \in Nat /\ b \in Nat
      BY <2>1
    <3> QED
      BY <2>2, <3>1
  <2>4. Service!InOrder(expired')
    BY <2>2 DEF Service!InOrder
  <2>5. expired' # <<>>
    BY <1>11, <1>15
  <2> QED
    BY <1>2, <1>5, <1>12, <1>13, <1>15, <2>3, <2>4, <2>5 DEF Service!Take, Pending, D
<1> QED
  BY <1>14, <1>15

(* A callback that returns: the timer is pending again if it repeats, an   *)
(* interval from the time it was taken.                                    *)
LEMMA CallbackReturnsServes ==
  ASSUME IInv, IInv', CallbackReturns
  PROVE  Service!Run
<1> DEFINE t == Head(expired)
           u == Restart(t)
<1>1. expired \in Seq(Timer) /\ expired # <<>>
  BY DEF IInv, StateInv, CallbackReturns
<1>2. t \in Timer /\ t = expired[1] /\ 1 \in DOMAIN expired
  BY <1>1
<1> HIDE DEF t
<1>3. /\ pc = "running" /\ expired' = Tail(expired)
      /\ IF Repeats(t) THEN Becomes(Push(Queue, u)) ELSE UNCHANGED <<heap, index, timers>>
      /\ UNCHANGED <<now, runNow>>
  BY DEF CallbackReturns, t
<1>4. runNow \in Nat
  BY <1>3, TimerAssumption DEF IInv, StateInv
<1>5. u = [t EXCEPT !.expiration = runNow + t.interval \div PerTick]
  BY DEF Restart
<1>6. u \in Timer /\ u.id = t.id
  <2>1. /\ t.interval \in Nat
        /\ t \in [id : 1 .. MaxTimers, expiration : Nat, interval : Nat]
    BY <1>2 DEF Timer
  <2>2. runNow + t.interval \div PerTick \in Nat
    BY <1>4, <2>1, StepIsNat
  <2> QED
    BY <1>5, <2>1, <2>2 DEF Timer
<1>7. t.id \notin DOMAIN timers
  BY <1>2 DEF IInv, IdInv
<1> HIDE DEF u
<1>8. Pending' = IF t.interval > 0 THEN Pending \cup {u} ELSE Pending
  <2>1. CASE Repeats(t)
    <3> DEFINE n == Size(heap)
               r == Push(Queue, u)
    <3>1. n \in Nat /\ Whole(Queue, n)
      BY QueueIs
    <3> HIDE DEF n
    <3>2. r.timers = With(timers, t.id, u)
      BY <1>6, <1>7, <3>1, QueueFields, PushWhole
    <3>3. Becomes(r)
      BY <1>3, <2>1
    <3> HIDE DEF r
    <3>4. timers' = [id \in DOMAIN timers \cup {t.id} |-> IF id = t.id THEN u ELSE timers[id]]
      BY <3>2, <3>3 DEF Becomes, With
    <3>5. /\ Pending = {timers[id] : id \in DOMAIN timers}
          /\ Pending' = {timers'[id] : id \in DOMAIN timers'}
      BY PendingIs, PendingNext DEF IInv
    <3>6. DOMAIN timers' = DOMAIN timers \cup {t.id} /\ timers'[t.id] = u
      BY <3>4
    <3>7. \A id \in DOMAIN timers : timers'[id] = timers[id]
      BY <1>7, <3>4
    <3> QED
      BY <2>1, <3>5, <3>6, <3>7 DEF Repeats
  <2>2. CASE ~ Repeats(t)
    BY <1>3, <2>2 DEF Repeats, Pending
  <2> QED
    BY <2>1, <2>2
<1>9. Service!Restarted(t) = u
  BY <1>1, <1>5 DEF Service!Restarted
<1> QED
  BY <1>1, <1>3, <1>8, <1>9 DEF Service!Run, Pending, t

(* Every step of the queue is one of the service or a stutter.             *)
LEMMA StepServes ==
  ASSUME IInv, IInv', [Next]_vars
  PROVE  [Service!Next]_(Service!vars)
<1>1. CASE Tick
  BY <1>1, TickServes DEF Service!Next
<1>2. CASE EpollReturn
  BY <1>2 DEF EpollReturn, Service!vars
<1>3. CASE \E k \in Kinds : AddTimer(now + k[1], k[2])
  BY <1>3, AddTimerServes DEF Service!Next
<1>4. CASE \E id \in 1 .. MaxTimers : Cancel(id)
  BY <1>4, CancelServes DEF Service!Next
<1>5. CASE ReadTimerfd
  BY <1>5 DEF ReadTimerfd, Service!vars
<1>6. CASE Collect
  BY <1>6, CollectServes DEF Service!Next
<1>7. CASE CallbackReturns
  BY <1>7, CallbackReturnsServes DEF Service!Next
<1>8. CASE CallbackThrows
  <2>1. Service!Abandon
    BY <1>8 DEF CallbackThrows, Service!Abandon
  <2> QED
    BY <2>1 DEF Service!Next
<1>9. CASE HandlerEnds
  BY <1>9 DEF HandlerEnds, Service!vars
<1>10. CASE UNCHANGED vars
  BY <1>10 DEF vars, Service!vars
<1> QED
  BY <1>1, <1>2, <1>3, <1>4, <1>5, <1>6, <1>7, <1>8, <1>9, <1>10 DEF Next, HandleRead

(* The queue implements the timer service: none that is due is missed,     *)
(* none is taken early or twice, a repeating one is neither lost nor       *)
(* doubled, but for what a throw abandons.                                 *)
THEOREM ServiceImplemented == Spec => ImplementsTimerService
<1>1. Init => Service!Init
  BY ServiceInit
<1>2. IInv /\ IInv' /\ [Next]_vars => [Service!Next]_(Service!vars)
  BY StepServes
<1> QED
  BY <1>1, <1>2, Invariance, PTL DEF Spec, ImplementsTimerService, Service!Spec
=============================================================================
