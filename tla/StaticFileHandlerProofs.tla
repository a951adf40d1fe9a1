----------------------- MODULE StaticFileHandlerProofs -----------------------
(* Proofs about StaticFileHandler.tla and Router.tla, for every value of   *)
(* their constants: any routes, any paths, any number of workers and files *)
(* and any size of the cache.                                              *)
(*                                                                         *)
(* The order: the inductive invariant, part by part; the Router's search,  *)
(* which finds the route that is declared for the request; the list of the *)
(* cache; each step of a worker; the changes of the files; the invariant   *)
(* as a whole; and the refinement of RequestService, step by step.         *)
EXTENDS StaticFileHandler, FiniteSetTheorems, SequenceTheorems, WellFoundedInduction, TLAPS

(* The times of a file that have never gone back.                          *)
Ascending(s) == \A i, j \in 1 .. Len(s) : i <= j => s[i] <= s[j]

(* Time goes on by one version.                                            *)
LEMMA AscendingIs ==
  ASSUME NEW s \in Seq(Nat), NEW m \in Nat, NEW i \in 1 .. Len(s), i + 1 \in 1 .. Len(s),
         Ascending(s), m <= s[i]
  PROVE  m <= s[i + 1]
<1>1. s[i] <= s[i + 1]
  BY DEF Ascending
<1>2. s[i] \in Nat /\ s[i + 1] \in Nat
  OBVIOUS
<1> QED
  BY <1>1, <1>2

(* A content of f that was last written no earlier than the time it is     *)
(* sent, kept or compared with, unless the times of f have gone back.      *)
Genuine(f, content, modified) ==
    /\ content \in 1 .. Version(f) /\ modified \in Nat
    /\ Ascending(stamps[f]) => modified <= stamps[f][content]

(* The same for the file a worker's request is about, where it is one      *)
(* whose contents are served.                                              *)
Servable(w, content, modified) ==
    /\ File(w) \in Names /\ Kind[File(w)] \notin {"special", "fifo", "huge"}
    /\ Genuine(File(w), content, modified)

(* Every file has had a version.                                           *)
DiskInv ==
    /\ stamps \in [Names -> Seq(Nat)]
    /\ place \in [Names -> {"file", "absent", "elsewhere"}]
    /\ \A f \in Names : Version(f) > 0

(* The list's nodes and the map's entries.                                 *)
Nodes == [path : Names, node : Nat \ {0}]
Entries == [content : Nat, mtime : Nat, node : Nat \ {0}]

(* The cache: its map and list have their types, the map's entries are     *)
(* contents as new as they say, and EntriesValid.                          *)
CacheInv ==
    /\ lruList \in Seq(Nodes)
    /\ DOMAIN cacheMap \subseteq Names
    /\ \A f \in DOMAIN cacheMap : /\ cacheMap[f] \in Entries
                                  /\ Genuine(f, cacheMap[f].content, cacheMap[f].mtime)
    /\ EntriesValid

(* The places a worker may stand at.                                       *)
Pcs == {"idle", "route", "resolve", "open", "blocked", "lookup", "read", "insert"}

(* What a client may hold of a file.                                       *)
Copies == [content : Nat, modified : Nat]

(* The requests, as a worker has them.                                     *)
RequestRecords == [method : STRING, path : Seq(STRING), held : Copies \union {None}]

(* The request of worker w, without the copy its client holds.             *)
Asked(w) == [method |-> request[w].method, path |-> request[w].path]

(* A worker's request and last answer: what its client holds, or will, is  *)
(* such a content.                                                         *)
RequestOK(w) ==
    /\ pc[w] \in Pcs
    /\ request[w] \in RequestRecords \union {None}
    /\ request[w] = None => pc[w] = "idle" /\ answer[w].code = 0
    /\ request[w] # None =>
          /\ Asked(w) \in Requests
          /\ request[w].held # None =>
                Servable(w, request[w].held.content, request[w].held.modified)
    /\ answer[w].code \in Nat /\ answer[w].content \in Nat
    /\ answer[w].content > 0 => /\ answer[w].modified \in Nat
                                /\ request[w] # None
                                /\ Servable(w, answer[w].content, answer[w].modified)

(* What the path of a request that is being served has held.               *)
SeenOK(w) ==
    /\ pc[w] = "idle" => seen[w] = {}
    /\ pc[w] # "idle" => Look(request[w].path) \in seen[w]
    /\ pc[w] # "idle" /\ File(w) \in Names =>
          \A look \in seen[w] : /\ look.version \in 1 .. Version(File(w))
                                /\ look.place \in {"file", "absent", "elsewhere"}

(* A request that reaches the files is for no route, and not refused.      *)
Unrouted(r) ==
    /\ Service!Routed(r) = {} /\ Service!NotAllowed(r) = {}
    /\ enabled /\ r.method \in {"GET", "HEAD"} /\ \A i \in DOMAIN r.path : r.path[i] # ".."

(* Every version since the one with the descriptor's time was seen.        *)
SeenSinceOpen(w) ==
    LET f == File(w)
    IN  \E o \in 1 .. Version(f) :
          /\ stamps[f][o] = fd[w].mtime
          /\ \A v \in o .. Version(f) : [place |-> "file", version |-> v] \in seen[w]

(* A worker's descriptor.                                                  *)
FdOK(w) ==
    /\ pc[w] \notin {"idle", "route"} => Unrouted(Asked(w))
    /\ pc[w] \in {"open", "blocked"} => File(w) \in Names
    /\ pc[w] = "blocked" => Kind[File(w)] = "fifo"
    /\ fd[w] # None <=> pc[w] \in {"lookup", "read", "insert"}
    /\ fd[w] # None =>
          /\ fd[w] \in [content : Nat, mtime : Nat, linked : BOOLEAN]
          /\ Servable(w, fd[w].content, fd[w].mtime)
          /\ SeenSinceOpen(w)

(* All of this, of one worker.                                             *)
WorkerOK(w) == RequestOK(w) /\ SeenOK(w) /\ FdOK(w)

(* The same for every worker.                                              *)
WorkInv ==
    /\ menu \in Menus
    /\ pc \in [Workers -> Pcs] /\ DOMAIN request = Workers /\ DOMAIN fd = Workers
    /\ DOMAIN answer = Workers /\ DOMAIN seen = Workers
    /\ \A w \in Workers : WorkerOK(w)

(* The inductive invariant.  What a hit sends was written no earlier than  *)
(* its entry says, and so lies, by its time, among the versions that       *)
(* SeenSinceOpen says were seen, as long as the times have not gone back:  *)
(* without CacheInv's Genuine or SeenSinceOpen an answer from the cache    *)
(* could not be shown to be one of the file while it was served.           *)
IInv == DiskInv /\ CacheInv /\ WorkInv

-----------------------------------------------------------------------------
(* Min of the community modules is the least element of a set of numbers.  *)
LEMMA MinIs ==
  ASSUME NEW S \in SUBSET Nat, S # {}
  PROVE  Min(S) \in S /\ \A x \in S : Min(S) <= x
<1>1. PICK m \in S : \A y \in S : <<y, m>> \notin OpToRel(<, Nat)
  BY WFMin, NatLessThanWellFounded, Zenon
<1>2. ASSUME NEW y \in S PROVE m <= y
  <2>1. ~ (y < m)
    BY <1>1, <1>2 DEF OpToRel
  <2> QED
    BY <2>1
<1>3. \E x \in S : \A y \in S : x =< y
  BY <1>2
<1>4. /\ (CHOOSE x \in S : \A y \in S : x =< y) \in S
      /\ \A y \in S : (CHOOSE x \in S : \A z \in S : x =< z) =< y
  BY <1>3
<1> QED
  BY <1>4 DEF Min

(* And Max the greatest of a bounded one.                                  *)
LEMMA MaxIs ==
  ASSUME NEW S \in SUBSET Nat, S # {}, NEW n \in Nat, \A x \in S : x <= n
  PROVE  Max(S) \in S /\ \A x \in S : x <= Max(S)
<1> DEFINE T == {n - x : x \in S}
<1>1. T \in SUBSET Nat /\ T # {}
  <2>1. \A x \in S : x \in Nat /\ x <= n
    OBVIOUS
  <2>2. \A x \in S : n - x \in Nat
    BY <2>1
  <2> QED
    BY <2>2
<1>2. PICK x \in S : Min(T) = n - x
  BY <1>1, MinIs
<1>3. ASSUME NEW y \in S PROVE y <= x
  <2>1. n - y \in T
    OBVIOUS
  <2>2. n - x <= n - y
    BY <1>1, <1>2, <2>1, MinIs
  <2> QED
    BY <2>2
<1>4. \E z \in S : \A y \in S : z >= y
  BY <1>3
<1>5. /\ (CHOOSE z \in S : \A y \in S : z >= y) \in S
      /\ \A y \in S : (CHOOSE z \in S : \A u \in S : z >= u) >= y
  BY <1>4
<1> QED
  BY <1>5 DEF Max

(* Nth(S, n) is an element of S, for each n up to its size: going up       *)
(* through S, the number of elements passed grows by one each time.        *)
LEMMA NthIs ==
  ASSUME NEW S, NEW k \in Nat, S \in SUBSET (1 .. k), NEW n \in 1 .. Cardinality(S)
  PROVE  Nth(S, n) \in S
<1> DEFINE Upto(i) == {j \in S : j <= i}
           C(i) == Cardinality(Upto(i))
<1>1. /\ IsFiniteSet(S) /\ Cardinality(S) \in Nat
      /\ \A i : IsFiniteSet(Upto(i)) /\ C(i) \in Nat
  <2>1. IsFiniteSet(1 .. k)
    BY FS_Interval
  <2>2. IsFiniteSet(S)
    BY <2>1, FS_Subset
  <2>3. \A i : Upto(i) \in SUBSET S
    OBVIOUS
  <2>4. \A i : IsFiniteSet(Upto(i))
    BY <2>2, <2>3, FS_Subset
  <2> QED
    BY <2>2, <2>4, FS_CardinalityType
<1>2. \A i \in S : i \in Nat /\ i <= k
  OBVIOUS
<1> DEFINE T == {i \in S : C(i) >= n}
<1>3. S # {}
  BY <1>1, FS_EmptySet
<1>4. T # {}
  <2> DEFINE m == Max(S)
  <2>1. m \in S /\ \A x \in S : x <= m
    <3>1. S \in SUBSET Nat
      BY <1>2
    <3> QED
      BY <1>2, <1>3, <3>1, MaxIs
  <2>2. Upto(m) = S
    BY <2>1
  <2> QED
    BY <1>1, <2>1, <2>2
<1>5. PICK i \in T : \A j \in T : i <= j
  <2>1. T \in SUBSET Nat
    BY <1>2
  <2> QED
    BY <1>4, <2>1, MinIs
<1> DEFINE Low == {j \in S : j < i}
<1>6. Upto(i) = Low \cup {i} /\ i \notin Low /\ i \in Nat /\ IsFiniteSet(Low)
  <2>1. IsFiniteSet(Low)
    <3>1. Low \in SUBSET S
      OBVIOUS
    <3> QED
      BY <1>1, <3>1, FS_Subset
  <2>2. i \in S /\ i \in Nat
    BY <1>2
  <2>3. \A j \in S : j <= i <=> j < i \/ j = i
    BY <1>2, <2>2
  <2>4. Upto(i) = Low \cup {i}
    BY <2>2, <2>3
  <2>5. i \notin Low
    BY <2>2
  <2> QED
    BY <2>1, <2>2, <2>4, <2>5
<1>7. C(i) = Cardinality(Low) + 1
  BY <1>6, FS_AddElement
<1>8. Cardinality(Low) < n
  <2>1. CASE Low = {}
    BY <2>1, FS_EmptySet
  <2>2. CASE Low # {}
    <3> DEFINE m == Max(Low)
    <3>1. m \in Low /\ \A x \in Low : x <= m
      <4>1. Low \in SUBSET Nat /\ \A x \in Low : x <= k
        BY <1>2
      <4> QED
        BY <2>2, <4>1, MaxIs
    <3>2. m \in S /\ m < i /\ m \in Nat
      BY <1>2, <3>1
    <3> HIDE DEF m
    <3>3. Upto(m) = Low
      <4>1. \A x \in S : x <= m <=> x < i
        BY <1>2, <1>6, <3>1, <3>2
      <4> QED
        BY <4>1
    <3>4. m \in S /\ m < i /\ m \in Nat
      BY <3>2
    <3>5. m \notin T
      BY <1>5, <1>6, <3>4
    <3>6. ~(C(m) >= n)
      BY <3>4, <3>5
    <3> QED
      BY <1>1, <3>3, <3>6
  <2> QED
    BY <2>1, <2>2
<1>9. C(i) = n
  <2>1. Cardinality(Low) \in Nat /\ C(i) >= n
    BY <1>6, FS_CardinalityType
  <2> QED
    BY <1>1, <1>7, <1>8, <2>1
<1> HIDE DEF C, Upto
<1>10. \E x \in S : C(x) = n
  BY <1>9
<1>11. Nth(S, n) = CHOOSE x \in S : C(x) = n
  BY DEF Nth, C, Upto
<1> QED
  BY <1>10, <1>11

(* What splitPath returns are segments of the path.                        *)
LEMMA SegmentsAre ==
  ASSUME NEW path \in Seq(STRING)
  PROVE  /\ Segments(path) \in Seq(STRING)
         /\ \A n \in DOMAIN Segments(path) : \E i \in DOMAIN path : Segments(path)[n] = path[i]
<1> DEFINE kept == NonEmpty(path)
<1>1. DOMAIN path = 1 .. Len(path) /\ Len(path) \in Nat /\ \A i \in DOMAIN path : path[i] \in STRING
  OBVIOUS
<1>2. kept \in SUBSET (1 .. Len(path)) /\ kept \subseteq DOMAIN path
  BY <1>1 DEF NonEmpty
<1>3. Cardinality(kept) \in Nat
  <2>1. IsFiniteSet(1 .. Len(path))
    BY <1>1, FS_Interval
  <2>2. IsFiniteSet(kept)
    BY <1>2, <2>1, FS_Subset
  <2> QED
    BY <2>2, FS_CardinalityType
<1>4. \A n \in 1 .. Cardinality(kept) : Nth(kept, n) \in DOMAIN path
  BY <1>1, <1>2, NthIs
<1>5. Segments(path) = [n \in 1 .. Cardinality(kept) |-> path[Nth(kept, n)]]
  BY DEF Segments
<1> HIDE DEF kept
<1>6. \A n \in 1 .. Cardinality(kept) : path[Nth(kept, n)] \in STRING
  BY <1>1, <1>4
<1>7. Segments(path) \in [1 .. Cardinality(kept) -> STRING]
  BY <1>5, <1>6
<1>8. Segments(path) \in Seq(STRING)
  BY <1>3, <1>7, SeqDef
<1>9. DOMAIN Segments(path) = 1 .. Cardinality(kept)
  BY <1>5
<1>10. \A n \in 1 .. Cardinality(kept) : Segments(path)[n] = path[Nth(kept, n)]
  BY <1>5
<1> QED
  BY <1>4, <1>8, <1>9, <1>10
-----------------------------------------------------------------------------
(* The types of a route; and it is plain where find(':') and find('*')     *)
(* find nothing.                                                           *)
LEMMA PatternsAre ==
  ASSUME NEW i \in DOMAIN Routes
  PROVE  /\ i \in Nat \ {0} /\ i <= Len(Routes) /\ Len(Routes) \in Nat
         /\ Routes[i].pattern \in Seq(STRING) /\ Routes[i].method \in STRING
         /\ Service!Plain(i) <=> ~Dynamic(Routes[i].pattern)
<1> DEFINE Records == [method : STRING, pattern : Seq(STRING)]
<1>1. Routes \in Seq(Records)
  BY SegmentsAssumption
<1> HIDE DEF Records
<1>2. DOMAIN Routes = 1 .. Len(Routes) /\ Len(Routes) \in Nat
  BY <1>1
<1>3. Routes[i] \in Records
  BY <1>1, <1>2
<1>4. Routes[i].pattern \in Seq(STRING) /\ Routes[i].method \in STRING
  BY <1>3 DEF Records
<1> QED
  BY <1>2, <1>4 DEF Service!Plain, Dynamic

(* matchPattern's loop passes what is equal or a parameter, and returns at *)
(* the first segment that is a wildcard or differs.                        *)
LEMMA StopsIs ==
  ASSUME NEW p \in Seq(STRING), NEW s \in Seq(STRING), NEW e, e = StopsAt(p, s)
  PROVE  /\ e \in 1 .. Len(p) + 1
         /\ \A j \in 1 .. Len(p) :
               /\ j < e => p[j] \notin StarSegs /\ (p[j] \in ParamSegs \/ p[j] = s[j])
               /\ j = e => p[j] \in StarSegs \/ (p[j] \notin ParamSegs /\ p[j] # s[j])
<1> DEFINE stops == {i \in DOMAIN p : p[i] \in StarSegs \/ (p[i] \notin ParamSegs /\ p[i] # s[i])}
           S == stops \cup {Len(p) + 1}
<1>1. DOMAIN p = 1 .. Len(p) /\ Len(p) \in Nat
  OBVIOUS
<1>2. S \in SUBSET Nat /\ S # {}
  BY <1>1
<1>3. e = Min(S)
  BY DEF StopsAt
<1>4. e \in S /\ \A x \in S : e <= x
  BY <1>2, <1>3, MinIs
<1>5. e \in 1 .. Len(p) + 1
  BY <1>1, <1>4
<1>6. ASSUME NEW j \in 1 .. Len(p)
      PROVE  /\ j < e => j \notin stops
             /\ j = e => j \in stops
  BY <1>1, <1>4, <1>5, <1>6
<1> QED
  BY <1>1, <1>5, <1>6

(* matchPattern says whether the path follows the pattern.                 *)
LEMMA MatchFollows ==
  ASSUME NEW i \in DOMAIN Routes, NEW path \in Seq(STRING)
  PROVE  MatchPattern(Routes[i].pattern, path) <=> Service!Follows(i, path)
<1> DEFINE p == Segments(Routes[i].pattern)
           s == Segments(path)
           e == StopsAt(p, s)
<1>1. /\ p \in Seq(STRING) /\ s \in Seq(STRING)
      /\ Len(p) \in Nat /\ DOMAIN p = 1 .. Len(p) /\ Len(s) \in Nat
  BY PatternsAre, SegmentsAre
<1>2. MatchPattern(Routes[i].pattern, path) <=>
        Len(p) <= Len(s) /\ (e = Len(p) + 1 \/ p[e] \in StarSegs)
  BY DEF MatchPattern
<1>3. Service!Follows(i, path) <=>
        /\ Len(s) >= Len(p)
        /\ \E n \in 0 .. Len(p) :
             /\ \A j \in 1 .. n : p[j] \in ParamSegs \/ p[j] = s[j]
             /\ n < Len(p) => p[n + 1] \in StarSegs
  BY DEF Service!Follows
<1>4. /\ e \in 1 .. Len(p) + 1
      /\ \A j \in 1 .. Len(p) :
            /\ j < e => p[j] \notin StarSegs /\ (p[j] \in ParamSegs \/ p[j] = s[j])
            /\ j = e => p[j] \in StarSegs \/ (p[j] \notin ParamSegs /\ p[j] # s[j])
  BY <1>1, StopsIs
<1>5. ParamSegs \cap StarSegs = {}
  BY SegmentsAssumption
<1> HIDE DEF p, s, e
<1>6. ASSUME e = Len(p) + 1 \/ p[e] \in StarSegs
      PROVE  \E n \in 0 .. Len(p) :
               /\ \A j \in 1 .. n : p[j] \in ParamSegs \/ p[j] = s[j]
               /\ n < Len(p) => p[n + 1] \in StarSegs
  <2>1. e - 1 \in 0 .. Len(p)
    BY <1>1, <1>4
  <2>2. \A j \in 1 .. (e - 1) : p[j] \in ParamSegs \/ p[j] = s[j]
    BY <1>1, <1>4
  <2>3. e - 1 < Len(p) => p[(e - 1) + 1] \in StarSegs
    BY <1>1, <1>4, <1>6
  <2> QED
    BY <2>1, <2>2, <2>3
<1>7. ASSUME NEW n \in 0 .. Len(p),
             \A j \in 1 .. n : p[j] \in ParamSegs \/ p[j] = s[j],
             n < Len(p) => p[n + 1] \in StarSegs,
             e # Len(p) + 1
      PROVE  p[e] \in StarSegs
  <2>1. e \in 1 .. Len(p)
    BY <1>1, <1>4, <1>7
  <2>2. CASE e <= n
    BY <1>1, <1>4, <1>7, <2>1, <2>2
  <2>3. CASE e > n
    <3>1. n + 1 \in 1 .. Len(p) /\ p[n + 1] \in StarSegs
      BY <1>1, <1>7, <2>1, <2>3
    <3>2. ~(n + 1 < e)
      BY <1>4, <3>1
    <3>3. e = n + 1
      BY <1>1, <2>1, <2>3, <3>2
    <3> QED
      BY <3>1, <3>3
  <2> QED
    BY <1>1, <2>1, <2>2, <2>3
<1> QED
  BY <1>1, <1>2, <1>3, <1>6, <1>7

(* The parameters of a pattern, up to its wildcard.                        *)
OwnSegments(i) ==
    LET p == Segments(Routes[i].pattern)
    IN  {j \in DOMAIN p : p[j] \in ParamSegs /\ \A m \in 1 .. j : p[m] \notin StarSegs}

(* They are what the route's handler asks for, what the service answers    *)
(* with, and, of a pattern that matches, what matchPattern's loop writes.  *)
LEMMA OwnAre ==
  ASSUME NEW i \in DOMAIN Routes, NEW path \in Seq(STRING)
  PROVE  LET p == Segments(Routes[i].pattern)
             s == Segments(path)
             own == OwnSegments(i)
         IN  /\ own \in SUBSET (1 .. Len(p))
             /\ ParamsOf(i) = {p[j] : j \in own}
             /\ Service!ArgsOf(i, path) =
                   {<<p[j], s[j]>> : j \in {k \in own : \A m \in own : p[m] = p[k] => m <= k}}
             /\ MatchPattern(Routes[i].pattern, path) =>
                   {j \in 1 .. StopsAt(p, s) - 1 : p[j] \in ParamSegs} = own
<1> DEFINE p == Segments(Routes[i].pattern)
           s == Segments(path)
           e == StopsAt(p, s)
           ends == {j \in DOMAIN p : p[j] \in StarSegs} \cup {Len(p) + 1}
           own == OwnSegments(i)
<1>1. /\ p \in Seq(STRING) /\ s \in Seq(STRING)
      /\ Len(p) \in Nat /\ DOMAIN p = 1 .. Len(p)
  BY PatternsAre, SegmentsAre
<1>2. /\ e \in 1 .. Len(p) + 1
      /\ \A j \in 1 .. Len(p) :
            /\ j < e => p[j] \notin StarSegs /\ (p[j] \in ParamSegs \/ p[j] = s[j])
            /\ j = e => p[j] \in StarSegs \/ (p[j] \notin ParamSegs /\ p[j] # s[j])
  BY <1>1, StopsIs
<1>3. own = {j \in DOMAIN p : p[j] \in ParamSegs /\ \A m \in 1 .. j : p[m] \notin StarSegs}
  BY DEF OwnSegments
<1>4. ParamsOf(i) = {p[j] : j \in {k \in DOMAIN p : /\ p[k] \in ParamSegs
                                                /\ \A m \in 1 .. k : p[m] \notin StarSegs}}
  BY DEF ParamsOf
<1>5. Service!ArgsOf(i, path) =
        {<<p[j], s[j]>> : j \in
            {k \in {j \in DOMAIN p : p[j] \in ParamSegs /\ \A x \in ends : j < x} :
               \A m \in {j \in DOMAIN p : p[j] \in ParamSegs /\ \A x \in ends : j < x} :
                  p[m] = p[k] => m <= k}}
  BY DEF Service!ArgsOf
<1>6. MatchPattern(Routes[i].pattern, path) => e = Len(p) + 1 \/ p[e] \in StarSegs
  BY DEF MatchPattern
<1> HIDE DEF p, s, e, own
<1>7. ASSUME NEW j \in DOMAIN p
      PROVE  (\A x \in ends : j < x) <=> \A m \in 1 .. j : p[m] \notin StarSegs
  <2>1. j \in 1 .. Len(p)
    BY <1>1
  <2>2. (\A x \in ends : j < x) <=> \A m \in 1 .. Len(p) : p[m] \in StarSegs => j < m
    BY <1>1, <2>1
  <2> QED
    BY <1>1, <2>1, <2>2
<1>8. {j \in DOMAIN p : p[j] \in ParamSegs /\ \A x \in ends : j < x} = own
  BY <1>3, <1>7
<1>9. ASSUME MatchPattern(Routes[i].pattern, path)
      PROVE  {j \in 1 .. e - 1 : p[j] \in ParamSegs} = own
  <2>1. ASSUME NEW j \in 1 .. e - 1, p[j] \in ParamSegs PROVE j \in own
    BY <1>1, <1>2, <1>3, <2>1
  <2>2. ASSUME NEW j \in own PROVE j \in 1 .. e - 1
    <3>1. j \in 1 .. Len(p) /\ \A m \in 1 .. j : p[m] \notin StarSegs
      BY <1>1, <1>3, <2>2
    <3>2. ~(e <= j)
      BY <1>1, <1>2, <1>6, <1>9, <3>1
    <3> QED
      BY <1>1, <1>2, <3>1, <3>2
  <2>3. \A j \in own : p[j] \in ParamSegs
    BY <1>3
  <2> QED
    BY <2>1, <2>2, <2>3
<1>10. own \in SUBSET (1 .. Len(p)) /\ ParamsOf(i) = {p[j] : j \in own}
  BY <1>1, <1>3, <1>4
<1>11. Service!ArgsOf(i, path) =
         {<<p[j], s[j]>> : j \in {k \in own : \A m \in own : p[m] = p[k] => m <= k}}
  BY <1>5, <1>8
<1> QED
  BY <1>9, <1>10, <1>11 DEF p, s, e, own

(* What matchPattern writes, parameter by parameter: the last segment of   *)
(* that name.                                                              *)
LEMMA WrittenIs ==
  ASSUME NEW i \in DOMAIN Routes, NEW path \in Seq(STRING),
         MatchPattern(Routes[i].pattern, path)
  PROVE  LET p == Segments(Routes[i].pattern)
             written == Written(Routes[i].pattern, path)
         IN  /\ DOMAIN written = ParamsOf(i)
             /\ \A n \in ParamsOf(i) :
                   written[n] = Segments(path)[Max({j \in OwnSegments(i) : p[j] = n})]
<1> DEFINE p == Segments(Routes[i].pattern)
           s == Segments(path)
           own == OwnSegments(i)
           passed == IF Len(p) <= Len(s)
                     THEN {j \in 1 .. StopsAt(p, s) - 1 : p[j] \in ParamSegs}
                     ELSE {}
<1>1. Len(p) <= Len(s)
  BY DEF MatchPattern
<1>2. passed = own /\ ParamsOf(i) = {p[j] : j \in own}
  BY <1>1, OwnAre
<1>3. Written(Routes[i].pattern, path) =
        [n \in {p[j] : j \in passed} |-> s[Max({j \in passed : p[j] = n})]]
  BY DEF Written
<1> HIDE DEF p, s, own, passed
<1>4. Written(Routes[i].pattern, path) =
        [n \in ParamsOf(i) |-> s[Max({j \in own : p[j] = n})]]
  BY <1>2, <1>3
<1> QED
  BY <1>4 DEF p, s, own

(* Of the segments with one name there is a last.                          *)
LEMMA LastIs ==
  ASSUME NEW i \in DOMAIN Routes, NEW n \in ParamsOf(i)
  PROVE  LET p == Segments(Routes[i].pattern)
             J == {j \in OwnSegments(i) : p[j] = n}
         IN  /\ Max(J) \in OwnSegments(i) /\ p[Max(J)] = n
             /\ \A j \in J : j <= Max(J)
<1> DEFINE p == Segments(Routes[i].pattern)
           own == OwnSegments(i)
           J == {j \in own : p[j] = n}
<1>1. p \in Seq(STRING) /\ Len(p) \in Nat
  BY PatternsAre, SegmentsAre
<1>2. own \in SUBSET (1 .. Len(p)) /\ ParamsOf(i) = {p[j] : j \in own}
  BY OwnAre, EmptySeq
<1> HIDE DEF p, own
<1>3. J \in SUBSET Nat /\ J # {} /\ \A j \in J : j <= Len(p)
  <2>1. \A j \in own : j \in Nat /\ j <= Len(p)
    BY <1>1, <1>2
  <2>2. \E j \in own : p[j] = n
    BY <1>2
  <2> QED
    BY <2>1, <2>2
<1>4. Max(J) \in J /\ \A j \in J : j <= Max(J)
  BY <1>1, <1>3, MaxIs
<1> QED
  BY <1>4 DEF p, own

(* When the search ends at route i, whatever the entries before it have    *)
(* left in the request's map, every parameter of i has i's own value: i    *)
(* wrote last.  So at() does not throw, and the handler answers with the   *)
(* segments its parameters stand for.                                      *)
LEMMA HandlerAnswers ==
  ASSUME NEW path \in Seq(STRING), NEW i \in ParamRoutes,
         MatchPattern(Routes[i].pattern, path)
  PROVE  Handler(i, ParamsAfter(i, path)) =
           [Status(200) EXCEPT !.route = i, !.args = Service!ArgsOf(i, path)]
<1> DEFINE p == Segments(Routes[i].pattern)
           s == Segments(path)
           own == OwnSegments(i)
           last == {k \in own : \A m \in own : p[m] = p[k] => m <= k}
           J(n) == {j \in own : p[j] = n}
           WrittenBy(j) == Written(Routes[j].pattern, path)
           tried == {j \in ParamRoutes : j <= i}
           M(n) == {j \in tried : n \in DOMAIN WrittenBy(j)}
           params == ParamsAfter(i, path)
<1>1. i \in DOMAIN Routes /\ i \in Nat /\ ParamRoutes \subseteq Nat
  BY PatternsAre DEF ParamRoutes
<1>2. DOMAIN WrittenBy(i) = ParamsOf(i)
  BY <1>1, WrittenIs
<1>3. params = [n \in UNION {DOMAIN WrittenBy(j) : j \in tried} |-> WrittenBy(Max(M(n)))[n]]
  BY DEF ParamsAfter
<1>4. ASSUME NEW n \in ParamsOf(i) PROVE Max(M(n)) = i
  <2>1. i \in M(n) /\ M(n) \in SUBSET Nat /\ \A j \in M(n) : j <= i
    BY <1>1, <1>2
  <2>2. Max(M(n)) \in M(n) /\ i <= Max(M(n))
    BY <1>1, <2>1, MaxIs
  <2>3. Max(M(n)) \in Nat /\ Max(M(n)) <= i
    BY <2>1, <2>2
  <2> QED
    BY <1>1, <2>2, <2>3
<1>5. ASSUME NEW n \in ParamsOf(i)
      PROVE  n \in DOMAIN params /\ params[n] = s[Max(J(n))]
  <2>1. i \in tried /\ n \in DOMAIN WrittenBy(i)
    BY <1>1, <1>2
  <2>2. n \in UNION {DOMAIN WrittenBy(j) : j \in tried}
    BY <2>1
  <2>3. params[n] = WrittenBy(Max(M(n)))[n]
    BY <1>3, <2>2
  <2>4. WrittenBy(i)[n] = s[Max(J(n))]
    BY <1>1, WrittenIs
  <2> QED
    BY <1>3, <1>4, <2>2, <2>3, <2>4
<1>6. Service!ArgsOf(i, path) = {<<p[j], s[j]>> : j \in last}
  BY <1>1, OwnAre
<1>7. ParamsOf(i) = {p[j] : j \in own} /\ own \subseteq Nat
  <2>1. own \in SUBSET (1 .. Len(p))
    BY <1>1, OwnAre
  <2> QED
    BY <1>1, <2>1, OwnAre
<1>8. ASSUME NEW n \in ParamsOf(i)
      PROVE  /\ Max(J(n)) \in own /\ p[Max(J(n))] = n
             /\ \A j \in J(n) : j <= Max(J(n))
  BY <1>1, LastIs
<1> HIDE DEF p, s, own, WrittenBy, tried, M, params
<1>9. ASSUME NEW n \in ParamsOf(i) PROVE Max(J(n)) \in last
  BY <1>8
<1>10. ASSUME NEW k \in last PROVE p[k] \in ParamsOf(i) /\ Max(J(p[k])) = k
  <2>1. k \in own /\ p[k] \in ParamsOf(i)
    BY <1>7
  <2>2. Max(J(p[k])) \in own /\ p[Max(J(p[k]))] = p[k] /\ k <= Max(J(p[k]))
    BY <1>8, <2>1
  <2> DEFINE m == Max(J(p[k]))
  <2> HIDE DEF m
  <2>3. m \in own /\ p[m] = p[k] /\ k <= m
    BY <2>2 DEF m
  <2>4. \A j \in own : p[j] = p[k] => j <= k
    OBVIOUS
  <2>5. m = k
    BY <1>7, <2>1, <2>3, <2>4
  <2> QED
    BY <2>1, <2>5 DEF m
<1> HIDE DEF last, J
<1>11. {<<n, params[n]>> : n \in ParamsOf(i)} = {<<p[j], s[j]>> : j \in last}
  <2>1. ASSUME NEW n \in ParamsOf(i)
        PROVE  \E j \in last : <<n, params[n]>> = <<p[j], s[j]>>
    BY <1>5, <1>8, <1>9
  <2>2. ASSUME NEW j \in last
        PROVE  \E n \in ParamsOf(i) : <<n, params[n]>> = <<p[j], s[j]>>
    BY <1>5, <1>10
  <2> QED
    BY <2>1, <2>2
<1>12. ParamsOf(i) \subseteq DOMAIN params
  BY <1>5
<1>13. {<<n, params[n]>> : n \in ParamsOf(i)} = Service!ArgsOf(i, path)
  BY <1>6, <1>11
<1> QED
  BY <1>12, <1>13 DEF Handler, params

(* A plain route has no parameters, and the empty map is enough.           *)
LEMMA PlainHandlerAnswers ==
  ASSUME NEW path \in Seq(STRING), NEW i \in DOMAIN Routes, ~Dynamic(Routes[i].pattern)
  PROVE  Handler(i, <<>>) =
           [Status(200) EXCEPT !.route = i, !.args = Service!ArgsOf(i, path)]
<1> DEFINE p == Segments(Routes[i].pattern)
<1>1. \A n \in DOMAIN p : p[n] \notin MarkedSegs
  BY PatternsAre, SegmentsAre DEF Dynamic
<1>2. p \in Seq(STRING) /\ DOMAIN p = 1 .. Len(p)
  BY PatternsAre, SegmentsAre
<1>3. OwnSegments(i) = {}
  <2>1. ParamSegs \subseteq MarkedSegs
    BY SegmentsAssumption
  <2> QED
    BY <1>1, <2>1 DEF OwnSegments
<1>4. ParamsOf(i) = {} /\ Service!ArgsOf(i, path) = {}
  BY <1>3, OwnAre
<1> QED
  BY <1>4 DEF Handler

(* What RequestService promises of Router::route's three results.          *)
Answered(r, R) ==
    \/ /\ R.result = "found"
       /\ R.handler \in DOMAIN Routes
       /\ R.handler \in Service!Declared(r) /\ Service!Preferred(r, R.handler)
       /\ Handler(R.handler, R.params) =
            [Status(200) EXCEPT !.route = R.handler,
                                !.args = Service!ArgsOf(R.handler, r.path)]
    \/ /\ R.result = "methodNotAllowed"
       /\ Service!Declared(r) = {} /\ \E i \in DOMAIN Routes : Service!Answers(i, r.path)
    \/ /\ R.result = "notFound"
       /\ Service!Declared(r) = {} /\ ~\E i \in DOMAIN Routes : Service!Answers(i, r.path)

(* Router::route finds the route that is declared for the request, the     *)
(* preferred one of several, with its parameters; says "method not         *)
(* allowed" exactly if the path is declared for other methods only; and    *)
(* otherwise "not found".                                                  *)
THEOREM RouteIs ==
  ASSUME NEW r \in [method : STRING, path : Seq(STRING)]
  PROVE  Answered(r, Route(r.method, r.path))
<1> DEFINE m == LookupMethod(r.method)
           path == r.path
           R == Route(r.method, r.path)
           exact == ExactMatch(m, path)
           plain == {i \in DOMAIN Routes : Service!Answers(i, path) /\ Service!Plain(i)}
           matching == {i \in ParamRoutes : MatchPattern(Routes[i].pattern, path)}
           own == {i \in matching : Routes[i].method = m}
<1>1. path \in Seq(STRING) /\ m = Service!Method(r)
  BY DEF LookupMethod, Service!Method
<1>2. R = IF exact # {} THEN Found(Max(exact), <<>>)
          ELSE IF MethodsOf(path) # {}
             THEN Miss(IF m \notin MethodsOf(path) THEN "methodNotAllowed" ELSE "notFound")
             ELSE Search(m, path)
  BY DEF Route
<1>3. Service!Declared(r) =
        {i \in IF plain # {} THEN plain ELSE {i \in DOMAIN Routes : Service!Answers(i, path)} :
            Routes[i].method = m}
  <2>1. plain = {i \in {i \in DOMAIN Routes : Service!Answers(i, path)} : Service!Plain(i)}
    OBVIOUS
  <2> QED
    BY <1>1, <2>1 DEF Service!Declared
<1>4. ASSUME NEW i \in DOMAIN Routes
      PROVE  /\ i \in Nat /\ i <= Len(Routes) /\ Len(Routes) \in Nat
             /\ Service!Plain(i) <=> ~Dynamic(Routes[i].pattern)
             /\ i \in plain <=> ~Dynamic(Routes[i].pattern) /\ Routes[i].pattern = path
             /\ ~Service!Plain(i) => (Service!Answers(i, path) <=> i \in matching)
  BY <1>1, PatternsAre, MatchFollows DEF Service!Answers, ParamRoutes
<1>5. MethodsOf(path) = {Routes[i].method : i \in plain}
  <2>1. \A i \in DOMAIN Routes : i \in plain <=> i \in {j \in DOMAIN Routes :
              Routes[j].pattern = path /\ ~Dynamic(Routes[j].pattern)}
    BY <1>4
  <2>2. plain = {j \in DOMAIN Routes : /\ Routes[j].pattern = path
                                       /\ ~Dynamic(Routes[j].pattern)}
    BY <2>1
  <2> QED
    BY <2>2 DEF MethodsOf
<1>6. exact = {i \in plain : Routes[i].method = m}
  <2>1. ASSUME NEW i \in DOMAIN Routes
        PROVE  i \in exact <=> i \in plain /\ Routes[i].method = m
    BY <1>4, <2>1 DEF ExactMatch, Registered
  <2>2. exact \subseteq DOMAIN Routes
    BY DEF ExactMatch, Registered
  <2> QED
    BY <2>1, <2>2
<1>7. plain \subseteq DOMAIN Routes /\ matching \subseteq DOMAIN Routes
  BY DEF ParamRoutes
<1> HIDE DEF m, plain, exact, matching, path
<1>8. CASE exact # {}
  <2> DEFINE i == Max(exact)
  <2>1. exact \in SUBSET Nat /\ \A x \in exact : x <= Len(Routes) /\ Len(Routes) \in Nat
    BY <1>4, <1>6, <1>7
  <2>2. i \in exact /\ \A x \in exact : x <= i
    BY <1>8, <2>1, MaxIs
  <2>3. plain # {} /\ Service!Declared(r) = exact
    BY <1>3, <1>6, <1>8
  <2>4. i \in DOMAIN Routes /\ Service!Plain(i) /\ ~Dynamic(Routes[i].pattern)
    BY <1>4, <1>6, <1>7, <2>2
  <2>5. Service!Preferred(r, i)
    BY <2>2, <2>3, <2>4 DEF Service!Preferred
  <2>6. R.result = "found" /\ R.handler = i /\ R.params = <<>>
    BY <1>2, <1>8 DEF Found
  <2>7. Handler(i, <<>>) = [Status(200) EXCEPT !.route = i,
                                               !.args = Service!ArgsOf(i, r.path)]
    BY <2>4, PlainHandlerAnswers
  <2> HIDE DEF i
  <2> QED
    BY <2>2, <2>3, <2>4, <2>5, <2>6, <2>7 DEF Answered
<1>9. CASE exact = {} /\ plain # {}
  <2>1. MethodsOf(path) # {} /\ m \notin MethodsOf(path)
    BY <1>5, <1>6, <1>9
  <2>2. R.result = "methodNotAllowed"
    BY <1>2, <1>9, <2>1 DEF Miss
  <2>3. Service!Declared(r) = {}
    BY <1>3, <1>6, <1>9
  <2>4. \E i \in DOMAIN Routes : Service!Answers(i, path)
    BY <1>9 DEF plain
  <2> QED
    BY <2>2, <2>3, <2>4 DEF Answered, path
<1>10. CASE plain = {}
  <2>1. R = Search(m, path)
    BY <1>2, <1>5, <1>6, <1>10
  <2>2. \A i \in DOMAIN Routes : Service!Answers(i, path) <=> i \in matching
    <3>1. ASSUME NEW i \in DOMAIN Routes, Service!Plain(i), Service!Answers(i, path)
          PROVE  FALSE
      BY <1>10, <3>1 DEF plain
    <3>2. ASSUME NEW i \in DOMAIN Routes, i \in matching PROVE ~Service!Plain(i)
      BY <1>4, <3>2 DEF matching, ParamRoutes
    <3> QED
      BY <1>4, <3>1, <3>2
  <2>3. {i \in DOMAIN Routes : Service!Answers(i, path)} = matching
    BY <1>7, <2>2
  <2>4. Service!Declared(r) = own
    BY <1>3, <1>10, <2>3
  <2>5. R = IF own # {} THEN Found(Min(own), ParamsAfter(Min(own), path))
            ELSE Miss(IF matching # {} THEN "methodNotAllowed" ELSE "notFound")
    BY <2>1 DEF Search, matching
  <2>6. CASE own # {}
    <3> DEFINE i == Min(own)
    <3>1. own \in SUBSET Nat
      BY <1>4, <1>7
    <3>2. i \in own /\ \A x \in own : i <= x
      BY <2>6, <3>1, MinIs
    <3> HIDE DEF own
    <3>3. i \in matching
      BY <3>2 DEF own
    <3>4. i \in DOMAIN Routes /\ i \in ParamRoutes /\ MatchPattern(Routes[i].pattern, path)
      BY <1>7, <3>3 DEF matching
    <3>5. ~Service!Plain(i)
      BY <1>4, <3>4 DEF ParamRoutes
    <3>6. Service!Preferred(r, i)
      BY <2>4, <3>2, <3>5 DEF Service!Preferred
    <3>7. R.result = "found" /\ R.handler = i /\ R.params = ParamsAfter(i, path)
      BY <2>5, <2>6 DEF Found
    <3>8. Handler(i, ParamsAfter(i, path)) =
            [Status(200) EXCEPT !.route = i, !.args = Service!ArgsOf(i, path)]
      BY <1>1, <3>4, HandlerAnswers
    <3> HIDE DEF i
    <3> QED
      BY <2>4, <3>2, <3>4, <3>6, <3>7, <3>8 DEF Answered, path
  <2>7. CASE own = {} /\ matching # {}
    <3>1. R.result = "methodNotAllowed"
      BY <2>5, <2>7 DEF Miss
    <3>2. \E i \in DOMAIN Routes : Service!Answers(i, path)
      BY <1>7, <2>2, <2>7
    <3> QED
      BY <2>4, <2>7, <3>1, <3>2 DEF Answered, path
  <2>8. CASE matching = {}
    <3>1. own = {} /\ R.result = "notFound"
      BY <2>5, <2>8 DEF Miss
    <3> QED
      BY <2>2, <2>4, <2>8, <3>1 DEF Answered, path
  <2> QED
    BY <2>6, <2>7, <2>8
<1> QED
  BY <1>8, <1>9, <1>10

-----------------------------------------------------------------------------
(* EntriesValid, of any map and list.                                      *)
Valid(map, list) ==
    /\ \A f \in DOMAIN map :
          \E i \in DOMAIN list : list[i] = [path |-> f, node |-> map[f].node]
    /\ \A i, j \in DOMAIN list : list[i].node = list[j].node => i = j

(* There is an address no node of the list has.                            *)
LEMMA NewNodeIs ==
  ASSUME NEW list \in Seq(Nodes)
  PROVE  /\ NewNode(list) \in Nat \ {0}
         /\ \A i \in DOMAIN list : list[i].node # NewNode(list)
<1> DEFINE N == Len(list)
           Free(n) == \A i \in DOMAIN list : list[i].node # n
<1>1. N \in Nat /\ DOMAIN list = 1 .. N
  OBVIOUS
<1>2. \E n \in 1 .. N + 1 : Free(n)
  <2> SUFFICES ASSUME \A n \in 1 .. N + 1 : \E i \in 1 .. N : list[i].node = n
               PROVE  FALSE
    BY <1>1
  <2> DEFINE at == [n \in 1 .. N + 1 |-> CHOOSE i \in 1 .. N : list[i].node = n]
  <2>1. \A n \in 1 .. N + 1 : at[n] \in 1 .. N /\ list[at[n]].node = n
    OBVIOUS
  <2>2. at \in [1 .. N + 1 -> 1 .. N]
    BY <2>1
  <2>3. /\ IsFiniteSet(1 .. N) /\ IsFiniteSet(1 .. N + 1)
        /\ Cardinality(1 .. N) = N /\ Cardinality(1 .. N + 1) = N + 1
    <3>1. 1 \in Int /\ N \in Int /\ N + 1 \in Int /\ ~(1 > N + 1)
      BY <1>1
    <3>2. IsFiniteSet(1 .. N) /\ Cardinality(1 .. N) = IF 1 > N THEN 0 ELSE N - 1 + 1
      BY <3>1, FS_Interval
    <3>3. /\ IsFiniteSet(1 .. N + 1)
          /\ Cardinality(1 .. N + 1) = IF 1 > N + 1 THEN 0 ELSE (N + 1) - 1 + 1
      BY <3>1, FS_Interval
    <3> QED
      BY <1>1, <3>2, <3>3
  <2>4. Cardinality(1 .. N) < Cardinality(1 .. N + 1)
    BY <1>1, <2>3
  <2> HIDE DEF at
  <2>5. PICK x \in 1 .. N + 1, y \in 1 .. N + 1 : x # y /\ at[x] = at[y]
    <3> DEFINE S == 1 .. N + 1
               T == 1 .. N
    <3>1. at \in [S -> T] /\ IsFiniteSet(S) /\ IsFiniteSet(T) /\ Cardinality(T) < Cardinality(S)
      BY <2>2, <2>3, <2>4
    <3> HIDE DEF S, T
    <3>2. \E x, y \in S : x # y /\ at[x] = at[y]
      BY <3>1, FS_PigeonHole
    <3> QED
      BY <3>2 DEF S
  <2> QED
    BY <2>1, <2>5
<1>3. NewNode(list) = CHOOSE n \in 1 .. N + 1 : Free(n)
  BY DEF NewNode
<1> HIDE DEF Free
<1>4. NewNode(list) \in 1 .. N + 1 /\ Free(NewNode(list))
  BY <1>2, <1>3
<1> QED
  BY <1>1, <1>4 DEF Free

(* push_front().                                                           *)
LEMMA PushedIs ==
  ASSUME NEW list \in Seq(Nodes), NEW f \in Names
  PROVE  LET q == Pushed(list, f)
         IN  /\ q \in Seq(Nodes) /\ DOMAIN q = 1 .. Len(list) + 1
             /\ q[1] = [path |-> f, node |-> NewNode(list)]
             /\ \A i \in DOMAIN list : q[i + 1] = list[i]
<1> DEFINE n == [path |-> f, node |-> NewNode(list)]
<1>1. n \in Nodes
  BY NewNodeIs DEF Nodes
<1> HIDE DEF n
<1>2. <<n>> \in Seq(Nodes) /\ Len(<<n>>) = 1 /\ <<n>>[1] = n
  BY <1>1
<1>3. /\ <<n>> \o list \in Seq(Nodes) /\ Len(<<n>> \o list) = 1 + Len(list)
      /\ \A i \in 1 .. 1 + Len(list) :
            (<<n>> \o list)[i] = IF i <= 1 THEN <<n>>[i] ELSE list[i - 1]
  BY <1>2, ConcatProperties
<1>4. Pushed(list, f) = <<n>> \o list
  BY DEF Pushed, n
<1> QED
  BY <1>2, <1>3, <1>4 DEF n

(* cacheMap_[path] = {..., lruList_.begin()} after push_front(): the new   *)
(* entry points to the new node, the others to theirs.                     *)
LEMMA PushKeeps ==
  ASSUME NEW list \in Seq(Nodes), NEW f \in Names, NEW map, Valid(map, list),
         NEW entry, entry.node = NewNode(list)
  PROVE  Valid(Store(map, f, entry), Pushed(list, f))
<1> DEFINE q == Pushed(list, f)
           new == Store(map, f, entry)
<1>1. /\ q \in Seq(Nodes) /\ DOMAIN q = 1 .. Len(list) + 1 /\ Len(list) \in Nat
      /\ DOMAIN list = 1 .. Len(list)
      /\ q[1] = [path |-> f, node |-> NewNode(list)]
      /\ \A i \in DOMAIN list : q[i + 1] = list[i]
  BY PushedIs
<1>2. /\ DOMAIN new = DOMAIN map \cup {f} /\ new[f] = entry
      /\ \A g \in DOMAIN map : g # f => new[g] = map[g]
  BY DEF Store
<1>3. \A i \in DOMAIN list : list[i].node # NewNode(list)
  BY NewNodeIs
<1> HIDE DEF q, new
<1>4. ASSUME NEW g \in DOMAIN new
      PROVE  \E i \in DOMAIN q : q[i] = [path |-> g, node |-> new[g].node]
  <2>1. CASE g = f
    <3>1. 1 \in DOMAIN q /\ q[1] = [path |-> g, node |-> new[g].node]
      BY <1>1, <1>2, <2>1
    <3> QED
      BY <3>1
  <2>2. CASE g # f
    <3>1. PICK i \in DOMAIN list : list[i] = [path |-> g, node |-> map[g].node]
      BY <1>2, <2>2 DEF Valid
    <3>2. i + 1 \in DOMAIN q /\ q[i + 1] = [path |-> g, node |-> new[g].node]
      BY <1>1, <1>2, <2>2, <3>1
    <3> QED
      BY <3>2
  <2> QED
    BY <2>1, <2>2
<1>5. ASSUME NEW i \in DOMAIN q, NEW j \in DOMAIN q, q[i].node = q[j].node, i # j
      PROVE  FALSE
  <2>1. ASSUME NEW k \in DOMAIN q, k # 1
        PROVE  k - 1 \in DOMAIN list /\ q[k] = list[k - 1]
    <3>1. k - 1 \in DOMAIN list /\ (k - 1) + 1 = k
      BY <1>1, <2>1
    <3> QED
      BY <1>1, <3>1
  <2>2. CASE i = 1
    BY <1>1, <1>3, <1>5, <2>1, <2>2
  <2>3. CASE j = 1
    BY <1>1, <1>3, <1>5, <2>1, <2>3
  <2>4. CASE i # 1 /\ j # 1
    <3>1. i - 1 \in DOMAIN list /\ j - 1 \in DOMAIN list /\ list[i - 1].node = list[j - 1].node
      BY <1>5, <2>1, <2>4
    <3>2. i - 1 = j - 1
      BY <3>1 DEF Valid
    <3> QED
      BY <1>1, <1>5, <3>2
  <2> QED
    BY <2>2, <2>3, <2>4
<1> QED
  BY <1>4, <1>5 DEF Valid, q, new

(* erase(it).                                                              *)
LEMMA RemoveIs ==
  ASSUME NEW list \in Seq(Nodes), NEW k \in DOMAIN list
  PROVE  LET q == RemoveAt(list, k)
         IN  /\ q \in Seq(Nodes) /\ DOMAIN q = 1 .. Len(list) - 1
             /\ \A i \in 1 .. Len(list) - 1 : q[i] = IF i < k THEN list[i] ELSE list[i + 1]
<1>1. Len(list) \in Nat /\ k \in 1 .. Len(list)
  OBVIOUS
<1> DEFINE a == SubSeq(list, 1, k - 1)
           b == SubSeq(list, k + 1, Len(list))
<1>2. /\ a \in Seq(Nodes) /\ Len(a) = k - 1
      /\ \A i \in 1 .. k - 1 : a[i] = list[i]
  <2>1. \A i \in 1 .. k - 1 : list[i] \in Nodes
    BY <1>1
  <2> QED
    BY <1>1, <2>1, SubSeqProperties
<1>3. /\ b \in Seq(Nodes) /\ Len(b) = Len(list) - k
      /\ \A i \in 1 .. Len(list) - k : b[i] = list[k + i]
  <2>1. \A i \in k + 1 .. Len(list) : list[i] \in Nodes
    BY <1>1
  <2> QED
    BY <1>1, <2>1, SubSeqProperties
<1> HIDE DEF a, b
<1>4. /\ a \o b \in Seq(Nodes) /\ Len(a \o b) = (k - 1) + (Len(list) - k)
      /\ \A i \in 1 .. (k - 1) + (Len(list) - k) :
            (a \o b)[i] = IF i <= k - 1 THEN a[i] ELSE b[i - (k - 1)]
  <2>1. /\ a \o b \in Seq(Nodes) /\ Len(a \o b) = Len(a) + Len(b)
        /\ \A i \in 1 .. Len(a) + Len(b) :
              (a \o b)[i] = IF i <= Len(a) THEN a[i] ELSE b[i - Len(a)]
    BY <1>2, <1>3, ConcatProperties
  <2> QED
    BY <1>2, <1>3, <2>1
<1>5. RemoveAt(list, k) = a \o b
  BY DEF RemoveAt, a, b
<1>6. (k - 1) + (Len(list) - k) = Len(list) - 1
  BY <1>1
<1>7. ASSUME NEW i \in 1 .. Len(list) - 1
      PROVE  (a \o b)[i] = IF i < k THEN list[i] ELSE list[i + 1]
  <2>1. CASE i < k
    BY <1>1, <1>2, <1>4, <1>6, <1>7, <2>1
  <2>2. CASE ~(i < k)
    <3>1. i - (k - 1) \in 1 .. Len(list) - k /\ k + (i - (k - 1)) = i + 1
      BY <1>1, <1>7, <2>2
    <3>2. (a \o b)[i] = b[i - (k - 1)]
      BY <1>1, <1>4, <1>6, <1>7, <2>2
    <3> QED
      BY <1>3, <2>2, <3>1, <3>2
  <2> QED
    BY <2>1, <2>2
<1>8. DOMAIN (a \o b) = 1 .. Len(list) - 1
  BY <1>4, <1>6
<1> QED
  BY <1>4, <1>5, <1>7, <1>8

(* Erasing a node, and with it the only entry that may point to it.        *)
LEMMA RemoveKeeps ==
  ASSUME NEW list \in Seq(Nodes), NEW map, Valid(map, list), NEW k \in DOMAIN list,
         NEW f, \A g \in DOMAIN map : map[g].node = list[k].node => g = f
  PROVE  Valid(Forget(map, f), RemoveAt(list, k))
<1> DEFINE q == RemoveAt(list, k)
           new == Forget(map, f)
<1>1. /\ DOMAIN q = 1 .. Len(list) - 1
      /\ Len(list) \in Nat /\ DOMAIN list = 1 .. Len(list)
      /\ \A i \in 1 .. Len(list) - 1 : q[i] = IF i < k THEN list[i] ELSE list[i + 1]
  BY RemoveIs
<1>2. DOMAIN new = DOMAIN map \ {f} /\ \A g \in DOMAIN new : new[g] = map[g]
  BY DEF Forget
<1> HIDE DEF q, new
<1>3. ASSUME NEW g \in DOMAIN new
      PROVE  \E i \in DOMAIN q : q[i] = [path |-> g, node |-> new[g].node]
  <2>1. g \in DOMAIN map /\ g # f /\ new[g] = map[g]
    BY <1>2
  <2>2. PICK i \in DOMAIN list : list[i] = [path |-> g, node |-> map[g].node]
    BY <2>1 DEF Valid
  <2>3. i # k
    BY <2>1, <2>2
  <2>4. CASE i < k
    <3>1. i \in DOMAIN q /\ q[i] = list[i]
      BY <1>1, <2>4
    <3> QED
      BY <2>1, <2>2, <3>1
  <2>5. CASE i > k
    <3>1. i - 1 \in DOMAIN q /\ q[i - 1] = list[(i - 1) + 1] /\ (i - 1) + 1 = i
      BY <1>1, <2>5
    <3> QED
      BY <2>1, <2>2, <3>1
  <2> QED
    BY <1>1, <2>3, <2>4, <2>5
<1>4. ASSUME NEW i \in DOMAIN q, NEW j \in DOMAIN q, q[i].node = q[j].node
      PROVE  i = j
  <2> DEFINE At(x) == IF x < k THEN x ELSE x + 1
  <2>1. \A x \in DOMAIN q : At(x) \in DOMAIN list /\ q[x] = list[At(x)]
    BY <1>1
  <2>2. At(i) = At(j)
    <3> HIDE DEF At
    <3> QED
      BY <1>4, <2>1 DEF Valid
  <2> QED
    BY <1>1, <2>2
<1> QED
  BY <1>3, <1>4 DEF Valid, q, new

(* erase(back()) and pop_back(): whichever node the evicted path's entry   *)
(* points to, no other entry points to the last one.                       *)
LEMMA EvictKeeps ==
  ASSUME NEW list \in Seq(Nodes), Len(list) > 0, NEW map, Valid(map, list)
  PROVE  /\ SubSeq(list, 1, Len(list) - 1) \in Seq(Nodes)
         /\ Valid(Forget(map, list[Len(list)].path), SubSeq(list, 1, Len(list) - 1))
<1> DEFINE N == Len(list)
           q == SubSeq(list, 1, N - 1)
           f == list[N].path
           new == Forget(map, f)
<1>1. N \in Nat /\ N > 0 /\ DOMAIN list = 1 .. N
  OBVIOUS
<1>2. q \in Seq(Nodes) /\ DOMAIN q = 1 .. N - 1 /\ \A i \in 1 .. N - 1 : q[i] = list[i]
  <2>1. \A i \in 1 .. N - 1 : list[i] \in Nodes
    BY <1>1
  <2> QED
    BY <1>1, <2>1, SubSeqProperties
<1>3. DOMAIN new = DOMAIN map \ {f} /\ \A g \in DOMAIN new : new[g] = map[g]
  BY DEF Forget
<1> HIDE DEF q, new
<1>4. ASSUME NEW g \in DOMAIN new
      PROVE  \E i \in DOMAIN q : q[i] = [path |-> g, node |-> new[g].node]
  <2>1. g \in DOMAIN map /\ g # f /\ new[g] = map[g]
    BY <1>3
  <2>2. PICK i \in DOMAIN list : list[i] = [path |-> g, node |-> map[g].node]
    BY <2>1 DEF Valid
  <2>3. i # N
    BY <2>1, <2>2
  <2>4. i \in DOMAIN q /\ q[i] = list[i]
    BY <1>1, <1>2, <2>3
  <2> QED
    BY <2>1, <2>2, <2>4
<1>5. ASSUME NEW i \in DOMAIN q, NEW j \in DOMAIN q, q[i].node = q[j].node
      PROVE  i = j
  <2>1. i \in DOMAIN list /\ j \in DOMAIN list /\ q[i] = list[i] /\ q[j] = list[j]
    BY <1>1, <1>2
  <2> QED
    BY <1>5, <2>1 DEF Valid
<1> QED
  BY <1>2, <1>4, <1>5 DEF Valid, q, new

-----------------------------------------------------------------------------
(* A path leads to a file of the directory or to none.                     *)
LEMMA FileOfIs ==
  ASSUME NEW path
  PROVE  FileOf(path) \in Names \cup {None}
<1>1. \A at : FileAt(at) \in Names \cup {None}
  BY HandlerAssumption DEF FileAt
<1> QED
  BY <1>1 DEF FileOf

(* The service finds the same file.                                        *)
LEMMA FileForIs ==
  ASSUME NEW path
  PROVE  Service!FileFor(path) = FileOf(path)
<1> DEFINE at == IF IsDirectory(path) THEN Canonical(IndexPath(path)) ELSE Canonical(path)
           found == at \in DOMAIN Files /\ (IsDirectory(path) \/ EndsInName(path))
<1>1. IsDirectory(path) <=> Canonical(path) \in Directories
  BY DEF IsDirectory
<1>2. EndsInName(path) <=> path[Len(path)] \notin {"", "."}
  BY DEF EndsInName
<1>3. Service!Wanted(path) = IndexPath(path)
  BY DEF Service!Wanted, IndexPath
<1>4. FileOf(path) = IF found THEN Files[at] ELSE None
  BY DEF FileOf, FileAt
<1>5. \A f : Service!Leads(path, f) <=> found /\ Files[at] = f
  BY <1>1, <1>2, <1>3 DEF Service!Leads
<1>6. at \in DOMAIN Files => Files[at] \in Names
  BY HandlerAssumption
<1> HIDE DEF at
<1> QED
  BY <1>4, <1>5, <1>6 DEF Service!FileFor

(* The types of the request a worker has.                                  *)
LEMMA AskedIs ==
  ASSUME WorkInv, NEW w \in Workers, request[w] # None
  PROVE  /\ request[w] \in RequestRecords
         /\ Asked(w) \in [method : STRING, path : Seq(STRING)]
         /\ Asked(w).method = request[w].method /\ Asked(w).path = request[w].path
         /\ File(w) \in Names \cup {None} /\ File(w) = FileOf(request[w].path)
<1>1. request[w] \in RequestRecords
  BY DEF WorkInv, WorkerOK, RequestOK
<1> QED
  BY <1>1, FileOfIs DEF RequestRecords, Asked, File

(* A worker that does not move while the files stay as they are.           *)
LEMMA FrameKept ==
  ASSUME NEW w, WorkerOK(w), UNCHANGED <<setup, diskVars>>,
         pc'[w] = pc[w], request'[w] = request[w], fd'[w] = fd[w],
         answer'[w] = answer[w], seen'[w] = seen[w]
  PROVE  WorkerOK(w)'
BY DEF WorkerOK, RequestOK, SeenOK, FdOK, Servable, Genuine, File, Version, Look, Asked,
       SeenSinceOpen, Unrouted, setup, diskVars

(* The step of worker w alone, which leaves the files as they are.         *)
Frame(w) ==
    /\ UNCHANGED <<setup, diskVars>>
    /\ pc' \in [Workers -> Pcs] /\ DOMAIN request' = Workers /\ DOMAIN fd' = Workers
    /\ DOMAIN answer' = Workers /\ DOMAIN seen' = Workers
    /\ \A v \in Workers \ {w} :
          /\ pc'[v] = pc[v] /\ request'[v] = request[v] /\ fd'[v] = fd[v]
          /\ answer'[v] = answer[v] /\ seen'[v] = seen[v]

(* After such a step it is enough to look at w.                            *)
LEMMA WorkKept ==
  ASSUME WorkInv, NEW w \in Workers, Frame(w), WorkerOK(w)'
  PROVE  WorkInv'
<1>1. ASSUME NEW v \in Workers PROVE WorkerOK(v)'
  BY FrameKept DEF Frame, WorkInv
<1> QED
  BY <1>1 DEF WorkInv, Frame, setup

(* A response whose content, if it sends one, is genuine.                  *)
ReplyOK(w, r) ==
    /\ r.code \in Nat /\ r.content \in Nat
    /\ r.content > 0 => r.modified \in Nat /\ Servable(w, r.content, r.modified)

(* Every way handle() returns.                                             *)
LEMMA ReplyKeeps ==
  ASSUME WorkInv, NEW w \in Workers, request[w] # None, NEW r, ReplyOK(w, r),
         Reply(w, r), UNCHANGED <<setup, diskVars>>
  PROVE  WorkInv'
<1>1. Frame(w)
  BY DEF Frame, Reply, WorkInv, Pcs
<1>2. /\ pc'[w] = "idle" /\ answer'[w] = r /\ seen'[w] = {} /\ fd'[w] = None
      /\ request'[w] = request[w]
  BY DEF Reply, WorkInv
<1>3. RequestOK(w) /\ UNCHANGED diskVars
  BY DEF WorkInv, WorkerOK
<1>4. RequestOK(w)'
  BY <1>2, <1>3 DEF RequestOK, ReplyOK, Servable, Genuine, File, Version,
     Asked, Pcs, diskVars
<1>5. SeenOK(w)' /\ FdOK(w)'
  BY <1>2 DEF SeenOK, FdOK
<1> QED
  BY <1>1, <1>4, <1>5, WorkKept DEF WorkerOK

(* A worker that goes on, with what must hold where it comes to.           *)
LEMMA GoesKeeps ==
  ASSUME WorkInv, NEW w \in Workers, request[w] # None, pc[w] # "idle",
         NEW to \in Pcs \ {"idle", "route"}, Goes(w, to),
         UNCHANGED <<setup, diskVars>>, DOMAIN fd' = Workers,
         \A v \in Workers \ {w} : fd'[v] = fd[v],
         Unrouted(Asked(w)), to \in {"open", "blocked"} => File(w) \in Names,
         to = "blocked" => Kind[File(w)] = "fifo",
         fd'[w] # None <=> to \in {"lookup", "read", "insert"},
         fd'[w] # None =>
          /\ fd'[w] \in [content : Nat, mtime : Nat, linked : BOOLEAN]
          /\ Servable(w, fd'[w].content, fd'[w].mtime)
          /\ \E o \in 1 .. Version(File(w)) :
               /\ stamps[File(w)][o] = fd'[w].mtime
               /\ \A v \in o .. Version(File(w)) :
                     [place |-> "file", version |-> v] \in seen[w]
  PROVE  WorkInv'
<1>1. Frame(w)
  BY DEF Frame, Goes, WorkInv
<1>2. /\ pc'[w] = to /\ answer'[w] = answer[w] /\ seen'[w] = seen[w]
      /\ request'[w] = request[w]
  BY DEF Goes, WorkInv
<1>3. RequestOK(w) /\ SeenOK(w) /\ UNCHANGED diskVars
  BY DEF WorkInv, WorkerOK
<1>4. RequestOK(w)'
  BY <1>2, <1>3 DEF RequestOK, Servable, Genuine, File, Version, Asked, Pcs, diskVars
<1>5. SeenOK(w)'
  BY <1>2, <1>3 DEF SeenOK, Look, File, Version, diskVars
<1>6. UNCHANGED <<File(w), Asked(w), stamps>>
  BY <1>2, <1>3 DEF File, Asked, diskVars
<1>7. Unrouted(Asked(w))'
  BY <1>6 DEF Unrouted, setup
<1>8. FdOK(w)'
  BY <1>2, <1>6, <1>7 DEF FdOK, Servable, Genuine, Version, SeenSinceOpen
<1> QED
  BY <1>1, <1>4, <1>5, <1>8, WorkKept DEF WorkerOK

(* The next request: the copy the client sends back is genuine, since its  *)
(* last answer was.                                                        *)
LEMMA ArrivesKeeps ==
  ASSUME WorkInv, DiskInv, NEW w \in Workers, Arrives(w)
  PROVE  WorkInv'
<1>1. PICK r \in menu :
        /\ \E h \in {None} \cup (IF request[w] # None /\ r.path = request[w].path
                                THEN {Held(w)} ELSE {}) :
              request' = [request EXCEPT ![w] =
                            [method |-> r.method, path |-> r.path, held |-> h]]
        /\ seen' = [seen EXCEPT ![w] = {Look(r.path)}]
  BY DEF Arrives
<1>2. PICK h \in {None} \cup (IF request[w] # None /\ r.path = request[w].path
                            THEN {Held(w)} ELSE {}) :
         request' = [request EXCEPT ![w] = [method |-> r.method, path |-> r.path, held |-> h]]
  BY <1>1
<1>3. /\ pc[w] = "idle" /\ pc' = [pc EXCEPT ![w] = "route"]
      /\ answer' = [answer EXCEPT ![w] = Unanswered] /\ fd' = fd
      /\ UNCHANGED <<setup, diskVars>>
  BY DEF Arrives
<1>4. Frame(w)
  BY <1>1, <1>2, <1>3 DEF Frame, WorkInv, Pcs
<1>5. /\ pc'[w] = "route" /\ answer'[w] = Unanswered /\ seen'[w] = {Look(r.path)}
      /\ request'[w] = [method |-> r.method, path |-> r.path, held |-> h] /\ fd'[w] = fd[w]
  BY <1>1, <1>2, <1>3 DEF WorkInv
<1>6. r \in Requests /\ r \in [method : STRING, path : Seq(STRING)]
  BY HandlerAssumption DEF WorkInv, Requests
<1>7. ASSUME h # None
      PROVE  /\ h \in Copies
             /\ request[w] # None /\ r.path = request[w].path
             /\ Servable(w, h.content, h.modified)
  <2>1. h = Held(w) /\ request[w] # None /\ r.path = request[w].path /\ RequestOK(w)
    BY <1>7 DEF WorkInv, WorkerOK
  <2>2. CASE answer[w].code = 304
    <3>1. h = request[w].held
      BY <1>7, <2>1, <2>2 DEF Held
    <3>2. request[w] \in RequestRecords
      BY <2>1 DEF RequestOK
    <3> QED
      BY <1>7, <2>1, <3>1, <3>2 DEF RequestOK, RequestRecords
  <2>3. CASE answer[w].code # 304
    <3>1. answer[w].content > 0
          /\ h = [content |-> answer[w].content, modified |-> answer[w].modified]
      BY <1>7, <2>1, <2>3 DEF Held
    <3> QED
      BY <2>1, <3>1 DEF RequestOK, Copies
  <2> QED
    BY <2>2, <2>3
<1>8. request'[w] \in RequestRecords /\ request'[w] # None
  BY <1>5, <1>6, <1>7, NoneAssumption DEF RequestRecords, Copies
<1>9. Asked(w)' = r
  BY <1>5, <1>6 DEF Asked
<1>10. File(w)' = FileOf(r.path) /\ request'[w].path = r.path /\ request'[w].held = h
  BY <1>5 DEF File
<1>11. h # None => Servable(w, h.content, h.modified)'
  BY <1>3, <1>7, <1>10 DEF Servable, Genuine, File, Version, diskVars
<1>12. RequestOK(w)'
  BY <1>3, <1>5, <1>6, <1>8, <1>9, <1>10, <1>11 DEF RequestOK, Pcs, Unanswered,
     Status, Requests
<1>13. SeenOK(w)'
  <2>1. Look(r.path)' = Look(r.path)
    BY <1>3 DEF Look, Version, diskVars
  <2>2. ASSUME FileOf(r.path) \in Names
        PROVE  /\ Look(r.path).version \in 1 .. Version(FileOf(r.path))
               /\ Look(r.path).place \in {"file", "absent", "elsewhere"}
    BY <2>2, NoneAssumption DEF Look, DiskInv, Version
  <2> QED
    BY <1>3, <1>5, <1>10, <2>1, <2>2 DEF SeenOK, Version, diskVars
<1>14. FdOK(w)'
  <2>1. fd[w] = None
    BY <1>3 DEF WorkInv, WorkerOK, FdOK
  <2> QED
    BY <1>5, <2>1 DEF FdOK
<1> QED
  BY <1>4, <1>12, <1>13, <1>14, WorkKept DEF WorkerOK

(* The worker's task; a request that goes on to the files is for no route. *)
LEMMA RouteTaskKeeps ==
  ASSUME WorkInv, NEW w \in Workers, RouteTask(w)
  PROVE  WorkInv'
<1> DEFINE R == Route(request[w].method, request[w].path)
<1>1. pc[w] = "route" /\ request[w] # None /\ UNCHANGED <<setup, diskVars>>
  BY DEF RouteTask, WorkInv, WorkerOK, RequestOK
<1>2. /\ Asked(w) \in [method : STRING, path : Seq(STRING)]
      /\ Asked(w).method = request[w].method /\ Asked(w).path = request[w].path
  BY <1>1, AskedIs
<1>3. Answered(Asked(w), R)
  BY <1>2, RouteIs
<1> HIDE DEF R
<1>4. CASE R.result = "found"
  <2>1. Reply(w, Handler(R.handler, R.params))
    BY <1>4 DEF RouteTask, R
  <2>2. ReplyOK(w, Handler(R.handler, R.params))
    <3>1. Handler(R.handler, R.params) =
            [Status(200) EXCEPT !.route = R.handler,
                                !.args = Service!ArgsOf(R.handler, Asked(w).path)]
      BY <1>3, <1>4 DEF Answered
    <3> DEFINE a == Handler(R.handler, R.params)
    <3>2. a.code = 200 /\ a.content = 0
      BY <3>1 DEF Status
    <3> HIDE DEF a
    <3>3. ReplyOK(w, a)
      BY <3>2 DEF ReplyOK
    <3> QED
      BY <3>3 DEF a
  <2> QED
    BY <1>1, <2>1, <2>2, ReplyKeeps
<1>5. CASE R.result = "methodNotAllowed"
  <2>1. Reply(w, Status(405)) /\ ReplyOK(w, Status(405))
    BY <1>5 DEF RouteTask, R, ReplyOK, Status
  <2> QED
    BY <1>1, <2>1, ReplyKeeps
<1>6. CASE R.result = "notFound" /\ Refused(request[w]).code # 0
  <2>1. Reply(w, Refused(request[w])) /\ ReplyOK(w, Refused(request[w]))
    BY <1>6 DEF RouteTask, R, ReplyOK, Status, Refused, Unanswered
  <2> QED
    BY <1>1, <2>1, ReplyKeeps
<1>7. CASE R.result = "notFound" /\ Refused(request[w]).code = 0
  <2>1. Goes(w, "resolve") /\ UNCHANGED fd
    BY <1>7 DEF RouteTask, R
  <2>2. Service!Routed(Asked(w)) = {} /\ Service!NotAllowed(Asked(w)) = {}
    BY <1>2, <1>3, <1>7 DEF Answered, Service!Routed, Service!NotAllowed
  <2>3. /\ enabled /\ request[w].method \in {"GET", "HEAD"}
        /\ \A i \in DOMAIN request[w].path : request[w].path[i] # ".."
    BY <1>7 DEF Refused, Status, Unanswered
  <2>4. Unrouted(Asked(w))
    BY <1>2, <2>2, <2>3 DEF Unrouted
  <2>5. fd[w] = None /\ DOMAIN fd = Workers
    BY <1>1 DEF WorkInv, WorkerOK, FdOK
  <2> QED
    BY <1>1, <2>1, <2>4, <2>5, GoesKeeps DEF Pcs
<1> QED
  BY <1>3, <1>4, <1>5, <1>6, <1>7 DEF Answered

(* realpath.                                                               *)
LEMMA ResolveKeeps ==
  ASSUME WorkInv, DiskInv, NEW w \in Workers, Resolve(w)
  PROVE  WorkInv'
<1>1. /\ pc[w] = "resolve" /\ request[w] # None /\ UNCHANGED <<setup, diskVars>>
      /\ Unrouted(Asked(w)) /\ fd[w] = None /\ DOMAIN fd = Workers
  BY DEF Resolve, WorkInv, WorkerOK, RequestOK, FdOK
<1>2. ReplyOK(w, Status(404)) /\ ReplyOK(w, Status(403))
  BY DEF ReplyOK, Status
<1>3. CASE Reply(w, Status(404)) \/ Reply(w, Status(403))
  BY <1>1, <1>2, <1>3, ReplyKeeps
<1>4. CASE File(w) # None /\ Goes(w, "open") /\ UNCHANGED fd
  <2>1. File(w) \in Names
    BY <1>1, <1>4, AskedIs
  <2> QED
    BY <1>1, <1>4, <2>1, GoesKeeps DEF Pcs
<1>5. File(w) # None => place[File(w)] \in {"file", "absent", "elsewhere"}
  BY <1>1, AskedIs DEF DiskInv
<1> QED
  BY <1>3, <1>4, <1>5 DEF Resolve

(* openResolved and fstat: what the path holds at this moment was seen, so *)
(* the descriptor's version is.                                            *)
LEMMA OpenKeeps ==
  ASSUME WorkInv, DiskInv, NEW w \in Workers, Open(w)
  PROVE  WorkInv'
<1> DEFINE f == File(w)
           mtime == stamps[f][Version(f)]
<1>1. /\ pc[w] = "open" /\ request[w] # None /\ UNCHANGED <<setup, diskVars>>
      /\ Unrouted(Asked(w)) /\ fd[w] = None /\ DOMAIN fd = Workers /\ f \in Names
      /\ SeenOK(w)
  BY DEF Open, WorkInv, WorkerOK, RequestOK, FdOK
<1>2. /\ Version(f) \in Nat /\ Version(f) > 0 /\ mtime \in Nat
  BY <1>1 DEF DiskInv, Version
<1>3. Kind[f] \notin {"special", "fifo", "huge"} => Servable(w, Version(f), mtime)
  BY <1>1, <1>2 DEF Servable, Genuine
<1>4. \A code \in Nat : ReplyOK(w, Status(code))
  BY DEF ReplyOK, Status
<1>5. CASE \E code \in {404, 304, 413} : Reply(w, Status(code))
  BY <1>1, <1>4, <1>5, ReplyKeeps
<1>6. CASE Kind[f] \notin {"special", "fifo", "huge"} /\ Reply(w, Body(Version(f), mtime))
  <2>1. ReplyOK(w, Body(Version(f), mtime))
    BY <1>2, <1>3, <1>6 DEF ReplyOK, Body, Status
  <2> QED
    BY <1>1, <1>6, <2>1, ReplyKeeps
<1>7. CASE /\ Kind[f] \notin {"special", "fifo", "huge"} /\ place[f] = "file" /\ Goes(w, "lookup")
           /\ fd' = [fd EXCEPT ![w] = [content |-> Version(f),
                                       mtime |-> mtime, linked |-> TRUE]]
  <2> DEFINE d == [content |-> Version(f), mtime |-> mtime, linked |-> TRUE]
  <2>1. /\ DOMAIN fd' = Workers /\ fd'[w] = d /\ \A v \in Workers \ {w} : fd'[v] = fd[v]
    BY <1>1, <1>7
  <2>2. /\ d \in [content : Nat, mtime : Nat, linked : BOOLEAN]
        /\ d.content = Version(f) /\ d.mtime = mtime
    BY <1>2
  <2>3. d # None /\ Servable(w, d.content, d.mtime)
    BY <1>3, <1>7, <2>2, NoneAssumption
  <2>4. [place |-> "file", version |-> Version(f)] \in seen[w]
    <3>1. Look(request[w].path) \in seen[w]
      BY <1>1 DEF SeenOK
    <3> QED
      BY <1>1, <1>7, <3>1, NoneAssumption DEF Look, File
  <2>5. \E o \in 1 .. Version(f) :
          /\ stamps[f][o] = d.mtime
          /\ \A v \in o .. Version(f) : [place |-> "file", version |-> v] \in seen[w]
    <3>1. Version(f) \in 1 .. Version(f) /\ \A v \in Version(f) .. Version(f) : v = Version(f)
      BY <1>2
    <3> QED
      BY <2>2, <2>4, <3>1
  <2> HIDE DEF d, f, mtime
  <2>6. "lookup" \in Pcs \ {"idle", "route"}
    BY DEF Pcs
  <2> QED
    BY <1>1, <1>7, <2>1, <2>2, <2>3, <2>5, <2>6, GoesKeeps DEF f
<1> HIDE DEF f, mtime
<1>8. Kind[f] \in {"small", "large", "huge", "special", "fifo"}
  BY <1>1, HandlerAssumption
<1>9. IF place[f] # "file" THEN Reply(w, Status(404))
      ELSE IF Kind[f] = "fifo" THEN Goes(w, "blocked") /\ UNCHANGED fd
      ELSE Opened(w, f, mtime)
  BY DEF Open, Openable, f, mtime
<1>10. ASSUME place[f] = "file", Kind[f] # "fifo", Opened(w, f, mtime), ~\E code \in {404, 304, 413} : Reply(w, Status(code))
       PROVE  /\ Kind[f] \notin {"special", "fifo", "huge"}
              /\ \/ Reply(w, Body(Version(f), mtime))
                 \/ /\ Goes(w, "lookup")
                    /\ fd' = [fd EXCEPT ![w] = [content |-> Version(f),
                                                mtime |-> mtime, linked |-> TRUE]]
  BY <1>8, <1>10 DEF Opened
<1>11. CASE Kind[f] = "fifo" /\ Goes(w, "blocked") /\ UNCHANGED fd
  BY <1>1, <1>11, GoesKeeps DEF Pcs, f
<1> QED
  BY <1>5, <1>6, <1>7, <1>9, <1>10, <1>11

(* The FIFO is open, and no file.                                          *)
LEMMA WriterComesKeeps ==
  ASSUME WorkInv, NEW w \in Workers, WriterComes(w)
  PROVE  WorkInv'
<1>1. /\ request[w] # None /\ UNCHANGED <<setup, diskVars>> /\ Reply(w, Status(404))
  BY DEF WriterComes, WorkInv, WorkerOK, RequestOK
<1>2. ReplyOK(w, Status(404))
  BY DEF ReplyOK, Status
<1> QED
  BY <1>1, <1>2, ReplyKeeps

(* What is known of a descriptor while it is used.                         *)
LEMMA FdIs ==
  ASSUME WorkInv, NEW w \in Workers, pc[w] \in {"lookup", "read", "insert"}
  PROVE  /\ request[w] # None /\ fd[w] # None /\ DOMAIN fd = Workers
         /\ Unrouted(Asked(w)) /\ File(w) \in Names
         /\ fd[w] \in [content : Nat, mtime : Nat, linked : BOOLEAN]
         /\ Servable(w, fd[w].content, fd[w].mtime) /\ SeenSinceOpen(w)
BY DEF WorkInv, WorkerOK, RequestOK, FdOK, Servable

(* The first locked section: a hit is sent only with the time its entry    *)
(* has.                                                                    *)
LEMMA LookupKeeps ==
  ASSUME WorkInv, CacheInv, NEW w \in Workers, Lookup(w)
  PROVE  WorkInv'
<1>1. /\ pc[w] = "lookup" /\ UNCHANGED <<setup, diskVars>>
  BY DEF Lookup
<1>2. CASE Goes(w, "read") /\ UNCHANGED fd
  <2>1. "read" \in Pcs \ {"idle", "route"}
    BY DEF Pcs
  <2> QED
    BY <1>1, <1>2, <2>1, FdIs, GoesKeeps DEF SeenSinceOpen
<1>3. ASSUME File(w) \in DOMAIN cacheMap, cacheMap[File(w)].mtime = fd[w].mtime,
             Reply(w, Body(cacheMap[File(w)].content, fd[w].mtime))
      PROVE  WorkInv'
  <2>1. Genuine(File(w), cacheMap[File(w)].content, fd[w].mtime)
    BY <1>3 DEF CacheInv
  <2>2. Servable(w, cacheMap[File(w)].content, fd[w].mtime)
    BY <1>1, <2>1, FdIs DEF Servable
  <2>3. ReplyOK(w, Body(cacheMap[File(w)].content, fd[w].mtime))
    BY <2>1, <2>2 DEF ReplyOK, Body, Status, Genuine
  <2> QED
    BY <1>1, <1>3, <2>3, FdIs, ReplyKeeps
<1> QED
  BY <1>2, <1>3 DEF Lookup, Current

(* readFd: the content stays, and later changes no longer reach it.        *)
LEMMA ReadKeeps ==
  ASSUME WorkInv, NEW w \in Workers, Read(w)
  PROVE  WorkInv'
<1>1. /\ pc[w] = "read" /\ UNCHANGED <<setup, diskVars>>
  BY DEF Read
<1>2. CASE Goes(w, "insert") /\ fd' = [fd EXCEPT ![w].linked = FALSE]
  <2>1. "insert" \in Pcs \ {"idle", "route"}
    BY DEF Pcs
  <2>2. /\ fd'[w] \in [content : Nat, mtime : Nat, linked : BOOLEAN]
        /\ fd'[w].content = fd[w].content /\ fd'[w].mtime = fd[w].mtime
        /\ DOMAIN fd' = Workers /\ \A v \in Workers \ {w} : fd'[v] = fd[v]
    BY <1>1, <1>2, FdIs
  <2>3. fd'[w] # None
    BY <2>2, NoneAssumption
  <2> QED
    BY <1>1, <1>2, <2>1, <2>2, <2>3, FdIs, GoesKeeps DEF SeenSinceOpen
<1>3. CASE Reply(w, Status(500))
  <2>1. ReplyOK(w, Status(500))
    BY DEF ReplyOK, Status
  <2> QED
    BY <1>1, <1>3, <2>1, FdIs, ReplyKeeps
<1> QED
  BY <1>2, <1>3 DEF Read

(* The second locked section, of the worker.                               *)
LEMMA InsertKeeps ==
  ASSUME WorkInv, NEW w \in Workers, Insert(w)
  PROVE  WorkInv'
<1>1. /\ pc[w] = "insert" /\ UNCHANGED <<setup, diskVars>>
      /\ Reply(w, Body(fd[w].content, fd[w].mtime))
  BY DEF Insert
<1>2. ReplyOK(w, Body(fd[w].content, fd[w].mtime))
  BY <1>1, FdIs DEF ReplyOK, Body, Status
<1> QED
  BY <1>1, <1>2, FdIs, ReplyKeeps

-----------------------------------------------------------------------------
(* lruList_.erase(entry.node) erases the node the entry points to, and no  *)
(* other entry points to it.                                               *)
LEMMA WithoutIs ==
  ASSUME CacheInv, NEW f \in DOMAIN cacheMap
  PROVE  \E k \in DOMAIN lruList :
            /\ WithoutNode(cacheMap[f].node) = RemoveAt(lruList, k)
            /\ \A g \in DOMAIN cacheMap : cacheMap[g].node = lruList[k].node => g = f
<1> DEFINE Its(i) == lruList[i].node = cacheMap[f].node
           k == CHOOSE i \in DOMAIN lruList : Its(i)
<1>1. PICK i \in DOMAIN lruList : lruList[i] = [path |-> f, node |-> cacheMap[f].node]
  BY DEF CacheInv, EntriesValid
<1>2. \E j \in DOMAIN lruList : Its(j)
  BY <1>1
<1> HIDE DEF Its
<1>3. k \in DOMAIN lruList /\ Its(k)
  BY <1>2
<1> HIDE DEF k
<1>4. WithoutNode(cacheMap[f].node) = RemoveAt(lruList, k)
  BY DEF WithoutNode, k, Its
<1>5. ASSUME NEW g \in DOMAIN cacheMap, cacheMap[g].node = lruList[k].node
      PROVE  g = f
  <2>1. PICK j \in DOMAIN lruList : lruList[j] = [path |-> g, node |-> cacheMap[g].node]
    BY DEF CacheInv, EntriesValid
  <2>2. lruList[i].node = lruList[j].node
    BY <1>1, <1>3, <1>5, <2>1 DEF Its
  <2>3. i = j
    BY <2>2 DEF CacheInv, EntriesValid
  <2>4. lruList[i].path = f /\ lruList[j].path = g
    BY <1>1, <2>1
  <2> QED
    BY <2>3, <2>4
<1> QED
  BY <1>3, <1>4, <1>5

(* CacheInv, of any map and list.                                          *)
Cached(map, list) ==
    /\ list \in Seq(Nodes)
    /\ DOMAIN map \subseteq Names
    /\ \A f \in DOMAIN map : /\ map[f] \in Entries
                             /\ Genuine(f, map[f].content, map[f].mtime)
    /\ Valid(map, list)

(* That is what it is, and a step that leaves the files as they are may be *)
(* judged by it.                                                           *)
LEMMA CachedIs ==
  /\ CacheInv <=> Cached(cacheMap, lruList)
  /\ Cached(cacheMap', lruList') /\ UNCHANGED diskVars => CacheInv'
BY DEF CacheInv, Cached, EntriesValid, Valid, Genuine, Version, diskVars

(* cacheMap_.erase().                                                      *)
LEMMA ForgetKeeps ==
  ASSUME CacheInv, NEW f, NEW list \in Seq(Nodes), Valid(Forget(cacheMap, f), list)
  PROVE  Cached(Forget(cacheMap, f), list)
BY DEF CacheInv, Cached, Forget

(* A new entry for a genuine content.                                      *)
LEMMA StoreKeeps ==
  ASSUME NEW map, NEW list, Cached(map, list), NEW f \in Names, NEW entry \in Entries,
         Genuine(f, entry.content, entry.mtime), entry.node = NewNode(list)
  PROVE  Cached(Store(map, f, entry), Pushed(list, f))
<1>1. list \in Seq(Nodes) /\ Valid(map, list) /\ DOMAIN map \subseteq Names
  BY DEF Cached
<1>2. Valid(Store(map, f, entry), Pushed(list, f))
  BY <1>1, PushKeeps
<1>3. Pushed(list, f) \in Seq(Nodes)
  BY <1>1, PushedIs
<1>4. /\ DOMAIN Store(map, f, entry) = DOMAIN map \cup {f}
      /\ \A g \in DOMAIN Store(map, f, entry) :
            Store(map, f, entry)[g] = IF g = f THEN entry ELSE map[g]
  BY DEF Store
<1> QED
  BY <1>1, <1>2, <1>3, <1>4 DEF Cached

(* The first locked section: a hit moves its node to the front; a stale    *)
(* entry goes, with its node.                                              *)
LEMMA LookupKeepsCache ==
  ASSUME WorkInv, CacheInv, NEW w \in Workers, Lookup(w)
  PROVE  CacheInv'
<1> DEFINE f == File(w)
           e == cacheMap[f]
           rest == WithoutNode(e.node)
<1>1. UNCHANGED diskVars /\ pc[w] = "lookup" /\ f \in Names
  BY FdIs DEF Lookup
<1>2. CASE f \notin DOMAIN cacheMap
  <2>1. UNCHANGED cacheVars
    BY <1>2 DEF Lookup
  <2> QED
    BY <1>1, <2>1, CachedIs DEF cacheVars
<1>3. ASSUME f \in DOMAIN cacheMap
      PROVE  Cached(Forget(cacheMap, f), rest)
  <2>1. lruList \in Seq(Nodes) /\ Valid(cacheMap, lruList)
    BY DEF CacheInv, Valid, EntriesValid
  <2>2. PICK k \in DOMAIN lruList :
            /\ rest = RemoveAt(lruList, k)
            /\ \A g \in DOMAIN cacheMap : cacheMap[g].node = lruList[k].node => g = f
    BY <1>3, WithoutIs
  <2>3. rest \in Seq(Nodes) /\ Valid(Forget(cacheMap, f), rest)
    BY <2>1, <2>2, RemoveIs, RemoveKeeps
  <2> QED
    BY <2>3, ForgetKeeps
<1>4. ASSUME f \in DOMAIN cacheMap, lruList' = rest, cacheMap' = Forget(cacheMap, f)
      PROVE  CacheInv'
  BY <1>1, <1>3, <1>4, CachedIs
<1>5. ASSUME f \in DOMAIN cacheMap, lruList' = Pushed(rest, f),
             cacheMap' = [cacheMap EXCEPT ![f].node = NewNode(rest)]
      PROVE  CacheInv'
  <2> DEFINE entry == [e EXCEPT !.node = NewNode(rest)]
             new == Store(Forget(cacheMap, f), f, entry)
  <2>1. rest \in Seq(Nodes) /\ NewNode(rest) \in Nat \ {0}
    BY <1>3, <1>5, NewNodeIs DEF Cached
  <2>2. e \in Entries /\ Genuine(f, e.content, e.mtime)
    BY <1>5 DEF CacheInv
  <2>3. /\ entry \in Entries /\ entry.node = NewNode(rest)
        /\ entry.content = e.content /\ entry.mtime = e.mtime
    BY <2>1, <2>2 DEF Entries
  <2> HIDE DEF entry, rest
  <2>4. Cached(new, Pushed(rest, f))
    BY <1>1, <1>3, <1>5, <2>2, <2>3, StoreKeeps
  <2>5. /\ DOMAIN new = DOMAIN cacheMap /\ DOMAIN cacheMap' = DOMAIN cacheMap
        /\ \A g \in DOMAIN cacheMap : new[g] = cacheMap'[g]
    BY <1>5 DEF Store, Forget, entry
  <2> HIDE DEF new, f
  <2>6. Cached(cacheMap', lruList')
    <3>1. lruList' = Pushed(rest, f)
      BY <1>5
    <3>2. lruList' \in Seq(Nodes) /\ DOMAIN cacheMap' \subseteq Names
      BY <2>4, <2>5, <3>1 DEF Cached
    <3>3. ASSUME NEW g \in DOMAIN cacheMap'
          PROVE  cacheMap'[g] \in Entries /\ Genuine(g, cacheMap'[g].content, cacheMap'[g].mtime)
      <4>1. g \in DOMAIN new /\ cacheMap'[g] = new[g]
        BY <2>5, <3>3
      <4> QED
        BY <2>4, <4>1 DEF Cached
    <3>4. Valid(cacheMap', lruList')
      <4>1. Valid(new, lruList')
        BY <2>4, <3>1 DEF Cached
      <4> QED
        BY <2>5, <4>1 DEF Valid
    <3> QED
      BY <3>2, <3>3, <3>4 DEF Cached
  <2> QED
    BY <1>1, <2>6, CachedIs
<1> QED
  BY <1>2, <1>4, <1>5 DEF Lookup

(* The second: with the cache full, the map is not empty, so neither is    *)
(* the list, and back() has a node.                                        *)
LEMMA InsertKeepsCache ==
  ASSUME WorkInv, CacheInv, NEW w \in Workers, Insert(w)
  PROVE  CacheInv'
<1> DEFINE f == File(w)
           full == Cardinality(DOMAIN cacheMap) >= MaxCacheEntries
           map == IF full THEN Evicted(cacheMap, lruList) ELSE cacheMap
           list == IF full THEN SubSeq(lruList, 1, Len(lruList) - 1) ELSE lruList
           entry == [content |-> fd[w].content, mtime |-> fd[w].mtime, node |-> NewNode(list)]
<1>1. UNCHANGED diskVars /\ pc[w] = "insert" /\ f \in Names
  BY FdIs DEF Insert
<1>2. Cached(map, list)
  <2>1. CASE full
    <3>1. DOMAIN cacheMap # {}
      <4>1. MaxCacheEntries \in Nat /\ MaxCacheEntries > 0
        BY HandlerAssumption
      <4>2. Cardinality({}) = 0
        BY FS_EmptySet
      <4>3. ASSUME DOMAIN cacheMap = {} PROVE FALSE
        <5>1. Cardinality(DOMAIN cacheMap) = 0
          BY <4>2, <4>3
        <5>2. Cardinality(DOMAIN cacheMap) >= MaxCacheEntries
          BY <2>1
        <5> QED
          BY <4>1, <5>1, <5>2
      <4> QED
        BY <4>3
    <3>2. lruList \in Seq(Nodes) /\ Valid(cacheMap, lruList)
      BY DEF CacheInv, Valid, EntriesValid
    <3>3. PICK i : i \in DOMAIN lruList
      BY <3>1, <3>2 DEF Valid
    <3>4. Len(lruList) > 0
      BY <3>2, <3>3
    <3>5. list \in Seq(Nodes) /\ Valid(Evicted(cacheMap, lruList), list)
      BY <2>1, <3>2, <3>4, EvictKeeps DEF Evicted
    <3> QED
      BY <2>1, <3>5, ForgetKeeps DEF Evicted
  <2>2. CASE ~full
    BY <2>2, CachedIs
  <2> QED
    BY <2>1, <2>2
<1>3. list \in Seq(Nodes) /\ NewNode(list) \in Nat \ {0}
  BY <1>2, NewNodeIs DEF Cached
<1>4. cacheMap' = Store(map, f, entry) /\ lruList' = Pushed(list, f)
  BY DEF Insert
<1> HIDE DEF full, map, list
<1>5. /\ entry \in Entries /\ entry.node = NewNode(list)
      /\ entry.content = fd[w].content /\ entry.mtime = fd[w].mtime
  BY <1>1, <1>3, FdIs DEF Entries
<1>6. Genuine(f, fd[w].content, fd[w].mtime)
  BY <1>1, FdIs DEF Servable
<1> HIDE DEF entry, f
<1>7. Cached(Store(map, f, entry), Pushed(list, f))
  BY <1>1, <1>2, <1>5, <1>6, StoreKeeps
<1> QED
  BY <1>1, <1>4, <1>7, CachedIs

-----------------------------------------------------------------------------
(* What a change does to the versions: one more, or none.                  *)
Grown(f) ==
    /\ \A g \in Names \ {f} : stamps'[g] = stamps[g] /\ place'[g] = place[g]
    /\ \/ stamps'[f] = stamps[f]
       \/ /\ place'[f] = "file"
          /\ \E t \in Nat : stamps'[f] = Append(stamps[f], t)

(* And to those there were.                                                *)
Kept(g) ==
    /\ Version(g) \in Nat /\ Len(stamps'[g]) \in Nat /\ Version(g) <= Len(stamps'[g])
    /\ \A v \in 1 .. Version(g) : stamps'[g][v] = stamps[g][v]
    /\ Ascending(stamps'[g]) => Ascending(stamps[g])

(* Every change is of that kind.                                           *)
LEMMA ChangeGrows ==
  ASSUME DiskInv, NEW f \in Names, FilesChange(f)
  PROVE  /\ Grown(f) /\ stamps' = [g \in Names |-> stamps'[g]]
         /\ place' \in [Names -> {"file", "absent", "elsewhere"}]
<1>1. /\ stamps \in [Names -> Seq(Nat)] /\ Version(f) \in Nat /\ Version(f) > 0
      /\ place \in [Names -> {"file", "absent", "elsewhere"}]
      /\ Version(f) = Len(stamps[f]) /\ stamps[f] \in Seq(Nat)
  BY DEF DiskInv, Version
<1>2. stamps[f][Version(f)] \in Nat
  BY <1>1
<1>3. CASE NewVersion(f)
  <2>1. PICK t \in 0 .. stamps[f][Version(f)] + 1 :
            stamps' = [stamps EXCEPT ![f] = Append(@, t)]
    BY <1>3 DEF NewVersion
  <2>2. t \in Nat
    BY <1>2, <2>1
  <2>3. place' = [place EXCEPT ![f] = "file"]
    BY <1>3 DEF NewVersion
  <2>4. stamps'[f] = Append(stamps[f], t) /\ stamps' = [g \in Names |-> stamps'[g]]
    BY <1>1, <2>1
  <2>5. \A g \in Names \ {f} : stamps'[g] = stamps[g] /\ place'[g] = place[g]
    BY <1>1, <2>1, <2>3
  <2>6. place' \in [Names -> {"file", "absent", "elsewhere"}] /\ place'[f] = "file"
    BY <1>1, <2>3
  <2> QED
    BY <2>2, <2>4, <2>5, <2>6 DEF Grown
<1>4. CASE RemoveFile(f)
  BY <1>1, <1>4 DEF RemoveFile, Grown
<1> QED
  BY <1>3, <1>4 DEF FilesChange, WriteInPlace, Replace

(* No version is lost, and times that are in order were so before.         *)
LEMMA ChangeKeepsDisk ==
  ASSUME DiskInv, NEW f \in Names, FilesChange(f)
  PROVE  DiskInv' /\ \A g \in Names : Kept(g)
<1>1. \A g \in Names : stamps[g] \in Seq(Nat) /\ Len(stamps[g]) > 0
  BY DEF DiskInv, Version
<1>2. /\ Grown(f) /\ stamps' = [g \in Names |-> stamps'[g]]
      /\ place' \in [Names -> {"file", "absent", "elsewhere"}]
  BY ChangeGrows
<1>3. ASSUME NEW g \in Names
      PROVE  /\ stamps'[g] \in Seq(Nat) /\ Len(stamps'[g]) > 0
             /\ Len(stamps[g]) \in Nat /\ Len(stamps'[g]) \in Nat
             /\ Len(stamps[g]) <= Len(stamps'[g])
             /\ \A v \in 1 .. Len(stamps[g]) : stamps'[g][v] = stamps[g][v]
  <2>1. CASE stamps'[g] = stamps[g]
    BY <1>1, <2>1
  <2>2. CASE stamps'[g] # stamps[g]
    <3>1. PICK t \in Nat : stamps'[g] = Append(stamps[g], t)
      BY <1>2, <2>2 DEF Grown
    <3> DEFINE s == stamps[g]
    <3>2. s \in Seq(Nat) /\ Len(s) > 0
      BY <1>1
    <3> HIDE DEF s
    <3>3. /\ Append(s, t) \in Seq(Nat) /\ Len(Append(s, t)) = Len(s) + 1 /\ Len(s) \in Nat
          /\ \A i \in 1 .. Len(s) : Append(s, t)[i] = s[i]
      BY <3>2
    <3> QED
      BY <3>1, <3>2, <3>3 DEF s
  <2> QED
    BY <2>1, <2>2
<1>4. ASSUME NEW g \in Names, Ascending(stamps'[g]) PROVE Ascending(stamps[g])
  <2>1. \A i \in 1 .. Len(stamps[g]) : i \in 1 .. Len(stamps'[g]) /\ stamps'[g][i] = stamps[g][i]
    BY <1>3
  <2> QED
    BY <1>4, <2>1 DEF Ascending
<1>5. \A g \in Names : Kept(g)
  BY <1>3, <1>4 DEF Kept, Version
<1>6. stamps' \in [Names -> Seq(Nat)]
  <2>1. \A g \in Names : stamps'[g] \in Seq(Nat)
    BY <1>3
  <2> QED
    BY <1>2, <2>1
<1> QED
  BY <1>2, <1>3, <1>5, <1>6 DEF DiskInv, Version

(* A genuine content stays so: its version has its time for ever.          *)
LEMMA GenuineKept ==
  ASSUME NEW g, Kept(g), NEW c, NEW m, Genuine(g, c, m)
  PROVE  /\ Len(stamps'[g]) \in Nat /\ c \in 1 .. Len(stamps'[g]) /\ m \in Nat
         /\ Ascending(stamps'[g]) => m <= stamps'[g][c]
BY DEF Kept, Genuine, Version

(* The cache does not notice a change, and its contents stay genuine.      *)
LEMMA ChangeKeepsCache ==
  ASSUME DiskInv, CacheInv, NEW f \in Names, FilesChange(f)
  PROVE  CacheInv'
<1>1. UNCHANGED cacheVars
  BY DEF FilesChange, WriteInPlace, Replace, RemoveFile, NewVersion
<1>2. \A g \in Names : Kept(g)
  BY ChangeKeepsDisk
<1>3. lruList' = lruList /\ cacheMap' = cacheMap
  BY <1>1 DEF cacheVars
<1>4. ASSUME NEW g \in DOMAIN cacheMap
      PROVE  Genuine(g, cacheMap[g].content, cacheMap[g].mtime)'
  <2>1. g \in Names /\ Genuine(g, cacheMap[g].content, cacheMap[g].mtime)
    BY DEF CacheInv
  <2> DEFINE c == cacheMap[g].content
             m == cacheMap[g].mtime
  <2>2. /\ Len(stamps'[g]) \in Nat /\ c \in 1 .. Len(stamps'[g]) /\ m \in Nat
        /\ Ascending(stamps'[g]) => m <= stamps'[g][c]
    <3> HIDE DEF c, m
    <3> QED
      BY <1>2, <2>1, GenuineKept DEF c, m
  <2> QED
    BY <1>3, <2>1, <2>2 DEF Genuine, Version
<1>5. EntriesValid'
  BY <1>3 DEF CacheInv, EntriesValid
<1> QED
  BY <1>3, <1>4, <1>5 DEF CacheInv

(* An open descriptor reads the next version after a write in place, and   *)
(* its own after everything else; the time fstat returned stays.           *)
LEMMA ChangeFds ==
  ASSUME DiskInv, WorkInv, NEW f \in Names, FilesChange(f), NEW w \in Workers
  PROVE  /\ DOMAIN fd' = Workers
         /\ fd'[w] # None <=> fd[w] # None
         /\ fd[w] # None =>
               /\ fd'[w] \in [content : Nat, mtime : Nat, linked : BOOLEAN]
               /\ fd'[w].mtime = fd[w].mtime
               /\ \/ fd'[w].content = fd[w].content
                  \/ /\ fd'[w].content = fd[w].content + 1 /\ File(w) = f
                     /\ \E t : stamps'[f] = Append(stamps[f], t)
<1>1. fd[w] # None => fd[w] \in [content : Nat, mtime : Nat, linked : BOOLEAN]
  BY DEF WorkInv, WorkerOK, FdOK
<1>2. CASE WriteInPlace(f)
  <2>1. fd' = [v \in Workers |-> IF Reads(v, f) THEN [fd[v] EXCEPT !.content = @ + 1] ELSE fd[v]]
    BY <1>2 DEF WriteInPlace
  <2>2. \E t : stamps'[f] = Append(stamps[f], t)
    <3>1. PICK t : stamps' = [stamps EXCEPT ![f] = Append(@, t)]
      BY <1>2 DEF WriteInPlace, NewVersion
    <3> QED
      BY <3>1 DEF DiskInv
  <2> QED
    BY <1>1, <2>1, <2>2, NoneAssumption DEF Reads
<1>3. CASE Unlinked(f)
  BY <1>1, <1>3, NoneAssumption DEF Unlinked, Reads
<1> QED
  BY <1>2, <1>3 DEF FilesChange, Replace, RemoveFile

(* What a change leaves alone, and what is seen of it.                     *)
LEMMA ChangeFrame ==
  ASSUME WorkInv, NEW f \in Names, FilesChange(f)
  PROVE  /\ UNCHANGED <<setup, pc, request, answer>>
         /\ \/ place' = [place EXCEPT ![f] = "file"]
            \/ UNCHANGED stamps
         /\ seen' = [w \in Workers |->
                IF pc[w] = "idle" \/ FileOf(request[w].path) # f THEN seen[w]
                ELSE seen[w] \union {[place |-> place'[f], version |-> Len(stamps'[f])]}]
BY DEF FilesChange, WriteInPlace, Replace, RemoveFile, NewVersion, Watched

(* A change under a worker: what it is about to send may be newer than it  *)
(* was, never older, and the new version was seen.                         *)
LEMMA ChangeKeepsWorker ==
  ASSUME DiskInv, WorkInv, NEW f \in Names, FilesChange(f), NEW w \in Workers
  PROVE  WorkerOK(w)'
<1>1. /\ pc' = pc /\ request' = request /\ answer' = answer
      /\ RequestOK(w) /\ SeenOK(w) /\ FdOK(w)
  BY ChangeFrame DEF WorkInv, WorkerOK
<1>2. UNCHANGED <<File(w), Asked(w)>>
  BY <1>1 DEF File, Asked
<1>3. \A g \in Names : Kept(g)
  BY ChangeKeepsDisk
<1>4. ASSUME NEW c, NEW m, Servable(w, c, m)
      PROVE  /\ File(w) \in Names /\ Kind[File(w)] \notin {"special", "fifo", "huge"}
             /\ Len(stamps'[File(w)]) \in Nat /\ c \in 1 .. Len(stamps'[File(w)])
             /\ m \in Nat /\ (Ascending(stamps'[File(w)]) => m <= stamps'[File(w)][c])
  BY <1>3, <1>4, GenuineKept DEF Servable
<1>5. RequestOK(w)'
  <2>1. ASSUME request[w] # None, request[w].held # None
        PROVE  Servable(w, request[w].held.content, request[w].held.modified)'
    <3>1. Servable(w, request[w].held.content, request[w].held.modified)
      BY <1>1, <2>1 DEF RequestOK
    <3> QED
      BY <1>1, <1>2, <1>4, <3>1 DEF Servable, Genuine, Version
  <2>2. ASSUME answer[w].content > 0
        PROVE  Servable(w, answer[w].content, answer[w].modified)'
    <3>1. Servable(w, answer[w].content, answer[w].modified)
      BY <1>1, <2>2 DEF RequestOK
    <3> QED
      BY <1>1, <1>2, <1>4, <3>1 DEF Servable, Genuine, Version
  <2> QED
    BY <1>1, <1>2, <2>1, <2>2 DEF RequestOK
<1>6. seen'[w] = IF pc[w] = "idle" \/ File(w) # f THEN seen[w]
                 ELSE seen[w] \union {[place |-> place'[f], version |-> Len(stamps'[f])]}
  BY ChangeFrame DEF File
<1>7. ASSUME pc[w] # "idle" PROVE Look(request[w].path)' \in seen'[w]
  <2>1. Look(request[w].path) \in seen[w]
    BY <1>1, <1>7 DEF SeenOK
  <2>2. CASE File(w) = f
    <3>1. Look(request[w].path)' = [place |-> place'[f], version |-> Len(stamps'[f])]
      BY <1>1, <2>2, NoneAssumption DEF Look, Version, File
    <3> QED
      BY <1>6, <1>7, <2>2, <3>1
  <2>3. CASE File(w) # f
    <3>1. File(w) \in Names \cup {None}
      BY FileOfIs DEF File
    <3>2. File(w) \in Names => stamps'[File(w)] = stamps[File(w)] /\ place'[File(w)] = place[File(w)]
      BY <2>3, ChangeGrows DEF Grown
    <3>3. Look(request[w].path)' = Look(request[w].path)
      BY <1>1, <3>1, <3>2 DEF Look, Version, File
    <3> QED
      BY <1>6, <2>1, <2>3, <3>3
  <2> QED
    BY <2>2, <2>3
<1>8. SeenOK(w)'
  <2>1. ASSUME pc[w] # "idle", File(w) \in Names, NEW look \in seen'[w]
        PROVE  /\ look.version \in 1 .. Len(stamps'[File(w)])
               /\ look.place \in {"file", "absent", "elsewhere"}
    <3>1. Kept(File(w)) /\ DiskInv'
      BY <1>3, <2>1, ChangeKeepsDisk
    <3>2. CASE look \in seen[w]
      BY <1>1, <2>1, <3>1, <3>2 DEF SeenOK, Kept
    <3>3. CASE File(w) = f /\ look = [place |-> place'[f], version |-> Len(stamps'[f])]
      <4>1. place'[f] \in {"file", "absent", "elsewhere"} /\ Len(stamps'[f]) > 0
        BY <3>1 DEF DiskInv, Version
      <4>2. Len(stamps'[f]) \in Nat
        BY <3>1, <3>3 DEF Kept
      <4> QED
        BY <3>3, <4>1, <4>2
    <3> QED
      BY <1>6, <2>1, <3>2, <3>3
  <2> QED
    BY <1>1, <1>2, <1>6, <1>7, <2>1 DEF SeenOK, Version
<1>9. FdOK(w)'
  <2>1. /\ fd'[w] # None <=> fd[w] # None
        /\ fd[w] # None =>
               /\ fd'[w] \in [content : Nat, mtime : Nat, linked : BOOLEAN]
               /\ fd'[w].mtime = fd[w].mtime
               /\ \/ fd'[w].content = fd[w].content
                  \/ /\ fd'[w].content = fd[w].content + 1 /\ File(w) = f
                     /\ \E t : stamps'[f] = Append(stamps[f], t)
    BY ChangeFds
  <2>2. ASSUME fd[w] # None
        PROVE  Servable(w, fd[w].content, fd[w].mtime)' /\ SeenSinceOpen(w)'
    <3> DEFINE g == File(w)
    <3>1. Servable(w, fd[w].content, fd[w].mtime) /\ SeenSinceOpen(w) /\ pc[w] # "idle"
      BY <1>1, <2>2 DEF FdOK
    <3>2. g \in Names /\ Kept(g) /\ DiskInv'
      BY <1>3, <3>1, ChangeKeepsDisk DEF Servable
    <3>3. Servable(w, fd[w].content, fd[w].mtime)'
      <4>1. CASE fd'[w].content = fd[w].content
        BY <1>2, <1>4, <2>1, <2>2, <3>1, <4>1 DEF Servable, Genuine, Version
      <4>2. CASE /\ fd'[w].content = fd[w].content + 1 /\ g = f
                 /\ \E t : stamps'[f] = Append(stamps[f], t)
        <5> DEFINE c == fd[w].content
        <5>1. /\ c \in 1 .. Version(g) /\ c \in 1 .. Len(stamps'[g]) /\ fd[w].mtime \in Nat
              /\ Ascending(stamps'[g]) => fd[w].mtime <= stamps'[g][c]
          BY <1>4, <3>1 DEF Servable, Genuine
        <5>2. Len(stamps'[g]) = Version(g) + 1
          <6>1. stamps[f] \in Seq(Nat)
            BY DEF DiskInv
          <6> QED
            BY <4>2, <6>1 DEF Version
        <5>3. c + 1 \in 1 .. Len(stamps'[g]) /\ Len(stamps'[g]) \in Nat
          BY <3>2, <5>1, <5>2 DEF Kept
        <5>4. Ascending(stamps'[g]) => fd[w].mtime <= stamps'[g][c + 1]
          <6>1. stamps'[g] \in Seq(Nat)
            BY <3>2 DEF DiskInv
          <6> HIDE DEF c
          <6> QED
            BY <5>1, <5>3, <6>1, AscendingIs
        <5> QED
          BY <1>2, <2>1, <2>2, <3>1, <4>2, <5>1, <5>3, <5>4 DEF Servable, Genuine, Version
      <4> QED
        BY <2>1, <2>2, <4>1, <4>2
    <3>4. SeenSinceOpen(w)'
      <4>1. PICK o \in 1 .. Version(g) :
              /\ stamps[g][o] = fd[w].mtime
              /\ \A v \in o .. Version(g) : [place |-> "file", version |-> v] \in seen[w]
        BY <3>1 DEF SeenSinceOpen
      <4>2. o \in 1 .. Len(stamps'[g]) /\ stamps'[g][o] = fd'[w].mtime
        BY <2>1, <2>2, <3>2, <4>1 DEF Kept
      <4>3. ASSUME NEW v \in o .. Len(stamps'[g]), v \notin o .. Version(g)
            PROVE  [place |-> "file", version |-> v] \in seen'[w]
        <5>1. Len(stamps'[g]) # Version(g)
          BY <4>3
        <5>2. g = f /\ stamps'[f] # stamps[f]
          <6>1. stamps'[g] # stamps[g]
            BY <5>1 DEF Version
          <6>2. g # f => stamps'[g] = stamps[g]
            BY <3>2, ChangeGrows DEF Grown
          <6> QED
            BY <6>1, <6>2
        <5>3. place'[f] = "file" /\ \E t \in Nat : stamps'[f] = Append(stamps[f], t)
          BY <5>2, ChangeGrows DEF Grown
        <5>4. Len(stamps'[g]) = Version(g) + 1
          <6>1. stamps[f] \in Seq(Nat)
            BY DEF DiskInv
          <6> QED
            BY <5>2, <5>3, <6>1 DEF Version
        <5>5. v = Len(stamps'[f])
          <6>1. v = Len(stamps'[g])
            BY <3>2, <4>1, <4>3, <5>4 DEF Kept
          <6> QED
            BY <5>2, <6>1 DEF Version
        <5> QED
          BY <1>6, <3>1, <5>2, <5>3, <5>5
      <4>4. ASSUME NEW v \in o .. Version(g)
            PROVE  [place |-> "file", version |-> v] \in seen'[w]
        BY <1>6, <4>1
      <4>5. \A v \in o .. Len(stamps'[g]) : [place |-> "file", version |-> v] \in seen'[w]
        BY <4>3, <4>4
      <4> QED
        BY <1>2, <4>2, <4>5 DEF SeenSinceOpen, Version
    <3> QED
      BY <3>3, <3>4
  <2>3. Unrouted(Asked(w)) => Unrouted(Asked(w))'
    BY <1>2, ChangeFrame DEF Unrouted, setup
  <2> QED
    BY <1>1, <1>2, <2>1, <2>2, <2>3 DEF FdOK
<1> QED
  BY <1>5, <1>8, <1>9 DEF WorkerOK

(* The same for all of them.                                               *)
LEMMA ChangeKeepsWork ==
  ASSUME DiskInv, WorkInv, NEW f \in Names, FilesChange(f)
  PROVE  WorkInv'
<1>1. /\ UNCHANGED <<setup, pc, request, answer>> /\ DOMAIN seen' = Workers
  BY ChangeFrame
<1>2. DOMAIN fd' = Workers
  BY DEF FilesChange, WriteInPlace, Replace, RemoveFile, Unlinked
<1>3. \A w \in Workers : WorkerOK(w)'
  BY ChangeKeepsWorker
<1> QED
  BY <1>1, <1>2, <1>3 DEF WorkInv, setup

-----------------------------------------------------------------------------
(* The server starts with an empty cache and idle workers.                 *)
LEMMA InitIInv == Init => IInv
<1> SUFFICES ASSUME Init PROVE IInv
  OBVIOUS
<1>1. /\ stamps = [f \in Names |-> <<1>>] /\ place = [f \in Names |-> "file"]
      /\ cacheMap = <<>> /\ lruList = <<>>
  BY DEF Init
<1>2. DiskInv
  <2>1. <<1>> \in Seq(Nat) /\ Len(<<1>>) = 1
    OBVIOUS
  <2> QED
    BY <1>1, <2>1 DEF DiskInv, Version
<1>3. CacheInv
  <2>1. DOMAIN cacheMap = {} /\ DOMAIN lruList = {} /\ lruList \in Seq(Nodes)
    BY <1>1
  <2> QED
    BY <2>1 DEF CacheInv, EntriesValid
<1>4. WorkInv
  BY DEF Init, WorkInv, WorkerOK, RequestOK, SeenOK, FdOK, Pcs, Unanswered, Status
<1> QED
  BY <1>2, <1>3, <1>4 DEF IInv

(* Every step keeps the invariant.                                         *)
LEMMA StepIInv == IInv /\ [Next]_vars => IInv'
<1> SUFFICES ASSUME IInv, [Next]_vars PROVE IInv'
  OBVIOUS
<1> USE DEF IInv
<1>1. CASE UNCHANGED vars
  <2>1. DiskInv'
    BY <1>1 DEF DiskInv, Version, vars, diskVars
  <2>2. CacheInv'
    BY <1>1, CachedIs DEF vars, cacheVars
  <2>3. WorkInv'
    BY <1>1, FrameKept DEF WorkInv, vars, setup, workVars
  <2> QED
    BY <2>1, <2>2, <2>3
<1>2. ASSUME NEW w \in Workers, WorkerStep(w) PROVE IInv'
  <2>1. DiskInv'
    <3>1. UNCHANGED diskVars
      BY <1>2 DEF WorkerStep, Arrives, RouteTask, Resolve, Open, WriterComes,
         Lookup, Read, Insert
    <3> QED
      BY <3>1 DEF DiskInv, Version, diskVars
  <2>2. CASE Arrives(w) \/ RouteTask(w) \/ Resolve(w) \/ Open(w)
               \/ WriterComes(w) \/ Read(w)
    <3>1. UNCHANGED <<diskVars, cacheVars>>
      BY <2>2 DEF Arrives, RouteTask, Resolve, Open, WriterComes, Read
    <3>2. CacheInv'
      BY <3>1, CachedIs DEF cacheVars
    <3>3. WorkInv'
      BY <2>2, ArrivesKeeps, RouteTaskKeeps, ResolveKeeps, OpenKeeps,
         WriterComesKeeps, ReadKeeps
    <3> QED
      BY <2>1, <3>2, <3>3
  <2>3. CASE Lookup(w)
    BY <2>1, <2>3, LookupKeeps, LookupKeepsCache
  <2>4. CASE Insert(w)
    BY <2>1, <2>4, InsertKeeps, InsertKeepsCache
  <2> QED
    BY <1>2, <2>2, <2>3, <2>4 DEF WorkerStep
<1>3. ASSUME NEW f \in Names, FilesChange(f) PROVE IInv'
  BY <1>3, ChangeKeepsDisk, ChangeKeepsCache, ChangeKeepsWork
<1> QED
  BY <1>1, <1>2, <1>3 DEF Next

(* The inductive invariant holds in every state.                           *)
THEOREM Invariance == Spec => []IInv
BY InitIInv, StepIInv, PTL DEF Spec

(* The invariant gives TypeOK.                                             *)
LEMMA IInvTypeOK == IInv => TypeOK
<1> SUFFICES ASSUME IInv PROVE TypeOK
  OBVIOUS
<1>1. stamps \in [Names -> Seq(Nat)] /\ place \in [Names -> {"file", "absent", "elsewhere"}]
  BY DEF IInv, DiskInv
<1>2. ASSUME NEW f \in DOMAIN cacheMap
      PROVE  /\ f \in Names /\ cacheMap[f].content \in 1 .. Version(f)
             /\ cacheMap[f].mtime \in Nat /\ cacheMap[f].node \in Nat \ {0}
  BY DEF IInv, CacheInv, Genuine, Entries
<1>3. ASSUME NEW i \in DOMAIN lruList
      PROVE  lruList[i].path \in Names /\ lruList[i].node \in Nat \ {0}
  <2>1. lruList[i] \in Nodes
    BY DEF IInv, CacheInv
  <2> QED
    BY <2>1 DEF Nodes
<1>4. pc \in [Workers -> Pcs]
  BY DEF IInv, WorkInv
<1>5. \A w \in Workers : (fd[w] # None) <=> (pc[w] \in {"lookup", "read", "insert"})
  BY DEF IInv, WorkInv, WorkerOK, FdOK
<1> QED
  BY <1>1, <1>2, <1>3, <1>4, <1>5 DEF TypeOK, Pcs

(* The types of the state; a descriptor is open exactly while its worker   *)
(* may still read it, on every way out of handle(); and the version of a   *)
(* cached content is one its file has had.                                 *)
THEOREM TypeCorrect == Spec => []TypeOK
BY Invariance, IInvTypeOK, PTL

(* An entry's iterator is valid and points to a node of its own path, and  *)
(* no two nodes are the same, however the workers' locked sections         *)
(* alternate: erase(it) is only called with an iterator of lruList_.       *)
THEOREM IteratorsValid == Spec => []EntriesValid
<1>1. IInv => EntriesValid
  BY DEF IInv, CacheInv
<1> QED
  BY <1>1, Invariance, PTL

-----------------------------------------------------------------------------
(* The refinement mapping: what worker w was asked, while it is at it; and *)
(* Meaning(w), what it last answered.                                      *)
Serving(w) == IF pc[w] = "idle" THEN None ELSE Asked(w)

(* The variables of the service, so named.                                 *)
LEMMA ServiceVars ==
  /\ Service!vars = <<enabled, stamps, place, [w \in Workers |-> Serving(w)], seen,
                      [w \in Workers |-> Meaning(w)]>>
  /\ Service!vars' = <<enabled', stamps', place', [w \in Workers |-> Serving(w)'], seen',
                       [w \in Workers |-> Meaning(w)']>>
BY DEF Service!vars, Serving, Asked

(* A worker that has not answered has the same last answer,                *)
LEMMA MeaningKept ==
  ASSUME NEW w, request'[w] = request[w], answer'[w] = answer[w]
  PROVE  Meaning(w)' = Meaning(w)
BY DEF Meaning, File

(* and one that goes on serves the same request.                           *)
LEMMA ServingKept ==
  ASSUME NEW w, request'[w] = request[w], (pc'[w] = "idle") <=> (pc[w] = "idle")
  PROVE  Serving(w)' = Serving(w)
BY DEF Serving, Asked

(* The service does not see what happens inside handle().                  *)
LEMMA GoesStutters ==
  ASSUME WorkInv, NEW w \in Workers, pc[w] # "idle", NEW to \in Pcs \ {"idle"}, Goes(w, to),
         UNCHANGED <<setup, diskVars>>
  PROVE  UNCHANGED Service!vars
<1>1. /\ \A v \in Workers : (pc'[v] = "idle") <=> (pc[v] = "idle")
      /\ request' = request /\ answer' = answer /\ seen' = seen
  BY DEF Goes, WorkInv
<1>2. \A v \in Workers : Serving(v)' = Serving(v) /\ Meaning(v)' = Meaning(v)
  BY <1>1, ServingKept, MeaningKept
<1> QED
  BY <1>1, <1>2, ServiceVars DEF diskVars, setup

(* Meaning(w) after the response r.                                        *)
Means(w, r) ==
    IF r.code = 0 THEN None
    ELSE [code |-> IF r.code = 304 THEN 200 ELSE r.code,
          from |-> IF r.route > 0 THEN <<"route", r.route>>
                   ELSE IF r.code = 304 THEN <<File(w), request[w].held.content>>
                   ELSE IF r.content > 0 THEN <<File(w), r.content>>
                   ELSE None,
          args |-> r.args]

(* And that is it.                                                         *)
LEMMA MeansIs ==
  ASSUME WorkInv, NEW w \in Workers, NEW r, Reply(w, r)
  PROVE  Meaning(w)' = Means(w, r)
<1>1. answer'[w] = r /\ request' = request
  BY DEF Reply, WorkInv
<1> QED
  BY <1>1 DEF Meaning, Means, File

(* A response without a body.                                              *)
LEMMA MeansPlainly ==
  ASSUME NEW w, NEW code, code \notin {0, 304}
  PROVE  Means(w, Status(code)) = Service!Plainly(code)
BY DEF Means, Status, Service!Plainly

(* A response with a content of the file.                                  *)
LEMMA MeansContent ==
  ASSUME NEW w, NEW c \in Nat, c > 0, NEW m
  PROVE  Means(w, Body(c, m)) = Service!Content(File(w), c)
<1>1. /\ Body(c, m).code = 200 /\ Body(c, m).route = 0 /\ Body(c, m).content = c
      /\ Body(c, m).args = {}
  BY DEF Body, Status
<1> QED
  BY <1>1 DEF Means, Service!Content

(* A response is an answer of the service if its meaning is one the        *)
(* service allows.                                                         *)
LEMMA ReplyAnswers ==
  ASSUME WorkInv, NEW w \in Workers, pc[w] # "idle", NEW r, Reply(w, r), UNCHANGED <<setup, diskVars>>,
         Means(w, r) \in Service!Replies(Asked(w), seen[w])
  PROVE  Service!Answer(w)
<1> DEFINE asked == [v \in Workers |-> Serving(v)]
           reply == [v \in Workers |-> Meaning(v)]
<1>0. Meaning(w)' \in Service!Replies(Asked(w), seen[w])
  BY MeansIs
<1>1. /\ pc'[w] = "idle" /\ DOMAIN seen = Workers /\ seen' = [seen EXCEPT ![w] = {}]
      /\ \A v \in Workers \ {w} : pc'[v] = pc[v] /\ answer'[v] = answer[v]
      /\ request' = request
  BY DEF Reply, WorkInv
<1>2. \A v \in Workers \ {w} : Serving(v)' = Serving(v) /\ Meaning(v)' = Meaning(v)
  BY <1>1, ServingKept, MeaningKept
<1>3. request[w] # None
  BY DEF WorkInv, WorkerOK, RequestOK
<1>4. Asked(w) # None
  BY <1>3, AskedIs, NoneAssumption
<1>5. asked[w] = Asked(w) /\ asked[w] # None
  BY <1>4 DEF Serving
<1>6. [v \in Workers |-> Serving(v)'] = [asked EXCEPT ![w] = None]
  BY <1>1, <1>2 DEF Serving
<1>7. [v \in Workers |-> Meaning(v)'] = [reply EXCEPT ![w] = Meaning(w)']
  BY <1>2
<1>8. asked = [v \in Workers |-> IF pc[v] = "idle" THEN None
                ELSE [method |-> request[v].method, path |-> request[v].path]]
  BY DEF Serving, Asked
<1>9. [v \in Workers |-> Serving(v)'] = [v \in Workers |-> IF pc'[v] = "idle" THEN None
                ELSE [method |-> request'[v].method, path |-> request'[v].path]]
  BY DEF Serving, Asked
<1> HIDE DEF asked
<1> QED
  BY <1>0, <1>1, <1>5, <1>6, <1>7, <1>8, <1>9 DEF Service!Answer, diskVars, setup

(* A request arrives at the service.                                       *)
LEMMA ArrivesSubmits ==
  ASSUME WorkInv, NEW w \in Workers, Arrives(w)
  PROVE  Service!Submit(w)
<1> DEFINE asked == [v \in Workers |-> Serving(v)]
           reply == [v \in Workers |-> Meaning(v)]
<1>1. PICK r \in menu :
        /\ \E h : request' = [request EXCEPT ![w] =
                            [method |-> r.method, path |-> r.path, held |-> h]]
        /\ seen' = [seen EXCEPT ![w] = {Look(r.path)}]
  BY DEF Arrives
<1>2. PICK h : request' = [request EXCEPT ![w] =
                             [method |-> r.method, path |-> r.path, held |-> h]]
  BY <1>1
<1>3. /\ pc[w] = "idle" /\ pc' = [pc EXCEPT ![w] = "route"]
      /\ answer' = [answer EXCEPT ![w] = Unanswered] /\ UNCHANGED <<setup, diskVars>>
      /\ DOMAIN pc = Workers /\ DOMAIN request = Workers /\ DOMAIN answer = Workers
  BY DEF Arrives, WorkInv
<1>4. r \in Requests /\ r = [method |-> r.method, path |-> r.path]
  <2>1. r \in Requests /\ r \in [method : STRING, path : Seq(STRING)]
    BY HandlerAssumption DEF WorkInv, Requests
  <2> QED
    BY <2>1
<1>5. \A v \in Workers \ {w} : Serving(v)' = Serving(v) /\ Meaning(v)' = Meaning(v)
  BY <1>2, <1>3, ServingKept, MeaningKept
<1>6. Serving(w)' = r /\ Meaning(w)' = None /\ Serving(w) = None
  BY <1>2, <1>3, <1>4 DEF Serving, Asked, Meaning, Unanswered, Status
<1>7. [v \in Workers |-> Serving(v)'] = [asked EXCEPT ![w] = r]
  BY <1>5, <1>6
<1>8. [v \in Workers |-> Meaning(v)'] = [reply EXCEPT ![w] = None]
  BY <1>5, <1>6
<1>9. asked = [v \in Workers |-> IF pc[v] = "idle" THEN None
                ELSE [method |-> request[v].method, path |-> request[v].path]]
  BY DEF Serving, Asked
<1>10. [v \in Workers |-> Serving(v)'] = [v \in Workers |-> IF pc'[v] = "idle" THEN None
                ELSE [method |-> request'[v].method, path |-> request'[v].path]]
  BY DEF Serving, Asked
<1>11. asked[w] = None
  BY <1>6
<1>12. Look(r.path) = Service!LookAt(r)
  BY FileForIs DEF Look, Service!LookAt, Version
<1> HIDE DEF asked
<1> QED
  BY <1>1, <1>3, <1>4, <1>7, <1>8, <1>9, <1>10, <1>11, <1>12 DEF Service!Submit, diskVars, setup

(* What the service allows for a request that is for no route.             *)
LEMMA UnroutedReplies ==
  ASSUME NEW w, Unrouted(Asked(w)), NEW looks
  PROVE  LET f == File(w)
             R == Service!Replies(Asked(w), looks)
         IN  /\ f = None => Service!Plainly(404) \in R
             /\ f # None =>
                  /\ \A look \in looks :
                        /\ look.place # "file" => Service!Plainly(404) \in R
                        /\ look.place = "elsewhere" => Service!Plainly(403) \in R
                  /\ Kind[f] \in {"special", "fifo"} => Service!Plainly(404) \in R
                  /\ Kind[f] = "huge" => Service!Plainly(413) \in R
                  /\ Kind[f] \notin {"special", "fifo", "huge"} =>
                       /\ Service!Plainly(500) \in R
                       /\ \A c \in Service!ContentsIn(f, looks) : Service!Content(f, c) \in R
<1>1. Asked(w).path = request[w].path
  BY DEF Asked
<1>2. /\ Service!Replies(Asked(w), looks) = Service!FromFile(Asked(w), looks)
      /\ enabled /\ Asked(w).method \in {"GET", "HEAD"}
      /\ ~\E i \in DOMAIN Asked(w).path : Asked(w).path[i] = ".."
  BY DEF Unrouted, Service!Replies
<1>3. Service!FileFor(Asked(w).path) = File(w)
  BY <1>1, FileForIs DEF File
<1> QED
  BY <1>2, <1>3 DEF Service!FromFile

(* The service's order of the times.                                       *)
LEMMA OrderIs ==
  ASSUME NEW f, stamps[f] \in Seq(Nat)
  PROVE  Service!InOrder(f) <=> Ascending(stamps[f])
<1>1. DOMAIN stamps[f] = 1 .. Len(stamps[f])
  OBVIOUS
<1> QED
  BY <1>1 DEF Service!InOrder, Service!Versions, Ascending

(* A genuine content for the time of the descriptor is one the file had    *)
(* while it was being served: its version came at the opening or later,    *)
(* and was seen; or it came earlier and has the time of the version the    *)
(* descriptor was opened on, which was; if the times have gone back, any   *)
(* version will do.                                                        *)
LEMMA SeenContent ==
  ASSUME DiskInv, WorkInv, NEW w \in Workers, pc[w] \in {"lookup", "read", "insert"},
         NEW c, Servable(w, c, fd[w].mtime)
  PROVE  c \in Service!ContentsIn(File(w), seen[w]) /\ c \in Nat /\ c > 0
<1> DEFINE f == File(w)
           m == fd[w].mtime
<1>1. /\ f \in Names /\ c \in 1 .. Version(f)
      /\ Ascending(stamps[f]) => m <= stamps[f][c]
  BY DEF Servable, Genuine
<1>2. PICK o \in 1 .. Version(f) :
        /\ stamps[f][o] = m
        /\ \A v \in o .. Version(f) : [place |-> "file", version |-> v] \in seen[w]
  BY FdIs DEF SeenSinceOpen
<1> HIDE DEF f, m
<1>3. /\ stamps[f] \in Seq(Nat) /\ Version(f) = Len(stamps[f]) /\ Version(f) \in Nat
  BY <1>1 DEF DiskInv, Version
<1>4. stamps[f][c] \in Nat /\ stamps[f][o] \in Nat /\ c \in DOMAIN stamps[f]
  BY <1>1, <1>2, <1>3
<1>5. \E look \in seen[w] :
         /\ look.place = "file"
         /\ Ascending(stamps[f]) => stamps[f][c] = stamps[f][look.version]
  <2>0. [place |-> "file", version |-> o] \in seen[w]
    BY <1>2, <1>3
  <2>1. CASE c >= o
    <3>1. [place |-> "file", version |-> c] \in seen[w]
      BY <1>1, <1>2, <1>3, <2>1
    <3> QED
      BY <3>1
  <2>2. CASE c < o
    <3>1. Ascending(stamps[f]) => stamps[f][c] <= stamps[f][o]
      BY <1>1, <1>2, <1>3, <2>2 DEF Ascending
    <3>2. Ascending(stamps[f]) => stamps[f][c] = stamps[f][o]
      BY <1>1, <1>2, <1>4, <3>1
    <3> QED
      BY <2>0, <3>2
  <2> QED
    BY <1>1, <1>2, <1>3, <2>1, <2>2
<1>6. c \in Service!ContentsIn(f, seen[w])
  BY <1>3, <1>4, <1>5, OrderIs DEF Service!ContentsIn, Service!Versions
<1> QED
  BY <1>1, <1>3, <1>6 DEF f

(* The worker's task answers as the service does, or passes the request    *)
(* on.                                                                     *)
LEMMA RouteTaskAnswers ==
  ASSUME WorkInv, NEW w \in Workers, RouteTask(w)
  PROVE  Service!Answer(w) \/ UNCHANGED Service!vars
<1> DEFINE R == Route(request[w].method, request[w].path)
           r == Asked(w)
<1>1. pc[w] = "route" /\ request[w] # None /\ UNCHANGED <<setup, diskVars>>
  BY DEF RouteTask, WorkInv, WorkerOK, RequestOK
<1>2. /\ r \in [method : STRING, path : Seq(STRING)]
      /\ r.method = request[w].method /\ r.path = request[w].path
  BY <1>1, AskedIs
<1>3. Answered(r, R)
  BY <1>2, RouteIs
<1> HIDE DEF R, r
<1>4. CASE R.result = "found"
  <2> DEFINE a == Handler(R.handler, R.params)
  <2>1. Reply(w, a)
    BY <1>4 DEF RouteTask, R
  <2>2. /\ R.handler \in DOMAIN Routes /\ R.handler \in Service!Declared(r)
        /\ Service!Preferred(r, R.handler)
        /\ a = [Status(200) EXCEPT !.route = R.handler,
                                   !.args = Service!ArgsOf(R.handler, r.path)]
    BY <1>3, <1>4 DEF Answered
  <2>3. R.handler > 0
    BY <2>2, PatternsAre
  <2>4. Means(w, a) = [code |-> 200, from |-> <<"route", R.handler>>,
                       args |-> Service!ArgsOf(R.handler, r.path)]
    <3>1. a.code = 200 /\ a.route = R.handler /\ a.args = Service!ArgsOf(R.handler, r.path)
      BY <2>2 DEF Status
    <3> HIDE DEF a
    <3> QED
      BY <2>3, <3>1 DEF Means
  <2>5. Means(w, a) \in Service!Routed(r)
    BY <2>2, <2>4 DEF Service!Routed
  <2>6. Means(w, a) \in Service!Replies(r, seen[w])
    BY <2>5 DEF Service!Replies
  <2> QED
    BY <1>1, <2>1, <2>6, ReplyAnswers DEF r
<1>5. CASE R.result = "methodNotAllowed"
  <2>1. Reply(w, Status(405))
    BY <1>5 DEF RouteTask, R
  <2>2. Service!Routed(r) = {} /\ Service!Plainly(405) \in Service!NotAllowed(r)
    BY <1>3, <1>5 DEF Answered, Service!Routed, Service!NotAllowed
  <2>3. Means(w, Status(405)) \in Service!Replies(r, seen[w])
    BY <2>2, MeansPlainly DEF Service!Replies
  <2> QED
    BY <1>1, <2>1, <2>3, ReplyAnswers DEF r
<1>6. CASE R.result = "notFound" /\ Refused(request[w]).code # 0
  <2>1. Reply(w, Refused(request[w]))
    BY <1>6 DEF RouteTask, R
  <2>2. Service!Routed(r) = {} /\ Service!NotAllowed(r) = {}
    BY <1>3, <1>6 DEF Answered, Service!Routed, Service!NotAllowed
  <2>3. Service!Replies(r, seen[w]) = Service!FromFile(r, seen[w])
    BY <2>2 DEF Service!Replies
  <2>4. CASE ~enabled \/ r.method \notin {"GET", "HEAD"}
    <3>1. Refused(request[w]) = Status(404) /\ Service!Plainly(404) \in Service!FromFile(r, seen[w])
      BY <1>2, <2>4 DEF Refused, Service!FromFile
    <3> QED
      BY <1>1, <2>1, <2>3, <3>1, MeansPlainly, ReplyAnswers DEF r
  <2>5. CASE enabled /\ r.method \in {"GET", "HEAD"}
    <3>1. \E i \in DOMAIN r.path : r.path[i] = ".."
      BY <1>2, <1>6, <2>5 DEF Refused, Unanswered, Status
    <3>2. Refused(request[w]) = Status(403) /\ Service!Plainly(403) \in Service!FromFile(r, seen[w])
      BY <1>2, <2>5, <3>1 DEF Refused, Service!FromFile
    <3> QED
      BY <1>1, <2>1, <2>3, <3>2, MeansPlainly, ReplyAnswers DEF r
  <2> QED
    BY <2>4, <2>5
<1>7. CASE R.result = "notFound" /\ Refused(request[w]).code = 0
  <2>1. Goes(w, "resolve")
    BY <1>7 DEF RouteTask, R
  <2> QED
    BY <1>1, <2>1, GoesStutters DEF Pcs
<1> QED
  BY <1>3, <1>4, <1>5, <1>6, <1>7 DEF Answered

(* So does realpath, by what the path holds at this moment.                *)
LEMMA ResolveAnswers ==
  ASSUME WorkInv, DiskInv, NEW w \in Workers, Resolve(w)
  PROVE  Service!Answer(w) \/ UNCHANGED Service!vars
<1> DEFINE f == File(w)
           R == Service!Replies(Asked(w), seen[w])
<1>1. /\ pc[w] = "resolve" /\ UNCHANGED <<setup, diskVars>> /\ Unrouted(Asked(w)) /\ request[w] # None
      /\ Look(request[w].path) \in seen[w]
  BY DEF Resolve, WorkInv, WorkerOK, RequestOK, SeenOK, FdOK
<1>2. f # None => f \in Names /\ Look(request[w].path).place = place[f]
  BY <1>1, AskedIs DEF Look
<1>3. f # None => place[f] \in {"file", "absent", "elsewhere"}
  BY <1>2 DEF DiskInv
<1>4. CASE Goes(w, "open")
  BY <1>1, <1>4, GoesStutters DEF Pcs
<1>5. CASE Reply(w, Status(404)) /\ (f = None \/ place[f] = "absent")
  <2>1. Service!Plainly(404) \in R
    BY <1>1, <1>2, <1>5, UnroutedReplies
  <2> QED
    BY <1>1, <1>5, <2>1, MeansPlainly, ReplyAnswers
<1>6. CASE Reply(w, Status(403)) /\ f # None /\ place[f] = "elsewhere"
  <2>1. Service!Plainly(403) \in R
    BY <1>1, <1>2, <1>6, UnroutedReplies
  <2> QED
    BY <1>1, <1>6, <2>1, MeansPlainly, ReplyAnswers
<1> QED
  BY <1>3, <1>4, <1>5, <1>6 DEF Resolve

(* And openResolved; a client that is told 304 holds a content with the    *)
(* time the file has now, unless the times have gone back.                 *)
LEMMA OpenAnswers ==
  ASSUME WorkInv, DiskInv, NEW w \in Workers, Open(w)
  PROVE  Service!Answer(w) \/ UNCHANGED Service!vars
<1> DEFINE f == File(w)
           v == Version(f)
           mtime == stamps[f][v]
           held == request[w].held
           R == Service!Replies(Asked(w), seen[w])
<1>1. /\ pc[w] = "open" /\ UNCHANGED <<setup, diskVars>> /\ Unrouted(Asked(w)) /\ request[w] # None
      /\ Look(request[w].path) \in seen[w] /\ f \in Names /\ RequestOK(w)
  BY DEF Open, WorkInv, WorkerOK, RequestOK, SeenOK, FdOK
<1>2. Look(request[w].path) = [place |-> place[f], version |-> v]
  BY <1>1, NoneAssumption DEF Look, File
<1>3. f # None
  BY <1>1, NoneAssumption
<1> HIDE DEF f
<1>4. /\ stamps[f] \in Seq(Nat) /\ v = Len(stamps[f]) /\ v \in Nat /\ v > 0
  BY <1>1 DEF DiskInv, Version
<1>5. ASSUME NEW c \in 1 .. v, place[f] = "file",
             Ascending(stamps[f]) => stamps[f][c] = mtime
      PROVE  c \in Service!ContentsIn(f, seen[w])
  <2>1. c \in DOMAIN stamps[f]
    BY <1>4
  <2> QED
    BY <1>1, <1>2, <1>4, <1>5, <2>1, OrderIs DEF Service!ContentsIn, Service!Versions
<1> HIDE DEF v
<1>6. ASSUME NEW code, Reply(w, Status(code)), code \notin {0, 304},
             Service!Plainly(code) \in R
      PROVE  Service!Answer(w)
  BY <1>1, <1>6, MeansPlainly, ReplyAnswers
<1>7. CASE Reply(w, Status(404)) /\ (place[f] # "file" \/ Kind[f] \in {"special", "fifo"})
  <2>1. Service!Plainly(404) \in R
    BY <1>1, <1>2, <1>3, <1>7, UnroutedReplies DEF f
  <2> QED
    BY <1>6, <1>7, <2>1
<1>8. CASE Reply(w, Status(413)) /\ Kind[f] = "huge"
  <2>1. Service!Plainly(413) \in R
    BY <1>1, <1>3, <1>8, UnroutedReplies DEF f
  <2> QED
    BY <1>6, <1>8, <2>1
<1>9. CASE Reply(w, Body(v, mtime)) /\ place[f] = "file" /\ Kind[f] \notin {"special", "fifo", "huge"}
  <2>1. v \in Service!ContentsIn(f, seen[w])
    BY <1>4, <1>5, <1>9
  <2>2. Service!Content(f, v) \in R
    BY <1>1, <1>3, <1>9, <2>1, UnroutedReplies DEF f
  <2>3. Means(w, Body(v, mtime)) = Service!Content(f, v)
    BY <1>4, MeansContent DEF f
  <2> HIDE DEF mtime
  <2> QED
    BY <1>1, <1>9, <2>2, <2>3, ReplyAnswers
<1>10. CASE /\ Reply(w, Status(304)) /\ place[f] = "file" /\ held # None
            /\ mtime <= held.modified
  <2>1. Servable(w, held.content, held.modified)
    BY <1>1, <1>10 DEF RequestOK
  <2>2. /\ held.content \in 1 .. v /\ held.modified \in Nat
        /\ Ascending(stamps[f]) => held.modified <= stamps[f][held.content]
        /\ Kind[f] \notin {"special", "fifo", "huge"}
    BY <2>1 DEF Servable, Genuine, f, v
  <2> DEFINE c == held.content
  <2>3. /\ stamps[f][c] \in Nat /\ mtime \in Nat
        /\ Ascending(stamps[f]) => stamps[f][c] <= mtime
    BY <1>4, <2>2 DEF Ascending
  <2>4. Ascending(stamps[f]) => stamps[f][c] = mtime
    BY <1>10, <2>2, <2>3
  <2>5. Service!Content(f, c) \in R
    BY <1>1, <1>3, <1>5, <1>10, <2>2, <2>4, UnroutedReplies DEF f
  <2>6. Means(w, Status(304)) = Service!Content(f, c)
    BY DEF Means, Status, Service!Content, f
  <2> QED
    BY <1>1, <1>10, <2>5, <2>6, ReplyAnswers
<1>11. CASE Goes(w, "lookup") \/ Goes(w, "blocked")
  BY <1>1, <1>11, GoesStutters DEF Pcs
<1> HIDE DEF mtime
<1>12. IF place[f] # "file" THEN Reply(w, Status(404))
       ELSE IF Kind[f] = "fifo" THEN Goes(w, "blocked")
       ELSE Opened(w, f, mtime)
  BY DEF Open, Openable, f, v, mtime
<1>13. Kind[f] \in {"small", "large", "huge", "special", "fifo"}
  BY <1>1, HandlerAssumption
<1>14. ASSUME place[f] = "file", Kind[f] # "fifo", Opened(w, f, mtime)
       PROVE  \/ Reply(w, Status(404)) /\ Kind[f] = "special"
              \/ Reply(w, Status(413)) /\ Kind[f] = "huge"
              \/ Reply(w, Status(304)) /\ held # None /\ mtime <= held.modified
              \/ Reply(w, Body(v, mtime)) /\ Kind[f] \notin {"special", "fifo", "huge"}
              \/ Goes(w, "lookup")
  BY <1>13, <1>14 DEF Opened, v
<1> QED
  BY <1>7, <1>8, <1>9, <1>10, <1>11, <1>12, <1>14

(* A FIFO is no file, once it can be asked.                                *)
LEMMA WriterComesAnswers ==
  ASSUME WorkInv, NEW w \in Workers, WriterComes(w)
  PROVE  Service!Answer(w)
<1>1. /\ pc[w] = "blocked" /\ UNCHANGED <<setup, diskVars>> /\ Reply(w, Status(404))
      /\ Unrouted(Asked(w)) /\ Kind[File(w)] = "fifo"
  BY DEF WriterComes, WorkInv, WorkerOK, FdOK
<1>2. Service!Plainly(404) \in Service!Replies(Asked(w), seen[w])
  BY <1>1, UnroutedReplies
<1> QED
  BY <1>1, <1>2, MeansPlainly, ReplyAnswers

(* And what comes from the cache or from the descriptor, whoever inserted  *)
(* it and whatever has changed meanwhile.                                  *)
LEMMA CacheAnswers ==
  ASSUME IInv, NEW w \in Workers, Lookup(w) \/ Read(w) \/ Insert(w)
  PROVE  Service!Answer(w) \/ UNCHANGED Service!vars
<1> DEFINE f == File(w)
           R == Service!Replies(Asked(w), seen[w])
<1> USE DEF IInv
<1>1. /\ pc[w] \in {"lookup", "read", "insert"} /\ UNCHANGED <<setup, diskVars>>
  BY DEF Lookup, Read, Insert
<1>2. /\ Unrouted(Asked(w)) /\ f \in Names /\ f # None
      /\ Servable(w, fd[w].content, fd[w].mtime) /\ Kind[f] \notin {"special", "fifo", "huge"}
  BY <1>1, FdIs, NoneAssumption DEF Servable
<1>3. CASE Goes(w, "read") \/ Goes(w, "insert")
  BY <1>1, <1>3, GoesStutters DEF Pcs
<1>4. CASE Reply(w, Status(500))
  <2>1. Service!Plainly(500) \in R
    BY <1>2, UnroutedReplies
  <2> QED
    BY <1>1, <1>4, <2>1, MeansPlainly, ReplyAnswers
<1>5. ASSUME NEW c, Servable(w, c, fd[w].mtime), Reply(w, Body(c, fd[w].mtime))
      PROVE  Service!Answer(w)
  <2>1. c \in Service!ContentsIn(f, seen[w]) /\ c \in Nat /\ c > 0
    BY <1>1, <1>5, SeenContent
  <2>2. Service!Content(f, c) \in R
    BY <1>2, <2>1, UnroutedReplies
  <2>3. Means(w, Body(c, fd[w].mtime)) = Service!Content(f, c)
    BY <2>1, MeansContent
  <2> QED
    BY <1>1, <1>5, <2>2, <2>3, ReplyAnswers
<1>6. CASE Lookup(w)
  <2>1. CASE ~(f \in DOMAIN cacheMap /\ cacheMap[f].mtime = fd[w].mtime)
    BY <1>3, <1>6, <2>1 DEF Lookup, Current
  <2>2. CASE f \in DOMAIN cacheMap /\ cacheMap[f].mtime = fd[w].mtime
    <3>1. Reply(w, Body(cacheMap[f].content, fd[w].mtime))
      BY <1>6, <2>2 DEF Lookup, Current
    <3>2. Servable(w, cacheMap[f].content, fd[w].mtime)
      BY <1>2, <2>2 DEF CacheInv, Servable
    <3> QED
      BY <1>5, <3>1, <3>2
  <2> QED
    BY <2>1, <2>2
<1>7. CASE Read(w)
  BY <1>3, <1>4, <1>7 DEF Read
<1>8. CASE Insert(w)
  <2>1. Reply(w, Body(fd[w].content, fd[w].mtime))
    BY <1>8 DEF Insert
  <2> QED
    BY <1>2, <1>5, <2>1
<1> QED
  BY <1>6, <1>7, <1>8

(* Somebody changes a file.                                                *)
LEMMA FilesChangeChanges ==
  ASSUME DiskInv, WorkInv, NEW f \in Names, FilesChange(f)
  PROVE  Service!Change(f)
<1> DEFINE asked == [v \in Workers |-> IF pc[v] = "idle" THEN None
                       ELSE [method |-> request[v].method, path |-> request[v].path]]
<1>1. UNCHANGED <<setup, pc, request, answer>>
  BY ChangeFrame
<1>2. \A v \in Workers : Serving(v)' = Serving(v) /\ Meaning(v)' = Meaning(v)
  BY <1>1, ServingKept, MeaningKept
<1>3. \/ /\ place' = [place EXCEPT ![f] = "file"]
         /\ \E t \in 0 .. stamps[f][Len(stamps[f])] + 1 :
               stamps' = [stamps EXCEPT ![f] = Append(@, t)]
      \/ /\ \E p \in {"absent", "elsewhere"} : place' = [place EXCEPT ![f] = p]
         /\ UNCHANGED stamps
  BY DEF FilesChange, WriteInPlace, Replace, RemoveFile, NewVersion, Version
<1>4. ASSUME NEW v \in Workers
      PROVE  (pc[v] = "idle" \/ FileOf(request[v].path) # f)
                <=> (asked[v] = None \/ Service!FileFor(asked[v].path) # f)
  <2>1. CASE pc[v] = "idle"
    BY <2>1
  <2>2. CASE pc[v] # "idle"
    <3>1. request[v] # None
      BY <2>2 DEF WorkInv, WorkerOK, RequestOK
    <3>2. Asked(v) # None /\ Asked(v).path = request[v].path
      BY <3>1, AskedIs, NoneAssumption
    <3>3. asked[v] = Asked(v)
      BY <2>2 DEF Asked
    <3> HIDE DEF asked
    <3> QED
      BY <2>2, <3>2, <3>3, FileForIs
  <2> QED
    BY <2>1, <2>2
<1> HIDE DEF asked
<1>5. seen' = [v \in Workers |->
                 IF asked[v] = None \/ Service!FileFor(asked[v].path) # f THEN seen[v]
                 ELSE seen[v] \union {[place |-> place'[f], version |-> Len(stamps'[f])]}]
  <2>1. seen' = [v \in Workers |->
                 IF pc[v] = "idle" \/ FileOf(request[v].path) # f THEN seen[v]
                 ELSE seen[v] \union {[place |-> place'[f], version |-> Len(stamps'[f])]}]
    BY ChangeFrame
  <2> QED
    BY <1>4, <2>1
<1>6. asked' = asked
  BY <1>1 DEF asked
<1>7. [v \in Workers |-> Meaning(v)'] = [v \in Workers |-> Meaning(v)]
  BY <1>2
<1>8. enabled' = enabled
  BY <1>1 DEF setup
<1> QED
  BY <1>3, <1>5, <1>6, <1>7, <1>8 DEF Service!Change, asked

(* Every answer of the workers, in any interleaving of their locked        *)
(* sections and of changes to the files, is one RequestService allows: the *)
(* declared route's with its own parameters; or what lies where the path   *)
(* leads, with a content as old as the file was while it was being served  *)
(* (once its times have gone back, a content it has had).                  *)
THEOREM ServiceImplemented == Spec => ImplementsRequestService
<1>1. Init => Service!Init
  BY DEF Init, Service!Init, Meaning, Unanswered, Status
<1>2. IInv /\ [Next]_vars => [Service!Next]_(Service!vars)
  <2> SUFFICES ASSUME IInv, [Next]_vars PROVE [Service!Next]_(Service!vars)
    OBVIOUS
  <2>1. CASE UNCHANGED vars
    <3>1. \A w \in Workers : Serving(w)' = Serving(w) /\ Meaning(w)' = Meaning(w)
      BY <2>1, ServingKept, MeaningKept DEF vars, workVars
    <3>2. /\ stamps' = stamps /\ place' = place /\ seen' = seen
          /\ enabled' = enabled
      BY <2>1 DEF vars, setup, diskVars, workVars
    <3> QED
      BY <3>1, <3>2, ServiceVars
  <2>2. ASSUME NEW w \in Workers, WorkerStep(w)
        PROVE  Service!Submit(w) \/ Service!Answer(w) \/ UNCHANGED Service!vars
    BY <2>2, ArrivesSubmits, RouteTaskAnswers, ResolveAnswers, OpenAnswers,
       WriterComesAnswers, CacheAnswers
       DEF WorkerStep, IInv
  <2>3. ASSUME NEW f \in Names, FilesChange(f) PROVE Service!Change(f)
    BY <2>3, FilesChangeChanges DEF IInv
  <2> QED
    BY <2>1, <2>2, <2>3 DEF Next, Service!Next
<1> QED
  BY <1>1, <1>2, Invariance, PTL DEF Spec, Service!Spec, ImplementsRequestService
=============================================================================
