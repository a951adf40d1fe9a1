---------------------------- MODULE RequestService ----------------------------
(***************************************************************************)
(* What the business layer promises for one request, without the order in  *)
(* which the routes are searched, the cache, its lock or the descriptors:  *)
(* the route that is declared for the request answers it, and if there is  *)
(* none, the file does.  What is sent of a file has the modification time  *)
(* the file had at some moment while the request was being served, whoever *)
(* changes it meanwhile; a client told that its copy is still good holds   *)
(* such a content.  That much only as long as the times of the file have   *)
(* not gone back: from then on it is some version of that file.            *)
(* StaticFileHandler.tla implements it.                                    *)
(***************************************************************************)
EXTENDS Naturals, Sequences

CONSTANTS Workers, Requests, None,
          Routes, ParamSegs, StarSegs, MarkedSegs,
          Names,         \* what the last segment of a path may name
          Parts(_),      \* the segments of a path that are not empty
          Location(_),   \* where a path leads in the file system
          Files,         \* the file at a location
          Directories,   \* the locations of the directories
          Kind           \* "small", "large", "huge", "special" or "fifo"

VARIABLES enabled,       \* whether there is a directory to serve
          stamps,        \* the modification time of each version of a file
          place,         \* what its path holds: "file", "absent", "elsewhere"
          asked,         \* the request a worker serves, or None
          seen,          \* what the path has held since it was asked for
          reply          \* what was answered last

vars == <<enabled, stamps, place, asked, seen, reply>>

Init ==
    /\ enabled \in BOOLEAN
    /\ stamps = [f \in Names |-> <<1>>]
    /\ place = [f \in Names |-> "file"]
    /\ asked = [w \in Workers |-> None]
    /\ seen = [w \in Workers |-> {}]
    /\ reply = [w \in Workers |-> None]

(***************************************************************************)
(* The route declared for a request: a pattern without parameters equals   *)
(* the path; one with parameters is followed by it part by part, up to its *)
(* end or its wildcard.                                                    *)
(***************************************************************************)
Plain(i) == \A j \in DOMAIN Routes[i].pattern : Routes[i].pattern[j] \notin MarkedSegs

Follows(i, path) ==
    LET p == Parts(Routes[i].pattern)
        s == Parts(path)
    IN  /\ Len(s) >= Len(p)
        /\ \E n \in 0 .. Len(p) :
             /\ \A j \in 1 .. n : p[j] \in ParamSegs \/ p[j] = s[j]
             /\ n < Len(p) => p[n + 1] \in StarSegs

Answers(i, path) == IF Plain(i) THEN Routes[i].pattern = path
                                ELSE Follows(i, path)

Method(r) == IF r.method = "HEAD" THEN "GET" ELSE r.method

Declared(r) ==
    LET all == {i \in DOMAIN Routes : Answers(i, r.path)}
        plain == {i \in all : Plain(i)}
    IN  {i \in IF plain # {} THEN plain ELSE all : Routes[i].method = Method(r)}

(* A route answers with the segments its parameters stand for.             *)
ArgsOf(i, path) ==
    LET p == Parts(Routes[i].pattern)
        ends == {j \in DOMAIN p : p[j] \in StarSegs} \union {Len(p) + 1}
        own == {j \in DOMAIN p : p[j] \in ParamSegs /\ \A e \in ends : j < e}
        last == {k \in own : \A m \in own : p[m] = p[k] => m <= k}
    IN  {<<p[j], Parts(path)[j]>> : j \in last}

(* Of several routes registered for the same path, a plain one replaces    *)
(* the earlier and one with parameters comes after them.                   *)
Preferred(r, i) ==
    \A j \in Declared(r) : IF Plain(i) THEN j <= i ELSE i <= j

(***************************************************************************)
(* The replies                                                             *)
(***************************************************************************)
Routed(r) ==
    {[code |-> 200, from |-> <<"route", i>>, args |-> ArgsOf(i, r.path)] :
        i \in {j \in Declared(r) : Preferred(r, j)}}

Plainly(code) == [code |-> code, from |-> None, args |-> {}]
Content(f, v) == [code |-> 200, from |-> <<f, v>>, args |-> {}]

NotAllowed(r) ==
    {Plainly(405) : x \in {i \in DOMAIN Routes : Answers(i, r.path)}}

(* The file that lies where the path leads, if the path ends in a name; of *)
(* a directory, the file where the path leads with "index.html" after it.  *)
Wanted(path) == [path EXCEPT ![Len(path)] = @ \o "index.html"]
Leads(path, f) ==
    \/ /\ Location(path) \in Directories
       /\ Location(Wanted(path)) \in DOMAIN Files
       /\ Files[Location(Wanted(path))] = f
    \/ /\ Location(path) \notin Directories
       /\ path[Len(path)] \notin {"", "."}
       /\ Location(path) \in DOMAIN Files
       /\ Files[Location(path)] = f
FileFor(path) ==
    IF \E f \in Names : Leads(path, f) THEN CHOOSE f \in Names : Leads(path, f) ELSE None

Versions(f) == DOMAIN stamps[f]
InOrder(f) == \A u, v \in Versions(f) : u <= v => stamps[f][u] <= stamps[f][v]

ContentsIn(f, looks) ==
    {v \in Versions(f) : \E look \in looks :
                           /\ look.place = "file"
                           /\ InOrder(f) => stamps[f][v] = stamps[f][look.version]}

FromFile(r, looks) ==
    LET f == FileFor(r.path)
    IN  IF ~enabled \/ r.method \notin {"GET", "HEAD"} THEN {Plainly(404)}
        ELSE IF \E i \in DOMAIN r.path : r.path[i] = ".." THEN {Plainly(403)}
        ELSE IF f = None THEN {Plainly(404)}
        ELSE {Plainly(404) : x \in {look \in looks : look.place # "file"}}
             \union {Plainly(403) : x \in {look \in looks : look.place = "elsewhere"}}
             \union CASE Kind[f] \in {"special", "fifo"} -> {Plainly(404)}
                      [] Kind[f] = "huge" -> {Plainly(413)}
                      [] OTHER -> {Content(f, v) : v \in ContentsIn(f, looks)}
                                    \union {Plainly(500)}

Replies(r, looks) ==
    IF Routed(r) # {} THEN Routed(r)
    ELSE IF NotAllowed(r) # {} THEN NotAllowed(r)
    ELSE FromFile(r, looks)

(***************************************************************************)
(* The steps                                                               *)
(***************************************************************************)
LookAt(r) == LET f == FileFor(r.path)
             IN  IF f = None THEN None
                 ELSE [place |-> place[f], version |-> Len(stamps[f])]

Submit(w) ==
    /\ asked[w] = None
    /\ \E r \in Requests : /\ asked' = [asked EXCEPT ![w] = r]
                           /\ seen' = [seen EXCEPT ![w] = {LookAt(r)}]
    /\ reply' = [reply EXCEPT ![w] = None]
    /\ UNCHANGED <<enabled, stamps, place>>

Answer(w) ==
    /\ asked[w] # None
    /\ \E a \in Replies(asked[w], seen[w]) : reply' = [reply EXCEPT ![w] = a]
    /\ asked' = [asked EXCEPT ![w] = None]
    /\ seen' = [seen EXCEPT ![w] = {}]
    /\ UNCHANGED <<enabled, stamps, place>>

(* Somebody changes a file, which has the time that goes with it; or       *)
(* removes it, or puts in its place what leads out of the directory.       *)
Change(f) ==
    /\ \/ /\ place' = [place EXCEPT ![f] = "file"]
          /\ \E t \in 0 .. stamps[f][Len(stamps[f])] + 1 :
                stamps' = [stamps EXCEPT ![f] = Append(@, t)]
       \/ /\ \E p \in {"absent", "elsewhere"} : place' = [place EXCEPT ![f] = p]
          /\ UNCHANGED stamps
    /\ seen' = [w \in Workers |->
                   IF asked[w] = None \/ FileFor(asked[w].path) # f THEN seen[w]
                   ELSE seen[w] \union {[place |-> place'[f], version |-> Len(stamps'[f])]}]
    /\ UNCHANGED <<enabled, asked, reply>>

Next == (\E w \in Workers : Submit(w) \/ Answer(w)) \/ \E f \in Names : Change(f)

Spec == Init /\ [][Next]_vars
=============================================================================
