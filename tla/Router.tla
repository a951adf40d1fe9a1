-------------------------------- MODULE Router --------------------------------
(***************************************************************************)
(* Router: the routes main() registers before it starts to serve, and the  *)
(* search for the handler of a request.                                    *)
(*                                                                         *)
(* A path is the sequence of the segments between its slashes, empty ones  *)
(* included: "/" is <<"">> and "/user//5" is <<"user", "", "5">>.  The     *)
(* text of a parameter begins with ':', that of a wildcard with '*'.       *)
(***************************************************************************)
EXTENDS Naturals, Sequences, FiniteSetsExt

CONSTANTS Routes,        \* the addRoute calls: a sequence of [method, pattern]
          ParamSegs,     \* the segments that begin with ':'
          StarSegs,      \* the segments that begin with '*'
          MarkedSegs     \* the segments with a ':' or a '*' anywhere in them

ASSUME SegmentsAssumption ==
    /\ Routes \in Seq([method : STRING, pattern : Seq(STRING)])
    /\ ParamSegs \intersect StarSegs = {}
    /\ ParamSegs \union StarSegs \subseteq MarkedSegs

(* splitPath drops the empty segments: slashes in a row count as one.      *)
NonEmpty(path) == {i \in DOMAIN path : path[i] # ""}
Nth(S, n) == CHOOSE i \in S : Cardinality({j \in S : j <= i}) = n
Segments(path) == [n \in 1 .. Cardinality(NonEmpty(path)) |-> path[Nth(NonEmpty(path), n)]]

(* find(':') and find('*') look at the whole text of the pattern.          *)
Dynamic(pattern) == \E i \in DOMAIN pattern : pattern[i] \in MarkedSegs

(* routes_: a handler registered again replaces the earlier one.           *)
Registered(method, path) ==
    {i \in DOMAIN Routes : Routes[i].method = method /\ Routes[i].pattern = path}

(* routes_.find, without the patterns only the search below may match: the *)
(* request /user/%3Aid is decoded to the text of the pattern /user/:id.    *)
ExactMatch(method, path) ==
    IF Dynamic(path) THEN {} ELSE Registered(method, path)

(* pathToMethods_                                                          *)
MethodsOf(path) ==
    {Routes[i].method : i \in {j \in DOMAIN Routes :
                                 /\ Routes[j].pattern = path
                                 /\ ~Dynamic(Routes[j].pattern)}}

(* paramRoutes_: one entry for each call of addRoute, in their order.      *)
ParamRoutes == {i \in DOMAIN Routes : Dynamic(Routes[i].pattern)}

(***************************************************************************)
(* matchPattern                                                            *)
(***************************************************************************)

(* The segment at which its loop returns, or one more than the last.       *)
StopsAt(p, s) ==
    Min({i \in DOMAIN p : p[i] \in StarSegs \/ (p[i] \notin ParamSegs /\ p[i] # s[i])}
          \union {Len(p) + 1})

MatchPattern(pattern, path) ==
    LET p == Segments(pattern)
        s == Segments(path)
    IN  /\ Len(p) <= Len(s)
        /\ LET e == StopsAt(p, s) IN e = Len(p) + 1 \/ p[e] \in StarSegs

(* The parameters are written as the loop passes them, so that a pattern   *)
(* that fails further on leaves what it has written in the request's map.  *)
Written(pattern, path) ==
    LET p == Segments(pattern)
        s == Segments(path)
        passed == IF Len(p) <= Len(s)
                  THEN {i \in 1 .. StopsAt(p, s) - 1 : p[i] \in ParamSegs}
                  ELSE {}
    IN  [n \in {p[i] : i \in passed} |-> s[Max({i \in passed : p[i] = n})]]

(* What the entries up to i leave there: the last to write a parameter     *)
(* decides.                                                                *)
ParamsAfter(i, path) ==
    LET WrittenBy(j) == Written(Routes[j].pattern, path)
        tried == {j \in ParamRoutes : j <= i}
    IN  [n \in UNION {DOMAIN WrittenBy(j) : j \in tried} |->
            WrittenBy(Max({j \in tried : n \in DOMAIN WrittenBy(j)}))[n]]

(***************************************************************************)
(* Router::route.  HEAD is looked up as GET.                               *)
(***************************************************************************)
LookupMethod(method) == IF method = "HEAD" THEN "GET" ELSE method

Found(i, params) == [result |-> "found", handler |-> i, params |-> params]
Miss(result) == [result |-> result, handler |-> 0, params |-> <<>>]

(* The first entry whose pattern and method both match; an entry with      *)
(* another method does not end the search.                                 *)
Search(method, path) ==
    LET matching == {i \in ParamRoutes : MatchPattern(Routes[i].pattern, path)}
        own == {i \in matching : Routes[i].method = method}
    IN  IF own # {} THEN Found(Min(own), ParamsAfter(Min(own), path))
        ELSE Miss(IF matching # {} THEN "methodNotAllowed" ELSE "notFound")

Route(anyMethod, path) ==
    LET method == LookupMethod(anyMethod)
        exact == ExactMatch(method, path)
    IN  IF exact # {} THEN Found(Max(exact), <<>>)
        ELSE IF MethodsOf(path) # {}
             THEN Miss(IF method \notin MethodsOf(path) THEN "methodNotAllowed"
                                                        ELSE "notFound")
             ELSE Search(method, path)
=============================================================================
