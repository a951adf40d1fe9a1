------------------------- MODULE MCStaticFileHandler -------------------------
(* Instances of StaticFileHandler for TLC: the routes of main() with more  *)
(* of each kind among them, and a directory with a file of each kind.      *)
EXTENDS StaticFileHandler

CONSTANTS w1, w2

Get(pattern) == [method |-> "GET", pattern |-> pattern]
Post(pattern) == [method |-> "POST", pattern |-> pattern]

(* /, /stats and /user/:id are main()'s.                                   *)
TheRoutes == <<Get(<<"">>), Get(<<"stats">>), Get(<<"user", ":id", "posts">>),
               Get(<<"user", ":id">>), Post(<<"user", ":name">>),
               Post(<<"x", "*">>), Get(<<"x", ":id", "y">>), Get(<<"x", ":name", "*">>),
               Get(<<"a:b">>), Post(<<"stats">>), Get(<<"stats">>)>>

TheParams == {":id", ":name"}
TheStars == {"*"}
TheMarked == {":id", ":name", "*", "a:b"}

Ask(method, path) == [method |-> method, path |-> path]

RoutedRequests ==
    {Ask("GET", <<"">>), Ask("HEAD", <<"stats">>), Ask("PUT", <<"stats">>),
     Ask("GET", <<"user", ":id">>), Ask("GET", <<"user", "", "5">>),
     Ask("POST", <<"user", "5", "6">>), Ask("PUT", <<"user", "5">>),
     Ask("GET", <<"x", "5", "z">>), Ask("GET", <<"x">>),
     Ask("GET", <<"a:b">>), Ask("GET", <<"x", "*">>)}

FileRequests == {Ask("GET", <<"a">>), Ask("GET", <<"b">>)}

OddRequests ==
    {Ask("HEAD", <<"a">>), Ask("GET", <<"a", "..">>), Ask("POST", <<"a">>),
     Ask("GET", <<"nothing">>), Ask("GET", <<"dir", "">>), Ask("GET", <<"dir">>),
     Ask("GET", <<"dir", ".">>), Ask("GET", <<"a", "">>), Ask("GET", <<".", "", "a">>),
     Ask("GET", <<"huge">>), Ask("GET", <<"fifo">>), Ask("GET", <<"device">>),
     Ask("GET", <<"large">>)}

AllNames == {"a", "b", "index", "beside", "large", "huge", "fifo", "device"}
TheKind == [f \in AllNames |-> CASE f \in {"large", "huge"} -> f
                                 [] f = "fifo" -> "fifo"
                                 [] f = "device" -> "special"
                                 [] OTHER -> "small"]
Indexes == [at \in {<<"dir", "index.html">>, <<"dirindex.html">>} |->
              IF Len(at) = 2 THEN "index" ELSE "beside"]
TopLevel(names) == [at \in {<<f>> : f \in names} |-> at[1]]
TheFiles == Indexes @@ TopLevel(AllNames \ {"index", "beside"})
TheDirectories == {<<>>, <<"dir">>}
AllMenus == {{r} : r \in RoutedRequests \union OddRequests} \union {FileRequests}
FewVersions == [f \in AllNames |-> IF f = "a" THEN 2 ELSE 1]

(* Four small files, for the cache alone.                                  *)
SmallNames == {"a", "b", "c", "d"}
SmallKind == [f \in SmallNames |-> "small"]
SmallFiles == TopLevel(SmallNames)
SmallMenu == {{Ask("GET", <<f>>) : f \in SmallNames}}
OneVersion == [f \in SmallNames |-> 1]
=============================================================================
