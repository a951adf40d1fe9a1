----------------------------- MODULE MCHttpContext -----------------------------
(* Instances of HttpContext for TLC.  Sizes are small: a buffer with two   *)
(* bytes in front, an extrabuf of three, a header limit three lines reach. *)
EXTENDS HttpContext, TLC

TheSize == [t \in {"GET-1.1", "GET-1.0", "no-spaces", "PATCH", "HTTP/2", "host",
                   "host-empty", "no-colon", "encoding", "length-1", "length-2",
                   "length-9", "length-bad", "expect", "expect-other"} |-> 1]
           @@ [t \in {"big"} |-> 3] @@ [t \in {"long", "long-line"} |-> 5]
TheLengths == "length-1" :> 1 @@ "length-2" :> 2 @@ "length-9" :> 9

Msg(line, headers, body) == [line |-> line, headers |-> headers, body |-> body]

(* A body may look like the end of the headers.                            *)
Short == Msg("GET-1.0", <<"expect">>, <<>>)
Posted == Msg("GET-1.1", <<"host", "length-2", "length-2">>, CRLF)
Expecting == Msg("GET-1.1", <<"expect", "host", "length-2">>, <<"x", "r">>)

BadLines == {Msg(l, <<>>, <<>>) : l \in {"no-spaces", "PATCH", "HTTP/2", "long-line"}}

BadHeaders ==
    {Msg("GET-1.1", h, <<>>) :
        h \in {<<>>, <<"no-colon">>, <<"host-empty">>, <<"host", "host">>,
               <<"host", "encoding">>, <<"length-1", "length-2">>, <<"length-bad">>,
               <<"host", "expect-other">>, <<"host", "long">>, <<"big", "big">>,
               <<"host", "expect", "length-9">>}}

TheScripts == {<<Short, Posted>>, <<Posted, Expecting>>, <<Expecting, Short, Short>>}
                 \union {<<b, Short>> : b \in BadLines \union BadHeaders}
                 \union {<<Short, Msg("GET-1.1", <<"host", "expect", "length-9">>, <<>>)>>}
=============================================================================
