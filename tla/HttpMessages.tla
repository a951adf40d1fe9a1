----------------------------- MODULE HttpMessages -----------------------------
(***************************************************************************)
(* What a client means by the bytes it sends, and what the server is to    *)
(* make of it, message by message and without bytes, buffers or parser     *)
(* states.  A message is [line, headers, body].  HttpContext.tla parses    *)
(* what Bytes makes of a sequence of them.                                 *)
(***************************************************************************)
EXTENDS Naturals, SequencesExt

CONSTANTS Size,            \* the length of each line's text
          LengthOf,        \* what the Content-Length headers say
          MaxHeaderLine,   \* kMaxHeaderLine
          MaxHeaderBytes,  \* kMaxHeaderBytes
          MaxBodyBytes     \* kMaxBodyBytes

CRLF == <<"r", "n">>
LineBytes(text) == <<text>> \o CRLF

MessageBytes(msg) ==
    LineBytes(msg.line)
        \o FlattenSeq([i \in DOMAIN msg.headers |-> LineBytes(msg.headers[i])])
        \o CRLF \o msg.body

Bytes(script) == FlattenSeq([i \in DOMAIN script |-> MessageBytes(script[i])])

(* The texts of lines, by what is right or wrong about them.               *)
Lengths == DOMAIN LengthOf
LineTexts == {"GET-1.1", "GET-1.0", "no-spaces", "PATCH", "HTTP/2", "long-line"}
OtherTexts == {"host", "host-empty", "no-colon", "encoding", "length-bad", "expect",
               "expect-other", "big", "long"}
HeaderTexts == OtherTexts \union Lengths

ASSUME TextsAssumption ==
    /\ LineTexts \union HeaderTexts \subseteq DOMAIN Size
    /\ \A t \in DOMAIN Size : Size[t] \in Nat
    /\ \A t \in LineTexts : Size[t] > MaxHeaderLine <=> t = "long-line"
    /\ \A t \in Lengths : LengthOf[t] \in Nat
    /\ Lengths \intersect OtherTexts = {}

LineVerdict(line) ==
    CASE line = "no-spaces" -> 400
      [] line = "PATCH" -> 405
      [] line = "HTTP/2" -> 505
      [] line = "long-line" -> 413
      [] OTHER -> 200

Before(msg, i) == {msg.headers[j] : j \in 1 .. i - 1}
SizeUpTo(msg, i) ==
    LET sum[j \in 0 .. i] == IF j = 0 THEN 0 ELSE sum[j - 1] + Size[msg.headers[j]]
    IN  sum[i]

(* The verdict on header i, after those before it.                         *)
HeaderVerdict(msg, i) ==
    LET h == msg.headers[i]
    IN  IF Size[h] > MaxHeaderLine \/ SizeUpTo(msg, i) > MaxHeaderBytes THEN 413
        ELSE CASE h \in {"no-colon", "length-bad", "host-empty"} -> 400
               [] h = "encoding" -> 501
               [] h = "expect-other" -> 417
               [] h = "host" /\ "host" \in Before(msg, i) -> 400
               [] h \in Lengths /\ \E g \in Before(msg, i) \intersect Lengths :
                                     LengthOf[g] # LengthOf[h] -> 400
               [] OTHER -> 200

BodyLength(msg) ==
    LET said == {LengthOf[h] : h \in Range(msg.headers) \intersect Lengths}
    IN  IF said = {} THEN 0 ELSE Max(said)

Verdict(msg) ==
    LET bad == {i \in DOMAIN msg.headers : HeaderVerdict(msg, i) # 200}
    IN  IF LineVerdict(msg.line) # 200 THEN LineVerdict(msg.line)
        ELSE IF bad # {} THEN HeaderVerdict(msg, Min(bad))
        ELSE IF msg.line = "GET-1.1" /\ "host" \notin Range(msg.headers) THEN 400
        ELSE IF BodyLength(msg) > MaxBodyBytes THEN 413
        ELSE 200

(* A client sends as much of a body as its headers say.                    *)
IsMessage(msg) ==
    /\ msg.line \in LineTexts
    /\ msg.headers \in Seq(HeaderTexts)
    /\ msg.body \in Seq(ToSet(msg.body))
    /\ Verdict(msg) = 200 => Len(msg.body) = BodyLength(msg)

(* The outcome of a message: the request as it was sent, or the error.     *)
Outcome(msg) ==
    IF Verdict(msg) = 200
    THEN [code |-> 200, line |-> msg.line, headers |-> msg.headers, body |-> msg.body]
    ELSE [code |-> Verdict(msg), line |-> "", headers |-> <<>>, body |-> <<>>]

(* After the first error the connection is to be closed, and nothing more  *)
(* is promised.                                                            *)
FirstError(script) ==
    Min({i \in DOMAIN script : Verdict(script[i]) # 200} \union {Len(script) + 1})
Promised(script) ==
    [i \in 1 .. Min({FirstError(script), Len(script)}) |-> Outcome(script[i])]
=============================================================================
