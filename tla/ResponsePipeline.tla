-------------------------- MODULE ResponsePipeline --------------------------
(***************************************************************************)
(* What a connection promises to a peer that pipelines requests: answers   *)
(* are written in the order of the requests, one for each, never ahead of  *)
(* a request, and a connection that the server ends in good order has      *)
(* answered every request it parsed.  TcpConnection.tla implements it.     *)
(***************************************************************************)
EXTENDS Naturals, Sequences

VARIABLES parsed,    \* how many requests have been parsed; the nth is n - 1
          sent,      \* the answers written to the socket, in order
          ended      \* "open", "gracefully" or "abruptly"

vars == <<parsed, sent, ended>>

Init == /\ parsed = 0
        /\ sent = <<>>
        /\ ended = "open"

Parse == /\ ended = "open"
         /\ parsed' = parsed + 1
         /\ UNCHANGED <<sent, ended>>

Answer == /\ ended = "open"
          /\ Len(sent) < parsed
          /\ sent' = Append(sent, Len(sent))
          /\ UNCHANGED <<parsed, ended>>

EndGracefully == /\ ended = "open"
                 /\ Len(sent) = parsed
                 /\ ended' = "gracefully"
                 /\ UNCHANGED <<parsed, sent>>

EndAbruptly == /\ ended = "open"
               /\ ended' = "abruptly"
               /\ UNCHANGED <<parsed, sent>>

Next == Parse \/ Answer \/ EndGracefully \/ EndAbruptly

Spec == Init /\ [][Next]_vars
=============================================================================
