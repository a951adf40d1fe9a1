----------------------------- MODULE MCTcpServer -----------------------------
(* Instances of TcpServer for TLC: one or two IO threads, a limit of one   *)
(* or two connections. The connections are interchangeable, and only       *)
(* safety is checked.                                                      *)
EXTENDS TcpServer, TLC

CONSTANTS c1, c2

TwoConns == {c1, c2}

AnyOrder == Permutations(TwoConns)

OneLoop   == [loops |-> 1, max |-> 2]
OneAtMost == [loops |-> 2, max |-> 1]

AllSettings == {OneLoop, OneAtMost}
JustOne     == {OneLoop}
=============================================================================
