--------------------------- MODULE MCTcpConnection ---------------------------
(* Instances of TcpConnection for TLC: the kinds of request a peer sends,   *)
(* and what a refused line leaves behind.                                   *)
EXTENDS TcpConnection

Plain        == {"req"}
PlainAndBad  == {"req", "err"}
AllKinds     == {"req", "head", "err", "te"}
NoLeftovers  == {<<>>}
AllLeftovers == {<<>>, <<"err">>, <<"req">>}
=============================================================================
