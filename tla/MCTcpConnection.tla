--------------------------- MODULE MCTcpConnection ---------------------------
(* The module has no sets of its own to choose: the bounds are in the cfg. *)
EXTENDS TcpConnection
=============================================================================
