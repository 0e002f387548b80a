----------------------------- MODULE MCEventLoop -----------------------------
(* The root object and two others, which may be two connections, one of them *)
(* with the descriptor of a third that has gone, or endpoints of either      *)
(* transport.                                                                *)
EXTENDS EventLoop

CONSTANTS root, o1, o2, e1, e2, e3, e4, e5, e6

MCObjects == {root, o1, o2}
MCEvents4 == {e1, e2, e3, e4}
MCEvents6 == {e1, e2, e3, e4, e5, e6}

Symmetric == Permutations({o1, o2})
=============================================================================
