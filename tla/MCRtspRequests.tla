--------------------------- MODULE MCRtspRequests ---------------------------
(* RtspRequests for TLC: a client that knows the password and one that does not. *)
EXTENDS RtspRequests, TLC

CONSTANTS c1, c2, pub, priv, i1, i2

MCDates    == 31 .. 33      \* a date that is read as it is, and some that are read as later ones
MCCSeqLens == {238}         \* the longest that leaves room for a challenge

Symmetric  == Permutations({i1, i2})
=============================================================================
