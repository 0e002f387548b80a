--------------------------- MODULE MCWirelessLink ---------------------------
(* Signals: out of range, two bad ones that do not differ enough to leave  *)
(* one for the other, and a good one.                                      *)
EXTENDS WirelessLink

CONSTANTS e1, e2, near, far

MCEndpoints    == {e1, e2}
MCAccessPoints == {near, far}
MCSignals      == {0, 1, 2, 4}
=============================================================================
