--------------------------- MODULE MCEnetChannel ---------------------------
(* EnetChannel for TLC: what the application of the sending end sends. *)
EXTENDS EnetChannel

Rel(k)   == [kind |-> "reliable", parts |-> k]
Unrel(k) == [kind |-> "unreliable", parts |-> k]
Uns      == [kind |-> "unsequenced", parts |-> 1]

\* Enough reliable messages for the sequence numbers to wrap at 12, of which the third
\* has two fragments and the ninth, across the wrap, three; and a mixture in which the third unreliable
\* message in a row goes reliably.
MCPrograms == {
  <<Rel(1), Rel(1), Rel(2), Rel(1), Rel(1), Rel(1), Rel(1), Rel(2), Rel(3), Rel(1)>>,
  <<Rel(1), Unrel(2), Unrel(1), Unrel(1), Uns, Rel(1), Uns, Unrel(1)>>
  }
=============================================================================
