-------------------------------- MODULE Meter --------------------------------
(***************************************************************************)
(* How the samples of a sound card with a clock of its own are brought to  *)
(* the nominal rate: the meter of src/frame.c, which audio_ring_input      *)
(* (src/audio.c) asks once in half a minute after how many samples one is  *)
(* to be doubled or dropped.  A call of meter_check stands for the call of *)
(* meter_count that ends such a period; the others only add their ticks.   *)
(* Periods are whole seconds long, so that expected and slip are integers; *)
(* avg_slip is kept in thousandths.                                        *)
(***************************************************************************)
EXTENDS Integers, Sequences, SequencesExt

\* Conversion of a double to int, of the quotient of two integers.
Toward0(a, b) ==
  LET q == (IF a < 0 THEN -a ELSE a) \div (IF b < 0 THEN -b ELSE b)
  IN  IF (a < 0) = (b < 0) THEN q ELSE -q

\* What a slip of 0 makes of correction_rate: INT_MIN, where the build converts infinity
\* as x86 does.
IntMin == -(2 ^ 30)

meter_init(fbase) ==
  [rate |-> fbase, slip |-> 0, avg_slip |-> 0, precomp |-> 0, correction_rate |-> 0, corrected |-> 0]

meter_check_NotReported(m, seconds, ticks) ==
  LET missing == m.rate * seconds - ticks
      avg     == (4 * m.avg_slip) \div 5 + (missing * 1000) \div (5 * seconds)
      precomp == Toward0(15 * avg, 1000)
      slip    == m.slip + missing - m.precomp + precomp
  IN  [m EXCEPT !.slip = slip, !.avg_slip = avg, !.precomp = precomp, !.corrected = 0,
                !.correction_rate = IF slip = 0 THEN IntMin ELSE Toward0(ticks, slip)]

meter_check(m, seconds, ticks) ==
  LET missing == m.rate * seconds - ticks
      avg     == (4 * m.avg_slip) \div 5 + (missing * 1000) \div (5 * seconds)
      precomp == Toward0(15 * avg, 1000)
      slip    == m.slip + missing - m.precomp + m.corrected + precomp
  IN  [m EXCEPT !.slip = slip, !.avg_slip = avg, !.precomp = precomp, !.corrected = 0,
                !.correction_rate = IF slip = 0 THEN IntMin ELSE Toward0(ticks, slip)]

meter_report_correction(m, ticks) == [m EXCEPT !.corrected = @ - ticks]

\* What audio_ring_input adds to a period of so many ticks at a new rate, beginning with
\* the first of them.
Correction(ticks, rate) ==
  IF rate = 0 \/ ticks = 0 THEN 0
  ELSE IF rate > 0 THEN 1 + (ticks - 1) \div rate
  ELSE -(1 + (ticks - 1) \div (-rate))

\* Half-minutes in which the card gives cards[k] ticks per second, each corrected at the
\* rate found at the end of the one before: the ticks given out beyond the nominal ones
\* by the end of each.
Excess(fbase, seconds, cards) ==
  LET Period(s, card) ==
        LET ticks == card * seconds
            extra == Correction(ticks, s.m.correction_rate)
        IN  [m   |-> meter_check(meter_report_correction(s.m, extra), seconds, ticks),
             sum |-> Append(s.sum, Last(s.sum) + ticks + extra - fbase * seconds)]
  IN  Tail(FoldLeft(Period, [m |-> meter_init(fbase), sum |-> <<0>>], cards).sum)

-----------------------------------------------------------------------------

\* However the card's clock wanders within a deviation from the nominal rate, the sound
\* is never further from the nominal number of samples than one and a half of what the
\* card can be off in one period, and the rounding of the rate: errors do not add up.
RateKept(fbase, seconds, cards, deviation) ==
  \A k \in DOMAIN cards :
    LET e == Excess(fbase, seconds, cards)[k]
    IN  (IF e < 0 THEN -e ELSE e) <= (3 * deviation * seconds) \div 2 + (deviation * seconds) \div 16 + 1

=============================================================================
