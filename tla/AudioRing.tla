------------------------------ MODULE AudioRing ------------------------------
(***************************************************************************)
(* The sound card's samples on their way to the mp2 encoder: the ring of   *)
(* src/audio.c, which cuts them into frames and drops or doubles some to   *)
(* keep to the nominal rate, and mp2_loop of src/encoder-mp2.c, which cuts *)
(* the frames into blocks.  A sample is its number; lengths count samples. *)
(* The rate the meter asks for is an input: every so many samples one is   *)
(* doubled (positive) or dropped (negative).                               *)
(***************************************************************************)
EXTENDS Meter, FiniteSetsExt

\* new_audio_ring: a second of sound, less what is no whole frame.
NewRing(rate, framelen) ==
  [framelen |-> framelen, buflen |-> rate - (rate % framelen), buf |-> <<>>,
   adjust_rate |-> 0, adjust_count |-> 0, i_r |-> 0, i_w |-> 0, avail |-> 0, frames |-> <<>>]

Write(s, x) ==
  [s EXCEPT !.buf   = [i \in 0 .. s.buflen - 1 |->
                         IF i = s.i_w THEN x ELSE IF i \in DOMAIN @ THEN @[i] ELSE 0],
            !.i_w   = (@ + 1) % s.buflen,
            !.avail = @ + 1]

CutFrame(s) ==
  IF s.avail < s.framelen THEN s
  ELSE [s EXCEPT !.frames = Append(@, [at |-> s.i_r,
                                       holds |-> [k \in 1 .. s.framelen |-> s.buf[s.i_r + k - 1]]]),
                 !.i_r    = (@ + s.framelen) % s.buflen,
                 !.avail  = @ - s.framelen]

\* One turn of audio_ring_input's loop.
TakeSample(s, x) ==
  LET due     == s.adjust_rate # 0 /\ s.adjust_count = 1
      counted == [s EXCEPT !.adjust_count =
                    IF due THEN (IF s.adjust_rate < 0 THEN -s.adjust_rate ELSE s.adjust_rate)
                    ELSE IF s.adjust_rate # 0 THEN @ - 1 ELSE @]
  IN  IF due /\ s.adjust_rate < 0 THEN counted
      ELSE CutFrame(Write(IF due THEN Write(counted, x) ELSE counted, x))

\* i_r = i_w stands for an empty ring: what is left after a call is less than a frame.
Available(s) == IF s.i_w < s.i_r THEN s.buflen - s.i_r + s.i_w ELSE s.i_w - s.i_r

\* A chunk of samples, and the rate if the meter's half minute is over (0: it is not).
audio_ring_input(s, chunk, rate) ==
  LET metered == IF rate = 0 THEN s ELSE [s EXCEPT !.adjust_rate = rate, !.adjust_count = 1]
  IN  FoldLeft(TakeSample, [metered EXCEPT !.avail = Available(s)], chunk)

\* mp2_loop, from one get_next_event to the next: part is what pcmbuf holds of the frames
\* before.  Every frame has a block's worth of samples at least.
NextFrame(s, in) ==
  LET off == IF s.first THEN 0 ELSE s.block - Len(s.part)
      n   == (Len(in) - off) \div s.block
      At(k) == off + (k - 1) * s.block
  IN  [s EXCEPT !.first  = FALSE,
                !.blocks = (IF s.first THEN @ ELSE Append(@, s.part \o SubSeq(in, 1, off)))
                           \o [k \in 1 .. n |-> SubSeq(in, At(k) + 1, At(k) + s.block)],
                !.part   = SubSeq(in, At(n + 1) + 1, Len(in))]

mp2_loop(frames, block) ==
  FoldLeft(NextFrame, [first |-> TRUE, block |-> block, part |-> <<>>, blocks |-> <<>>], frames).blocks

-----------------------------------------------------------------------------

Played(frames) == FlattenSeq([k \in DOMAIN frames |-> frames[k].holds])

Reads(s, f) == [k \in 1 .. s.framelen |-> s.buf[f.at + k - 1]]

\* Chunks of lengths n1, n2 and n3, the second and the third with a new rate r2 and r3.
\* The frames are the samples in order, each once but for the ones that are doubled or
\* left out, one at a time for each new rate, as many as the meter reckons with; the
\* newest frame, and the others while less than a ring has been written since, still
\* hold their samples when they are read; and the encoder's blocks are the frames'
\* samples in order.
SamplesInOrder(rate, framelen, block, n1, n2, n3, r2, r3) ==
  LET Chunk(from, n) == [k \in 1 .. n |-> from + k]
      s1 == audio_ring_input(NewRing(rate, framelen), Chunk(0, n1), 0)
      s2 == audio_ring_input(s1, Chunk(n1, n2), r2)
      s3 == audio_ring_input(s2, Chunk(n1 + n2, n3), r3)
      p  == Played(s3.frames)
      safe == s3.buflen \div framelen - 1
      b  == FlattenSeq(mp2_loop([k \in DOMAIN s3.frames |-> s3.frames[k].holds], block))
      Drops == Cardinality({i \in 1 .. 2 : <<r2, r3>>[i] < 0})
      Taken(s) == Len(s.frames) * framelen + Available(s)
      StepsIn(steps) == \A k \in 1 .. Len(p) - 1 : p[k + 1] - p[k] \in steps
  IN  /\ r2 = 0 /\ r3 = 0 => p = Chunk(0, Len(p)) /\ n1 + n2 + n3 - Len(p) \in 0 .. framelen - 1
      /\ r2 # 0 => Taken(s2) - Taken(s1) = n2 + Correction(n2, r2)
      /\ StepsIn((IF r2 > 0 \/ r3 > 0 THEN 0 ELSE 1) .. 1 + Drops)
      /\ \A k \in Max({1, Len(s3.frames) - safe + 1}) .. Len(s3.frames) :
           Reads(s3, s3.frames[k]) = s3.frames[k].holds
      /\ b = SubSeq(p, 1, Len(b)) /\ Len(p) - Len(b) \in 0 .. block - 1

=============================================================================
