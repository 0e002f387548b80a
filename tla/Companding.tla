----------------------------- MODULE Companding -----------------------------
(***************************************************************************)
(* A-law and mu-law (src/sound_conv.c), which bring a 16-bit sample to the *)
(* 8 bits a raw audio track may carry.  A-law words are shown before every *)
(* other bit is inverted (XOR 0x55), which the two directions both do.     *)
(***************************************************************************)
EXTENDS Integers, Sequences, FiniteSetsExt

Samples == -32768 .. 32767

Magnitude(x) == IF x < 0 THEN -x ELSE x

ValSeg_NoPair(val) ==
  LET v == val \div 128
      a == IF v >= 16 THEN [v |-> v \div 16, r |-> 4] ELSE [v |-> v, r |-> 0]
  IN  a.r + (IF (a.v \div 2) % 2 = 1 THEN 1 ELSE 0)

\* val_seg: the position of the highest bit above the seventh, found by halves.
ValSeg(val) ==
  LET v == val \div 128
      a == IF v >= 16 THEN [v |-> v \div 16, r |-> 4] ELSE [v |-> v, r |-> 0]
      b == IF (a.v \div 4) % 4 # 0 THEN [v |-> a.v \div 4, r |-> a.r + 2] ELSE a
  IN  b.r + (IF (b.v \div 2) % 2 = 1 THEN 1 ELSE 0)

\* Segment and the four bits below the highest one.
Pack(m) == 16 * ValSeg(m) + ((m \div 2 ^ (ValSeg(m) + 3)) % 16)

S16ToAlaw(x) ==
  LET m == Min({Magnitude(x), 32767})
  IN  (IF x >= 0 THEN 128 ELSE 0) + (IF m < 256 THEN m \div 16 ELSE Pack(m))

AlawToS16(word) ==
  LET w   == word % 128
      seg == w \div 16
      t   == IF w < 16 THEN 16 * w + 8 ELSE ((16 * (w % 16)) + 264) * 2 ^ (seg - 1)
  IN  IF word >= 128 THEN t ELSE -t

Bias == 132

S16ToUlaw(x) ==
  (IF x < 0 THEN 127 ELSE 255) - Pack(Min({Bias + Magnitude(x), 32767}))

UlawToS16(word) ==
  LET u == 255 - word
      t == ((8 * (u % 16)) + Bias) * 2 ^ ((u \div 16) % 8)
  IN  IF u >= 128 THEN Bias - t ELSE t - Bias

\* alaw_enc takes samples in network order, mulaw_enc in the order of the machine,
\* which has the low byte first; an odd byte at the end is left.
Sample(high, low) == LET n == 256 * high + low IN IF n > 32767 THEN n - 65536 ELSE n

AlawEnc(bytes)  == [i \in 1 .. Len(bytes) \div 2 |-> S16ToAlaw(Sample(bytes[2 * i - 1], bytes[2 * i]))]
MulawEnc(bytes) == [i \in 1 .. Len(bytes) \div 2 |-> S16ToUlaw(Sample(bytes[2 * i], bytes[2 * i - 1]))]

AlawDec(words)  == [i \in DOMAIN words |-> AlawToS16(words[i])]
MulawDec(words) == [i \in DOMAIN words |-> UlawToS16(words[i])]

-----------------------------------------------------------------------------
(* Properties.  The samples are checked as alaw_enc and mulaw_enc get them. *)

High(x) == (x % 65536) \div 256
Low(x)  == x % 256

\* Half a step of the segment a magnitude is in, and that much more at the top, where
\* samples are clipped.
Near(x, y, step) == Magnitude(x - y) <= (IF Magnitude(x) > 32124 THEN step ELSE step \div 2)

\* A sample comes back within half a quantization step, a louder one never as a quieter
\* one, and a word that is decoded and encoded again is the same word, but for the
\* negative zero of mu-law.
CompandingFaithful(x) ==
  LET a == AlawDec(AlawEnc(<<High(x), Low(x)>>))[1]
      u == MulawDec(MulawEnc(<<Low(x), High(x)>>))[1]
      w == Low(x)
  IN  /\ Near(x, a, 2 ^ (IF Magnitude(x) < 256 THEN 4 ELSE ValSeg(Min({Magnitude(x), 32767})) + 3))
      /\ Near(x, u, 2 ^ (ValSeg(Min({Bias + Magnitude(x), 32767})) + 3))
      /\ x < 32767 => a <= AlawToS16(S16ToAlaw(x + 1)) /\ u <= UlawToS16(S16ToUlaw(x + 1))
      /\ S16ToAlaw(AlawToS16(w)) = w
      /\ w # 127 => S16ToUlaw(UlawToS16(w)) = w

=============================================================================
