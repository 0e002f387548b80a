------------------------------- MODULE Tunnel -------------------------------
(***************************************************************************)
(* The base64 text in which a tunnelled client sends its requests          *)
(* (src/tcp.c: unbase64 and its call in do_read).  It is decoded in place, *)
(* read by read: characters that do not make up a group of four yet stay   *)
(* at the end of req_buf, and nothing is parsed while there are any.       *)
(* A character is the six bits it stands for, the padding, or one that     *)
(* base64_table.h skips.                                                   *)
(***************************************************************************)
EXTENDS Integers, Sequences, SequencesExt

Pad  == 64
Skip == -1

\* base64_table.h gives the padding the value 0.
Bits(ch) == IF ch = Pad THEN 0 ELSE ch

\* The bytes that one group writes, and how many of them count.
Group(enc) ==
  LET bytes == << ((Bits(enc[1]) * 4) % 256) + (Bits(enc[2]) \div 16),
                  ((Bits(enc[2]) % 16) * 16) + (Bits(enc[3]) \div 4),
                  (Bits(enc[3]) % 4) * 64 + Bits(enc[4]) >>
      n == IF enc[4] # Pad THEN 3 ELSE IF enc[3] # Pad THEN 2 ELSE 1
  IN  SubSeq(bytes, 1, n)

\* The decoded bytes, and the characters that remain.
unbase64(d) ==
  LET enc    == SelectSeq(d, LAMBDA ch : ch # Skip)
      groups == Len(enc) \div 4
  IN  [bytes  |-> FlattenSeq([k \in 1 .. groups |-> Group(SubSeq(enc, 4 * k - 3, 4 * k))]),
       remain |-> SubSeq(enc, 4 * groups + 1, Len(enc))]

\* One read: what remained is decoded again with what came.  parse_client_data sees
\* req_buf when nothing remains.
Read(buf, chars) ==
  LET u == unbase64(buf.remain \o chars)
  IN  [decoded |-> buf.decoded \o u.bytes, remain |-> u.remain,
       parsed |-> IF u.remain = <<>> THEN Len(buf.decoded \o u.bytes) ELSE buf.parsed]

-----------------------------------------------------------------------------

Encoded(bytes) ==
  LET At(i) == IF i <= Len(bytes) THEN bytes[i] ELSE 0
      Four(k) == LET i == 3 * k - 2
                 IN << At(i) \div 4, ((At(i) % 4) * 16) + (At(i + 1) \div 16),
                       IF i + 1 > Len(bytes) THEN Pad ELSE ((At(i + 1) % 16) * 4) + (At(i + 2) \div 64),
                       IF i + 2 > Len(bytes) THEN Pad ELSE At(i + 2) % 64 >>
  IN  FlattenSeq([k \in 1 .. (Len(bytes) + 2) \div 3 |-> Four(k)])

\* Wherever TCP cuts the text of two requests, and with line ends after any character, the
\* client's bytes come out whole, once and in order, and all of them have been parsed.
TunnelDecodes(first, second, skipAt, cut1, cut2) ==
  LET text   == Encoded(first) \o Encoded(second)
      lined  == SubSeq(text, 1, skipAt) \o <<Skip>> \o SubSeq(text, skipAt + 1, Len(text))
      pieces == <<SubSeq(lined, 1, cut1), SubSeq(lined, cut1 + 1, cut2), SubSeq(lined, cut2 + 1, Len(lined))>>
      buf    == FoldLeft(Read, [decoded |-> <<>>, remain |-> <<>>, parsed |-> 0], pieces)
  IN  /\ buf.decoded = first \o second
      /\ buf.parsed = Len(first) + Len(second)

=============================================================================
