----------------------------- MODULE Md5Pieces -----------------------------
(***************************************************************************)
(* The buffering and padding of src/md5.c, and the hashes of digest        *)
(* authentication (src/http-auth.c) that are made with it.  MD5Transform   *)
(* is opaque: it takes a block, so a context holds the blocks it has taken *)
(* and a digest is what they were.  Bytes are opaque too, but the ones of  *)
(* the padding.  Hashed texts are far below 2^29 bytes, so the low word of *)
(* the bit count never overflows.                                          *)
(***************************************************************************)
EXTENDS Integers, Sequences, SequencesExt

BlockSize == 64

Zero      == <<"zero">>
EndMark   == <<"0x80">>
Colon     == <<":">>
\* The eight bytes of bits[0] and bits[1].
BitsBytes(bits) == [i \in 1 .. 8 |-> <<"bits", bits, i>>]

Fill(byte, n) == [i \in 1 .. n |-> byte]

\* memcpy(in + at, bytes, Len(bytes))
Put(in, at, bytes) ==
  [i \in 1 .. BlockSize |-> IF i - at \in DOMAIN bytes THEN bytes[i - at] ELSE in[i]]

MD5Init == [bits |-> 0, in |-> Fill(<<"garbage">>, BlockSize), taken |-> <<>>]

Transform(ctx, in) == [ctx EXCEPT !.in = in, !.taken = Append(@, in)]

Held(ctx) == (ctx.bits \div 8) % BlockSize

\* The whole blocks of buf, each through in, and the rest of it into in.
TakeBlocks(ctx, buf) ==
  LET n == Len(buf) \div BlockSize
      Taken == FoldLeft(LAMBDA c, k :
                 Transform(c, SubSeq(buf, (k - 1) * BlockSize + 1, k * BlockSize)),
                 ctx, [k \in 1 .. n |-> k])
      rest == SubSeq(buf, n * BlockSize + 1, Len(buf))
  IN  [Taken EXCEPT !.in = Put(@, 0, rest)]

MD5Update(ctx, buf) ==
  LET counted == [ctx EXCEPT !.bits = @ + 8 * Len(buf)]
      t    == Held(ctx)
      room == BlockSize - t
  IN  IF t = 0 THEN TakeBlocks(counted, buf)
      ELSE IF Len(buf) < room THEN [counted EXCEPT !.in = Put(@, t, buf)]
      ELSE TakeBlocks(Transform(counted, Put(ctx.in, t, SubSeq(buf, 1, room))),
                      SubSeq(buf, room + 1, Len(buf)))

MD5Final_OneShort(ctx) ==
  LET count == BlockSize - 1 - Held(ctx)
      in    == Put(ctx.in, Held(ctx), <<EndMark>>)
      full  == Transform(ctx, Put(in, Held(ctx) + 1, Fill(Zero, count)))
      last  == IF count < 7 THEN [full EXCEPT !.in = Put(@, 0, Fill(Zero, 56))]
               ELSE [ctx EXCEPT !.in = Put(in, Held(ctx) + 1, Fill(Zero, count - 8))]
  IN  Transform(last, Put(last.in, 56, BitsBytes(ctx.bits))).taken

MD5Final(ctx) ==
  LET count == BlockSize - 1 - Held(ctx)
      in    == Put(ctx.in, Held(ctx), <<EndMark>>)
      full  == Transform(ctx, Put(in, Held(ctx) + 1, Fill(Zero, count)))
      last  == IF count < 8 THEN [full EXCEPT !.in = Put(@, 0, Fill(Zero, 56))]
               ELSE [ctx EXCEPT !.in = Put(in, Held(ctx) + 1, Fill(Zero, count - 8))]
  IN  Transform(last, Put(last.in, 56, BitsBytes(ctx.bits))).taken

\* md5_hash: the texts with colons between them.  The digest is shown as 32 digits.
HexText(digest) == [i \in 1 .. 32 |-> <<"digit", digest, i>>]

md5_hash(v) ==
  LET First   == MD5Update(MD5Init, v[1])
      More(ctx, text) == MD5Update(MD5Update(ctx, <<Colon>>), text)
  IN  HexText(MD5Final(FoldLeft(More, First, Tail(v))))

create_response(username, realm, password, method, uri, nonce) ==
  md5_hash(<< md5_hash(<<username, realm, password>>), nonce, md5_hash(<<method, uri>>) >>)

-----------------------------------------------------------------------------
(* What RFC 1321 and RFC 2617 say                                          *)

Joined(v) == FoldLeft(LAMBDA a, text : a \o <<Colon>> \o text, v[1], Tail(v))

Padded(text) ==
  LET n == Len(text) + 1
      zeros == CHOOSE z \in 0 .. BlockSize - 1 : (n + z) % BlockSize = 56
  IN  text \o <<EndMark>> \o Fill(Zero, zeros) \o BitsBytes(8 * Len(text))

Blocks(text) ==
  [k \in 1 .. Len(text) \div BlockSize |->
     SubSeq(text, (k - 1) * BlockSize + 1, k * BlockSize)]

Hash(text) == HexText(Blocks(Padded(text)))

Text(name, length) == [i \in 1 .. length |-> <<name, i>>]

\* However a text is cut into the pieces that MD5Update is given, the blocks that are
\* transformed are those of the padded text, no byte lost, doubled or left over from
\* an earlier block.
HashSeesWhole(n1, n2, n3) ==
  LET a == Text("a", n1)
      b == Text("b", n2)
      c == Text("c", n3)
  IN  /\ md5_hash(<<a, b, c>>) = Hash(Joined(<<a, b, c>>))
      /\ create_response(a, b, c, b, a, c) =
           Hash(Joined(<<Hash(Joined(<<a, b, c>>)), c, Hash(Joined(<<b, a>>))>>))

=============================================================================
