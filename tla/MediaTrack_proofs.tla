-------------------------- MODULE MediaTrack_proofs --------------------------
(***************************************************************************)
(* Theorems about MediaTrack, and about the packetizers of RtpMedia, for    *)
(* all endpoints and for frames of every size.                             *)
(***************************************************************************)
EXTENDS MediaTrack, SequenceTheorems, WellFoundedInduction, TLAPS

-----------------------------------------------------------------------------
(* Induction and computations in steps                                     *)

\* The order of the numbers as a set, in which a least number is sought.
Before == {p \in Nat \X Nat : p[1] < p[2]}

LEMMA LeastNumber ==
  ASSUME NEW S \in SUBSET Nat, S # {}
  PROVE  \E n \in S : \A m \in S : n <= m
<1>1. IsWellFoundedOn(Before, Nat)
  BY NatLessThanWellFounded DEF OpToRel, Before
<1>2. \E n \in S : \A m \in S : ~ (<<m, n>> \in Before)
  BY <1>1, WFMin, S \subseteq Nat
<1>3. PICK n \in S : \A m \in S : ~ (<<m, n>> \in Before)
  BY <1>2
<1>4. ASSUME NEW m \in S PROVE n <= m
  <2>1. m \in Nat /\ n \in Nat
    OBVIOUS
  <2>2. m < n => <<m, n>> \in Before
    BY <2>1 DEF Before
  <2>3. QED BY <1>3, <2>1, <2>2
<1>5. QED BY <1>4

LEMMA UpTo ==
  ASSUME NEW k \in Nat, NEW S \in SUBSET (0 .. k), 0 \in S,
         \A n \in 0 .. k - 1 : n \in S => n + 1 \in S
  PROVE  \A n \in 0 .. k : n \in S
<1>1. SUFFICES ASSUME (0 .. k) \ S # {} PROVE FALSE
  OBVIOUS
<1>2. (0 .. k) \ S \in SUBSET Nat
  OBVIOUS
<1>3. PICK n \in (0 .. k) \ S : \A m \in (0 .. k) \ S : n <= m
  BY <1>1, <1>2, LeastNumber
<1>4. n - 1 \in 0 .. k - 1 /\ n - 1 \in S
  BY <1>3
<1>5. QED BY <1>3, <1>4

\* A computation in k steps from x, each from the result of the one before; result i
\* is in the set S[i].
Stages(k, S, x, f) == x \in S[0] /\ \A i \in 1 .. k : \A v \in S[i - 1] : f[i][v] \in S[i]
Computes(g, k, S, x, f) ==
  /\ g = [i \in 0 .. k |-> g[i]]
  /\ g[0] = x
  /\ \A i \in 1 .. k : g[i] = f[i][g[i - 1]]
  /\ \A i \in 0 .. k : g[i] \in S[i]
Computed(k, S, x, f) == \E g : Computes(g, k, S, x, f)

LEMMA InStages ==
  ASSUME NEW k \in Nat, NEW S, NEW x, NEW f, Stages(k, S, x, f)
  PROVE  Computed(k, S, x, f)
<1> USE DEF Computes, Computed
<1> DEFINE Part(m) == \E g : Computes(g, m, S, x, f)
           T == {m \in 0 .. k : Part(m)}
<1>1. 0 \in T
  <2> DEFINE g == [i \in 0 .. 0 |-> x]
  <2>1. g = [i \in 0 .. 0 |-> g[i]] /\ g[0] = x
    OBVIOUS
  <2> HIDE DEF g
  <2>2. Part(0)
    BY <2>1 DEF Stages
  <2>3. QED BY <2>2
<1>2. ASSUME NEW m \in 0 .. k - 1, m \in T PROVE m + 1 \in T
  <2>1. PICK g : Computes(g, m, S, x, f)
    BY <1>2
  <2>2. m + 1 \in 1 .. k /\ m + 1 \in 0 .. k /\ m \in 0 .. m /\ (m + 1) - 1 = m
    OBVIOUS
  <2>3. f[m + 1][g[m]] \in S[m + 1]
    <3>1. g[m] \in S[m]
      BY <2>1, <2>2
    <3>2. \A i \in 1 .. k : \A v \in S[i - 1] : f[i][v] \in S[i]
      BY DEF Stages
    <3>3. \A v \in S[m] : f[m + 1][v] \in S[m + 1]
      BY ONLY <2>2, <3>2
    <3>4. QED BY ONLY <3>1, <3>3
  <2> DEFINE h == [i \in 0 .. m + 1 |-> IF i <= m THEN g[i] ELSE f[m + 1][g[m]]]
  <2>4. h = [i \in 0 .. m + 1 |-> h[i]]
    OBVIOUS
  <2>5. (\A i \in 0 .. m : h[i] = g[i]) /\ h[m + 1] = f[m + 1][g[m]]
    BY <2>2
  <2> HIDE DEF h
  <2>6. ASSUME NEW i \in 1 .. m + 1 PROVE h[i] = f[i][h[i - 1]]
    <3>1. CASE i <= m
      <4>1. i \in 1 .. m /\ i \in 0 .. m /\ i - 1 \in 0 .. m
        BY <3>1
      <4>2. QED BY <2>1, <2>5, <4>1
    <3>2. CASE i = m + 1
      <4>1. i - 1 = m
        BY <3>2
      <4>2. QED BY <2>2, <2>5, <3>2, <4>1
    <3>3. QED BY <3>1, <3>2
  <2>7. ASSUME NEW i \in 0 .. m + 1 PROVE h[i] \in S[i]
    <3>1. CASE i <= m
      <4>1. i \in 0 .. m
        BY <3>1
      <4>2. QED BY <2>1, <2>5, <4>1
    <3>2. CASE i = m + 1
      BY <2>3, <2>5, <3>2
    <3>3. QED BY <3>1, <3>2
  <2>8. h[0] = x
    <3>1. 0 \in 0 .. m
      OBVIOUS
    <3>2. QED BY <2>1, <2>5, <3>1
  <2>9. Part(m + 1)
    BY <2>4, <2>6, <2>7, <2>8
  <2>10. QED BY <2>2, <2>9
<1>3. T \in SUBSET (0 .. k)
  OBVIOUS
<1>4. k \in 0 .. k
  OBVIOUS
<1> HIDE DEF T
<1>5. k \in T
  BY <1>1, <1>2, <1>3, <1>4, UpTo
<1>6. QED BY <1>5 DEF T

\* Every result of a computation that goes from stage to stage.
LEMMA StagesHold ==
  ASSUME NEW k \in Nat, NEW S, NEW g, g[0] \in S[0],
         \A i \in 0 .. k - 1 : g[i] \in S[i] => g[i + 1] \in S[i + 1]
  PROVE  \A i \in 0 .. k : g[i] \in S[i]
<1> DEFINE T == {i \in 0 .. k : g[i] \in S[i]}
<1>1. T \in SUBSET (0 .. k) /\ 0 \in T
  OBVIOUS
<1>2. ASSUME NEW n \in 0 .. k - 1, n \in T PROVE n + 1 \in T
  <2>1. n + 1 \in 0 .. k /\ g[n] \in S[n]
    BY <1>2
  <2>2. QED BY <2>1
<1>3. \A i \in 0 .. k : i \in T
  <2> HIDE DEF T
  <2>1. QED BY <1>1, <1>2, UpTo
<1>4. QED BY <1>3

\* The same with one set for all results.
StepsOn(k, S) == [1 .. k -> [S -> S]]
Stepwise(k, S, x, f) == \E g \in [0 .. k -> S] : g[0] = x /\ \A i \in 1 .. k : g[i] = f[i][g[i - 1]]

LEMMA InSteps ==
  ASSUME NEW k \in Nat, NEW S, NEW x \in S, NEW f \in StepsOn(k, S)
  PROVE  Stepwise(k, S, x, f)
<1> DEFINE R == [i \in 0 .. k |-> S]
<1>1. \A i \in 0 .. k : R[i] = S
  OBVIOUS
<1> HIDE DEF R
<1>2. Stages(k, R, x, f)
  <2>1. \A i \in 1 .. k : \A v \in S : f[i][v] \in S
    BY DEF StepsOn
  <2>2. \A i \in 1 .. k : R[i] = S /\ R[i - 1] = S
    BY <1>1
  <2>3. QED BY <1>1, <2>1, <2>2 DEF Stages
<1>3. PICK g : Computes(g, k, R, x, f)
  BY <1>2, InStages DEF Computed
<1>4. g \in [0 .. k -> S]
  <2>1. g = [i \in 0 .. k |-> g[i]] /\ \A i \in 0 .. k : g[i] \in S
    BY <1>1, <1>3 DEF Computes
  <2>2. QED BY ONLY <2>1
<1>5. QED BY <1>3, <1>4 DEF Computes, Stepwise

-----------------------------------------------------------------------------
(* Cutting a piece                                                         *)

Stretch == [el : Nat, from : Nat, to : Nat]

Rooms == [Nat -> Nat \ {0}]

\* What the loop "for (i = from; i < len; i += plen)" cuts: c runs from from to
\* len, no stretch is empty or larger than there was room.
CutsOf(c, el, from, len, room) ==
  /\ c \in Seq(Stretch) /\ Len(c) > 0
  /\ c[1].from = from /\ c[Len(c)].to = len
  /\ \A k \in 1 .. Len(c) :
       /\ c[k].el = el /\ c[k].from >= from
       /\ c[k].from < c[k].to /\ c[k].to - c[k].from <= room[c[k].from]
  /\ \A k \in 1 .. Len(c) - 1 : c[k + 1].from = c[k].to /\ c[k].to < len

CutStep(len, room, i) == IF len - i > room[i] THEN i + room[i] ELSE len

LEMMA StepAhead ==
  ASSUME NEW len \in Nat, NEW room \in Rooms, NEW i \in Nat, i < len
  PROVE  /\ CutStep(len, room, i) \in Nat /\ i < CutStep(len, room, i)
         /\ CutStep(len, room, i) <= len /\ CutStep(len, room, i) - i <= room[i]
<1>1. PICK r \in Nat \ {0} : r = room[i]
  BY DEF Rooms
<1>2. QED BY <1>1 DEF CutStep

\* A stretch before the cuts of what follows it.
LEMMA CutMore ==
  ASSUME NEW el \in Nat, NEW len \in Nat, NEW room \in Rooms, NEW i \in Nat, i < len,
         NEW j \in Nat, i < j, j < len, j - i <= room[i],
         NEW c, CutsOf(c, el, j, len, room)
  PROVE  CutsOf(<<Seg(el, i, j)>> \o c, el, i, len, room)
<1> DEFINE s == Seg(el, i, j)
           d == <<s>> \o c
<1>1. s \in Stretch /\ s.el = el /\ s.from = i /\ s.to = j
  BY DEF Seg, Stretch
<1> HIDE DEF s
<1>2. c \in Seq(Stretch) /\ Len(c) \in Nat /\ Len(c) > 0
  BY LenProperties DEF CutsOf
<1>3. <<s>> \in Seq(Stretch) /\ Len(<<s>>) = 1 /\ <<s>>[1] = s
  BY <1>1
<1>4. /\ d \in Seq(Stretch) /\ Len(d) = Len(c) + 1 /\ d[1] = s
      /\ \A k \in 2 .. Len(c) + 1 : d[k] = c[k - 1]
  <2>1. d \in Seq(Stretch) /\ Len(d) = 1 + Len(c)
    BY <1>2, <1>3, ConcatProperties
  <2>2. \A k \in 1 .. 1 + Len(c) : d[k] = IF k <= 1 THEN <<s>>[k] ELSE c[k - 1]
    BY <1>2, <1>3, ConcatProperties
  <2> HIDE DEF d
  <2>3. d[1] = s
    BY <1>2, <1>3, <2>2
  <2>4. QED BY <1>2, <2>1, <2>2, <2>3
<1> HIDE DEF d
<1>5. PICK n \in Nat : n = Len(c) /\ n > 0 /\ Len(d) = n + 1
  BY <1>2, <1>4
<1>6. d[Len(d)].to = len
  BY SMTT(30), <1>4, <1>5 DEF CutsOf
<1>7. ASSUME NEW k \in 1 .. Len(d)
      PROVE  /\ d[k].el = el /\ d[k].from >= i
             /\ d[k].from < d[k].to /\ d[k].to - d[k].from <= room[d[k].from]
  <2>1. CASE k = 1
    BY <1>1, <1>4, <2>1
  <2>2. CASE k # 1
    <3>1. k - 1 \in 1 .. n /\ d[k] = c[k - 1] /\ c[k - 1] \in Stretch
      BY <1>2, <1>4, <1>5, <2>2
    <3>2. /\ c[k - 1].el = el /\ c[k - 1].from >= j
          /\ c[k - 1].from < c[k - 1].to
          /\ c[k - 1].to - c[k - 1].from <= room[c[k - 1].from]
      BY <1>5, <3>1 DEF CutsOf
    <3>3. c[k - 1].from >= i
      BY <3>1, <3>2 DEF Stretch
    <3>4. QED BY <3>1, <3>2, <3>3
  <2>3. QED BY <2>1, <2>2
<1>8. ASSUME NEW k \in 1 .. Len(d) - 1
      PROVE  d[k + 1].from = d[k].to /\ d[k].to < len
  <2>1. k + 1 \in 2 .. n + 1 /\ (k + 1) - 1 = k /\ d[k + 1] = c[k]
    BY <1>4, <1>5
  <2>2. CASE k = 1
    BY <1>1, <1>4, <2>1, <2>2 DEF CutsOf
  <2>3. CASE k # 1
    <3>1. PICK m \in 1 .. n - 1 : m = k - 1 /\ d[k] = c[m] /\ d[k + 1] = c[m + 1]
      BY <1>4, <1>5, <2>1, <2>3
    <3>2. QED BY <1>5, <3>1 DEF CutsOf
  <2>4. QED BY <2>2, <2>3
<1>9. d[1].from = i /\ Len(d) > 0
  BY <1>1, <1>4, <1>5
<1>10. QED BY <1>4, <1>6, <1>7, <1>8, <1>9 DEF CutsOf, d, s

\* Cut is a recursive function; there is one that satisfies its definition, built
\* from the end of the piece backwards.
CutRest(g, el, len, room, i) ==
  IF i >= len THEN << >>
  ELSE <<Seg(el, i, CutStep(len, room, i))>> \o g[CutStep(len, room, i)]

CutDef(g, el, len, room) == [i \in Nat |-> CutRest(g, el, len, room, i)]

LEMMA CutExists ==
  ASSUME NEW el \in Nat, NEW len \in Nat, NEW room \in Rooms
  PROVE  \E g : g = CutDef(g, el, len, room)
<1> DEFINE Part(k) == \E g \in [Nat -> Seq(Stretch)] :
                        \A i \in Nat : i + k >= len => g[i] = CutRest(g, el, len, room, i)
           T == {k \in 0 .. len : Part(k)}
<1>1. 0 \in T
  <2> DEFINE g == [i \in Nat |-> << >>]
  <2>1. g \in [Nat -> Seq(Stretch)] /\ \A i \in Nat : g[i] = << >>
    OBVIOUS
  <2> HIDE DEF g
  <2>2. \A i \in Nat : i + 0 >= len => g[i] = CutRest(g, el, len, room, i)
    BY <2>1 DEF CutRest
  <2>3. Part(0)
    BY <2>1, <2>2
  <2>4. QED BY <2>3
<1>2. ASSUME NEW k \in 0 .. len - 1, k \in T PROVE k + 1 \in T
  <2>1. PICK g \in [Nat -> Seq(Stretch)] :
          \A i \in Nat : i + k >= len => g[i] = CutRest(g, el, len, room, i)
    BY <1>2
  <2>2. PICK m \in Nat : m + k + 1 = len /\ m < len
    <3>1. len - k - 1 \in Nat /\ (len - k - 1) + k + 1 = len
      OBVIOUS
    <3>2. QED BY <3>1
  <2> DEFINE new == CutRest(g, el, len, room, m)
             h == [g EXCEPT ![m] = new]
  <2>3. new \in Seq(Stretch)
    <3>1. PICK t \in Nat : t = CutStep(len, room, m) /\ m < t
      BY <2>2, StepAhead
    <3>2. Seg(el, m, t) \in Stretch /\ g[t] \in Seq(Stretch)
      BY <2>1, <2>2, <3>1 DEF Seg, Stretch
    <3>3. <<Seg(el, m, t)>> \o g[t] \in Seq(Stretch)
      BY <3>2
    <3>4. QED BY <2>2, <3>1, <3>3 DEF CutRest
  <2> HIDE DEF new
  <2>4. h \in [Nat -> Seq(Stretch)] /\ h[m] = new /\ \A i \in Nat : i # m => h[i] = g[i]
    BY <2>1, <2>2, <2>3
  <2> HIDE DEF h
  <2>5. ASSUME NEW i \in Nat, i >= m PROVE CutRest(h, el, len, room, i) = CutRest(g, el, len, room, i)
    <3>1. CASE i >= len
      BY <3>1 DEF CutRest
    <3>2. CASE i < len
      <4>1. PICK t \in Nat : t = CutStep(len, room, i) /\ i < t
        BY <3>2, StepAhead
      <4>2. h[t] = g[t]
        BY <2>2, <2>4, <2>5, <4>1
      <4>3. QED BY <4>1, <4>2 DEF CutRest
    <3>3. QED BY <3>1, <3>2
  <2>6. ASSUME NEW i \in Nat, i + (k + 1) >= len PROVE h[i] = CutRest(h, el, len, room, i)
    <3>1. i >= m
      BY <2>2, <2>6
    <3>2. CASE i = m
      BY <2>4, <2>5, <3>1, <3>2 DEF new
    <3>3. CASE i # m
      <4>1. i + k >= len
        BY <2>2, <3>1, <3>3
      <4>2. QED BY <2>1, <2>4, <2>5, <3>1, <3>3, <4>1
    <3>4. QED BY <3>2, <3>3
  <2>7. Part(k + 1)
    BY <2>4, <2>6
  <2>8. k + 1 \in 0 .. len
    OBVIOUS
  <2> HIDE DEF Part
  <2>9. QED BY <2>7, <2>8
<1>3. len \in T
  <2>1. T \in SUBSET (0 .. len) /\ len \in 0 .. len
    OBVIOUS
  <2> HIDE DEF T
  <2>2. QED BY <1>1, <1>2, <2>1, UpTo
<1>4. PICK g \in [Nat -> Seq(Stretch)] :
        \A i \in Nat : i + len >= len => g[i] = CutRest(g, el, len, room, i)
  BY <1>3
<1>5. \A i \in Nat : g[i] = CutRest(g, el, len, room, i)
  BY <1>4
<1>6. g = [i \in Nat |-> g[i]]
  BY <1>4
<1>7. g = CutDef(g, el, len, room)
  BY ONLY <1>5, <1>6 DEF CutDef
<1>8. QED BY <1>7

LEMMA CutIsWhole ==
  ASSUME NEW el \in Nat, NEW len \in Nat, NEW room \in Rooms, NEW from \in Nat, from < len
  PROVE  CutsOf(Cut(el, from, len, room), el, from, len, room)
<1>1. PICK g : g = CutDef(g, el, len, room) /\ Cut(el, from, len, room) = g[from]
  <2> DEFINE Def(g) == CutDef(g, el, len, room)
             c == CHOOSE g : g = Def(g)
  <2>1. Cut(el, from, len, room) = c[from]
    BY DEF Cut, CutDef, CutRest, CutStep
  <2>2. \E g : g = Def(g)
    BY CutExists
  <2> HIDE DEF Def
  <2>3. c = Def(c)
    BY <2>2
  <2>4. QED BY <2>1, <2>3 DEF Def
<1>2. \A i \in Nat : g[i] = CutRest(g, el, len, room, i)
  BY <1>1 DEF CutDef
<1> DEFINE Whole(k) == \A i \in Nat : i < len /\ i + k >= len => CutsOf(g[i], el, i, len, room)
           T == {k \in 0 .. len : Whole(k)}
<1>3. 0 \in T
  OBVIOUS
<1>4. ASSUME NEW k \in 0 .. len - 1, k \in T PROVE k + 1 \in T
  <2>1. ASSUME NEW i \in Nat, i < len, i + (k + 1) >= len PROVE CutsOf(g[i], el, i, len, room)
    <3>1. /\ CutStep(len, room, i) \in Nat /\ i < CutStep(len, room, i)
          /\ CutStep(len, room, i) <= len /\ CutStep(len, room, i) - i <= room[i]
      BY <2>1, StepAhead
    <3>2. PICK t \in Nat : t = CutStep(len, room, i) /\ i < t /\ t <= len /\ t - i <= room[i]
      BY ONLY <3>1
    <3>3. g[i] = <<Seg(el, i, t)>> \o g[t]
      <4>1. g[i] = CutRest(g, el, len, room, i) /\ ~(i >= len)
        BY <1>2, <2>1
      <4>2. QED BY ONLY <3>2, <4>1 DEF CutRest
    <3>4. CASE t < len
      <4>1. CutsOf(g[t], el, t, len, room)
        BY <1>4, <2>1, <3>2, <3>4
      <4>2. CutsOf(<<Seg(el, i, t)>> \o g[t], el, i, len, room)
        BY ONLY el \in Nat, len \in Nat, room \in Rooms, i \in Nat, t \in Nat,
                <2>1, <3>2, <3>4, <4>1, CutMore
      <4>3. QED BY <3>3, <4>2
    <3>5. CASE t = len
      <4>1. g[t] = << >>
        <5>1. g[t] = CutRest(g, el, len, room, t) /\ t >= len
          BY <1>2, <3>5
        <5>2. QED BY ONLY <5>1 DEF CutRest
      <4>2. Seg(el, i, t) \in Stretch
        BY DEF Seg, Stretch
      <4>3. g[i] = <<Seg(el, i, t)>>
        BY <3>3, <4>1, <4>2
      <4>4. QED BY <3>2, <3>5, <4>2, <4>3 DEF CutsOf, Seg
    <3>6. QED BY <3>2, <3>4, <3>5
  <2>2. Whole(k + 1)
    BY <2>1
  <2>3. k + 1 \in 0 .. len
    OBVIOUS
  <2> HIDE DEF Whole
  <2>4. QED BY <2>2, <2>3
<1>5. len \in T
  <2>1. T \in SUBSET (0 .. len) /\ len \in 0 .. len
    OBVIOUS
  <2> HIDE DEF T
  <2>2. QED BY <1>3, <1>4, <2>1, UpTo
<1>6. Whole(len)
  BY <1>5
<1>7. QED BY <1>1, <1>6

-----------------------------------------------------------------------------
(* Packets                                                                 *)

PacketType == [hdr : Nat, segs : Seq(Stretch), tables : Seq(Nat), marker : BOOLEAN]

LEMMA SegFields ==
  ASSUME NEW el \in Nat, NEW from \in Nat, NEW to \in Nat
  PROVE  /\ Seg(el, from, to) \in Stretch
         /\ Seg(el, from, to).el = el
         /\ Seg(el, from, to).from = from
         /\ Seg(el, from, to).to = to
BY DEF Seg, Stretch

LEMMA PacketFields ==
  ASSUME NEW hdr \in Nat, NEW segs \in Seq(Stretch), NEW tables \in Seq(Nat), NEW marker \in BOOLEAN
  PROVE  /\ Packet(hdr, segs, tables, marker) \in PacketType
         /\ Packet(hdr, segs, tables, marker).hdr = hdr
         /\ Packet(hdr, segs, tables, marker).segs = segs
         /\ Packet(hdr, segs, tables, marker).tables = tables
         /\ Packet(hdr, segs, tables, marker).marker = marker
BY DEF Packet, PacketType

LEMMA PlainPacket ==
  ASSUME NEW hdr \in Nat, NEW segs \in Seq(Stretch), NEW marker \in BOOLEAN
  PROVE  /\ Packet(hdr, segs, << >>, marker) \in PacketType
         /\ Packet(hdr, segs, << >>, marker).hdr = hdr
         /\ Packet(hdr, segs, << >>, marker).segs = segs
         /\ Packet(hdr, segs, << >>, marker).marker = marker
<1>1. << >> \in Seq(Nat)
  OBVIOUS
<1>2. QED BY <1>1 DEF Packet, PacketType

\* Adding up the bytes of a packet.
Adds(bytes, hdr, segs) ==
  /\ bytes[0] = hdr
  /\ \A i \in 1 .. Len(segs) : bytes[i] = bytes[i - 1] + segs[i].to - segs[i].from

LEMMA BytesAdded ==
  ASSUME NEW p, p.hdr \in Nat, p.segs \in Seq(Stretch)
  PROVE  \E bytes \in [0 .. Len(p.segs) -> Int] :
           Adds(bytes, p.hdr, p.segs) /\ PacketBytes(p) = bytes[Len(p.segs)]
<1> PICK n \in Nat : n = Len(p.segs)
  BY LenProperties
<1> DEFINE segs == p.segs
           Def(g) == [i \in 0 .. n |->
                        IF i = 0 THEN p.hdr ELSE g[i - 1] + segs[i].to - segs[i].from]
           f == [i \in 1 .. n |-> [v \in Int |-> v + segs[i].to - segs[i].from]]
<1>1. \A i \in 1 .. n : segs[i].to \in Int /\ segs[i].from \in Int
  <2>1. \A i \in 1 .. n : segs[i] \in Stretch
    BY ElementOfSeq
  <2>2. \A s \in Stretch : s.to \in Int /\ s.from \in Int
    BY DEF Stretch
  <2>3. QED BY <2>1, <2>2
<1>2. f \in StepsOn(n, Int) /\ \A i \in 1 .. n : \A v \in Int : f[i][v] = v + segs[i].to - segs[i].from
  <2>1. \A i \in 1 .. n : \A v \in Int : v + segs[i].to - segs[i].from \in Int
    BY <1>1
  <2> HIDE DEF segs
  <2>2. QED BY <2>1 DEF StepsOn
<1> HIDE DEF f
<1>3. PICK g \in [0 .. n -> Int] : g[0] = p.hdr /\ \A i \in 1 .. n : g[i] = f[i][g[i - 1]]
  <2>1. PICK S : S = Int
    OBVIOUS
  <2>2. PICK x \in S : x = p.hdr
    BY <2>1
  <2>3. Stepwise(n, S, x, f)
    BY <1>2, <2>1, InSteps
  <2>4. QED BY <2>1, <2>2, <2>3 DEF Stepwise
<1>4. \A i \in 1 .. n : g[i] = g[i - 1] + segs[i].to - segs[i].from
  <2>1. ASSUME NEW i \in 1 .. n PROVE g[i] = g[i - 1] + segs[i].to - segs[i].from
    <3>1. i - 1 \in 0 .. n /\ g[i - 1] \in Int
      BY <1>3
    <3>2. QED BY <1>2, <1>3, <3>1
  <2>2. QED BY <2>1
<1>5. g = Def(g)
  <2>1. g = [i \in 0 .. n |-> g[i]]
    BY <1>3
  <2>2. \A i \in 0 .. n : g[i] = IF i = 0 THEN p.hdr ELSE g[i - 1] + segs[i].to - segs[i].from
    BY <1>3, <1>4
  <2>3. QED BY ONLY <2>1, <2>2
<1> DEFINE h == CHOOSE h : h = Def(h)
<1>6. PacketBytes(p) = h[n]
  BY DEF PacketBytes
<1> HIDE DEF Def
<1>7. h = Def(h)
  BY <1>5
<1> HIDE DEF h
<1>8. h[0] = p.hdr /\ \A i \in 1 .. n : h[i] = h[i - 1] + segs[i].to - segs[i].from
  <2>1. \A i \in 0 .. n : h[i] = IF i = 0 THEN p.hdr ELSE h[i - 1] + segs[i].to - segs[i].from
    BY <1>7 DEF Def
  <2>2. QED BY <2>1
<1> DEFINE T == {i \in 0 .. n : h[i] \in Int}
<1>9. \A i \in 0 .. n : i \in T
  <2>1. 0 \in T
    BY <1>8
  <2>2. ASSUME NEW i \in 0 .. n - 1, i \in T PROVE i + 1 \in T
    <3>1. i + 1 \in 1 .. n /\ (i + 1) - 1 = i /\ h[i] \in Int /\ i + 1 \in 0 .. n
      BY <2>2
    <3>2. h[i + 1] = h[i] + segs[i + 1].to - segs[i + 1].from
      BY <1>8, <3>1
    <3>3. QED BY <1>1, <3>1, <3>2
  <2>3. T \in SUBSET (0 .. n)
    OBVIOUS
  <2> HIDE DEF T
  <2>4. QED BY <2>1, <2>2, <2>3, UpTo
<1>10. h \in [0 .. n -> Int]
  <2>1. h = [i \in 0 .. n |-> h[i]]
    BY <1>7 DEF Def
  <2>2. QED BY <1>9, <2>1
<1>11. QED BY <1>6, <1>8, <1>10 DEF Adds

\* The sum is the same however it is added up, and takes no notice of what follows.
LEMMA BytesAgree ==
  ASSUME NEW n \in Nat, NEW hdr, NEW g \in [0 .. n -> Int], NEW segs \in Seq(Stretch), n = Len(segs),
         NEW m \in Nat, NEW h \in [0 .. m -> Int], NEW more \in Seq(Stretch), m = Len(more),
         n <= m, \A i \in 1 .. n : more[i] = segs[i],
         Adds(g, hdr, segs), Adds(h, hdr, more)
  PROVE  h[n] = g[n]
<1> DEFINE T == {i \in 0 .. n : h[i] = g[i]}
<1>1. 0 \in T
  BY DEF Adds
<1>2. ASSUME NEW i \in 0 .. n - 1, i \in T PROVE i + 1 \in T
  <2>1. /\ i + 1 \in 1 .. n /\ i + 1 \in 1 .. m /\ (i + 1) - 1 = i /\ h[i] = g[i]
        /\ i + 1 \in 0 .. n
    BY <1>2
  <2>2. g[i + 1] = g[i] + segs[i + 1].to - segs[i + 1].from
    BY <2>1 DEF Adds
  <2>3. h[i + 1] = h[i] + more[i + 1].to - more[i + 1].from
    BY <2>1 DEF Adds
  <2>4. more[i + 1] = segs[i + 1]
    BY <2>1
  <2>5. QED BY ONLY <2>1, <2>2, <2>3, <2>4
<1>3. T \in SUBSET (0 .. n) /\ n \in 0 .. n
  OBVIOUS
<1> HIDE DEF T
<1>4. n \in T
  BY <1>1, <1>2, <1>3, UpTo
<1>5. QED BY <1>4 DEF T

LEMMA NoBytes ==
  ASSUME NEW p, p.hdr \in Nat, p.segs = << >>
  PROVE  PacketBytes(p) = p.hdr
<1>1. p.segs \in Seq(Stretch) /\ Len(p.segs) = 0
  OBVIOUS
<1>2. PICK bytes \in [0 .. Len(p.segs) -> Int] :
        Adds(bytes, p.hdr, p.segs) /\ PacketBytes(p) = bytes[Len(p.segs)]
  BY <1>1, BytesAdded
<1>3. QED BY <1>1, <1>2 DEF Adds

LEMMA BytesAppend ==
  ASSUME NEW p, p.hdr \in Nat, p.segs \in Seq(Stretch), NEW s \in Stretch,
         NEW q, q.hdr = p.hdr, q.segs = Append(p.segs, s)
  PROVE  PacketBytes(p) \in Int /\ PacketBytes(q) = PacketBytes(p) + s.to - s.from
<1> DEFINE segs == p.segs
           more == q.segs
<1>1. PICK n \in Nat : n = Len(segs)
  BY LenProperties
<1>2. more \in Seq(Stretch) /\ Len(more) = n + 1 /\ more[n + 1] = s /\ \A i \in 1 .. n : more[i] = segs[i]
  BY <1>1, AppendProperties
<1>3. PICK g \in [0 .. Len(segs) -> Int] : Adds(g, p.hdr, segs) /\ PacketBytes(p) = g[Len(segs)]
  BY BytesAdded
<1>4. PICK h \in [0 .. Len(more) -> Int] : Adds(h, p.hdr, more) /\ PacketBytes(q) = h[Len(more)]
  BY <1>2, BytesAdded
<1>5. PICK m \in Nat : m = n + 1 /\ m = Len(more)
  BY <1>2
<1> HIDE DEF segs, more
<1>6. h[n] = g[n]
  <2>1. g \in [0 .. n -> Int] /\ h \in [0 .. m -> Int] /\ n <= m
    BY <1>1, <1>3, <1>4, <1>5
  <2>2. segs \in Seq(Stretch)
    BY DEF segs
  <2>3. QED BY ONLY SMTT(30), <1>1, <1>2, <1>3, <1>4, <1>5, <2>1, <2>2, BytesAgree
<1>7. h[m] = h[n] + s.to - s.from
  <2>1. m \in 1 .. Len(more) /\ m - 1 = n /\ more[m] = s
    BY <1>2, <1>5
  <2>2. h[m] = h[m - 1] + more[m].to - more[m].from
    BY <1>4, <2>1 DEF Adds
  <2>3. QED BY <2>1, <2>2
<1>8. g[n] \in Int
  BY <1>1, <1>3
<1>9. QED BY <1>1, <1>3, <1>4, <1>5, <1>6, <1>7, <1>8

LEMMA BytesOfOne ==
  ASSUME NEW q, q.hdr \in Nat, NEW s \in Stretch, q.segs = <<s>>
  PROVE  PacketBytes(q) = q.hdr + s.to - s.from
<1> DEFINE p == [hdr |-> q.hdr, segs |-> << >>]
<1>1. p.hdr = q.hdr /\ p.segs = << >> /\ p.segs \in Seq(Stretch) /\ q.segs = Append(p.segs, s)
  OBVIOUS
<1> HIDE DEF p
<1>2. PacketBytes(p) = q.hdr
  BY <1>1, NoBytes
<1>3. PacketBytes(q) = PacketBytes(p) + s.to - s.from
  BY <1>1, BytesAppend
<1>4. QED BY <1>2, <1>3

-----------------------------------------------------------------------------
(* Packets that run through the pieces of a frame                          *)

\* Byte from of piece el comes next after the first to bytes of piece a.
NextByte(a, to, el, from, lens) ==
  \/ el = a /\ from = to
  \/ to = lens[a] /\ el = a + 1 /\ from = 0

LastSeg(p) == p.segs[Len(p.segs)]

\* The packets run without a gap or an overlap from byte start of the first piece
\* up to the first to bytes of piece el.
RunTo(ps, lens, start, el, to) ==
  /\ ps \in Seq(PacketType) /\ Len(ps) > 0
  /\ \A i \in 1 .. Len(ps) : ps[i].segs # << >>
  /\ ps[1].segs[1].el = 1 /\ ps[1].segs[1].from = start
  /\ LastSeg(ps[Len(ps)]).el = el /\ LastSeg(ps[Len(ps)]).to = to
  /\ \A i \in 1 .. Len(ps) : \A j \in 1 .. Len(ps[i].segs) - 1 :
       GoesOn(ps[i].segs[j], ps[i].segs[j + 1], lens)
  /\ \A i \in 1 .. Len(ps) - 1 : GoesOn(LastSeg(ps[i]), ps[i + 1].segs[1], lens)

LEMMA SegsOf ==
  ASSUME NEW p \in PacketType, p.segs # << >>
  PROVE  /\ p.segs \in Seq(Stretch) /\ Len(p.segs) \in Nat /\ Len(p.segs) > 0
         /\ p.segs[1] \in Stretch /\ LastSeg(p) \in Stretch
         /\ \A i \in 1 .. Len(p.segs) : p.segs[i] \in Stretch
<1>1. p.segs \in Seq(Stretch)
  BY DEF PacketType
<1>2. PICK n \in Nat : n = Len(p.segs) /\ n > 0
  BY <1>1, LenProperties, EmptySeq
<1>3. \A i \in 1 .. n : p.segs[i] \in Stretch
  BY <1>1, <1>2, ElementOfSeq
<1>4. QED BY <1>1, <1>2, <1>3 DEF LastSeg

LEMMA RunIsWhole ==
  ASSUME NEW ps, NEW lens, NEW start, RunTo(ps, lens, start, Len(lens), lens[Len(lens)]),
         start = IF fmt = "h264" /\ Len(ps) > 1 THEN 1 ELSE 0
  PROVE  Reassembles(ps, lens)
<1>1. ps \in Seq(PacketType) /\ Len(ps) \in Nat /\ Len(ps) > 0 /\ DOMAIN ps = 1 .. Len(ps)
  BY LenProperties DEF RunTo
<1>2. ps # << >>
  BY <1>1
<1>3. \A i \in 1 .. Len(ps) : /\ ps[i].segs # << >> /\ Head(ps[i].segs) = ps[i].segs[1]
                              /\ Last(ps[i].segs) = LastSeg(ps[i])
  <2>1. ASSUME NEW i \in 1 .. Len(ps)
        PROVE  /\ ps[i].segs # << >> /\ Head(ps[i].segs) = ps[i].segs[1]
               /\ Last(ps[i].segs) = LastSeg(ps[i])
    <3>1. ps[i] \in PacketType /\ ps[i].segs # << >>
      BY <1>1, ElementOfSeq DEF RunTo
    <3>2. ps[i].segs \in Seq(Stretch)
      BY <3>1, SegsOf
    <3>3. QED BY <3>1, <3>2 DEF Last, LastSeg
  <2>2. QED BY <2>1
<1>4. 1 \in 1 .. Len(ps) /\ Len(ps) \in 1 .. Len(ps) /\ Last(ps) = ps[Len(ps)]
  BY <1>1 DEF Last
<1>5. /\ Head(ps[1].segs).el = 1 /\ Head(ps[1].segs).from = start
      /\ Last(Last(ps).segs).el = Len(lens) /\ Last(Last(ps).segs).to = lens[Len(lens)]
  BY <1>3, <1>4 DEF RunTo
<1>6. \A i \in DOMAIN ps : \A j \in 1 .. Len(ps[i].segs) - 1 :
         GoesOn(ps[i].segs[j], ps[i].segs[j + 1], lens)
  BY <1>1 DEF RunTo
<1>7. \A i \in 1 .. Len(ps) - 1 : GoesOn(Last(ps[i].segs), Head(ps[i + 1].segs), lens)
  <2>1. ASSUME NEW i \in 1 .. Len(ps) - 1 PROVE GoesOn(Last(ps[i].segs), Head(ps[i + 1].segs), lens)
    <3>1. i \in 1 .. Len(ps) /\ i + 1 \in 1 .. Len(ps)
      BY <1>1
    <3>2. QED BY <1>3, <3>1 DEF RunTo
  <2>2. QED BY <2>1
<1>8. QED BY <1>1, <1>2, <1>3, <1>5, <1>6, <1>7 DEF Reassembles

\* Only the stretches count.
LEMMA RunSame ==
  ASSUME NEW ps, NEW lens, NEW start, NEW el, NEW to, RunTo(ps, lens, start, el, to),
         NEW qs \in Seq(PacketType), Len(qs) = Len(ps),
         \A i \in 1 .. Len(ps) : qs[i].segs = ps[i].segs
  PROVE  RunTo(qs, lens, start, el, to)
<1>1. PICK n \in Nat : n = Len(ps) /\ n > 0
  BY LenProperties DEF RunTo
<1>2. 1 \in 1 .. n /\ n \in 1 .. n /\ \A i \in 1 .. n - 1 : i \in 1 .. n /\ i + 1 \in 1 .. n
  BY <1>1
<1>3. \A i \in 1 .. n : qs[i].segs = ps[i].segs /\ LastSeg(qs[i]) = LastSeg(ps[i])
  BY <1>1 DEF LastSeg
<1>4. \A i \in 1 .. n : \A j \in 1 .. Len(qs[i].segs) - 1 :
        GoesOn(qs[i].segs[j], qs[i].segs[j + 1], lens)
  <2>1. \A i \in 1 .. n : \A j \in 1 .. Len(ps[i].segs) - 1 :
          GoesOn(ps[i].segs[j], ps[i].segs[j + 1], lens)
    BY <1>1 DEF RunTo
  <2>2. QED BY ONLY <1>3, <2>1
<1>5. \A i \in 1 .. n - 1 : GoesOn(LastSeg(qs[i]), qs[i + 1].segs[1], lens)
  <2>1. \A i \in 1 .. n - 1 : GoesOn(LastSeg(ps[i]), ps[i + 1].segs[1], lens)
    BY <1>1 DEF RunTo
  <2>2. QED BY ONLY <1>2, <1>3, <2>1
<1>6. /\ \A i \in 1 .. n : qs[i].segs # << >>
      /\ qs[1].segs[1].el = 1 /\ qs[1].segs[1].from = start
      /\ LastSeg(qs[n]).el = el /\ LastSeg(qs[n]).to = to
  BY <1>1, <1>2, <1>3 DEF RunTo
<1>7. QED BY <1>1, <1>4, <1>5, <1>6 DEF RunTo

\* A first packet of one stretch.
LEMMA RunOne ==
  ASSUME NEW lens, NEW s \in Stretch, s.el = 1, NEW p \in PacketType, p.segs = <<s>>
  PROVE  RunTo(<<p>>, lens, s.from, 1, s.to)
<1>1. <<p>> \in Seq(PacketType) /\ Len(<<p>>) = 1 /\ <<p>>[1] = p
  OBVIOUS
<1>2. p.segs # << >> /\ Len(p.segs) = 1 /\ p.segs[1] = s /\ LastSeg(p) = s
  BY DEF LastSeg
<1> DEFINE ps == <<p>>
<1>3. ps \in Seq(PacketType) /\ Len(ps) = 1 /\ \A i \in 1 .. 1 : ps[i] = p
  BY <1>1
<1> HIDE DEF ps
<1>4. ps[1] = p /\ ps[Len(ps)] = p /\ Len(ps) > 0
  BY <1>3
<1>5. \A i \in 1 .. Len(ps) : \A j \in 1 .. Len(ps[i].segs) - 1 :
        GoesOn(ps[i].segs[j], ps[i].segs[j + 1], lens)
  <2>1. \A i \in 1 .. Len(ps) : Len(ps[i].segs) = 1
    BY <1>2, <1>3
  <2>2. QED BY ONLY <2>1
<1>6. \A i \in 1 .. Len(ps) - 1 : GoesOn(LastSeg(ps[i]), ps[i + 1].segs[1], lens)
  BY <1>3
<1>7. \A i \in 1 .. Len(ps) : ps[i].segs # << >>
  BY <1>2, <1>3
<1>8. RunTo(ps, lens, s.from, 1, s.to)
  BY <1>2, <1>3, <1>4, <1>5, <1>6, <1>7 DEF RunTo
<1>9. QED BY <1>8 DEF ps

\* The last packet takes one more stretch.
LEMMA RunGrow ==
  ASSUME NEW lens, NEW start, NEW el, NEW to, NEW sent \in Seq(PacketType),
         NEW p \in PacketType, RunTo(Append(sent, p), lens, start, el, to),
         NEW s \in Stretch, NextByte(el, to, s.el, s.from, lens),
         NEW q \in PacketType, q.segs = Append(p.segs, s)
  PROVE  RunTo(Append(sent, q), lens, start, s.el, s.to)
<1> DEFINE ps == Append(sent, p)
           qs == Append(sent, q)
<1>1. PICK n \in Nat : n = Len(sent) + 1 /\ n > 0
  BY LenProperties
<1>2. /\ ps \in Seq(PacketType) /\ Len(ps) = n /\ ps[n] = p
      /\ qs \in Seq(PacketType) /\ Len(qs) = n /\ qs[n] = q
      /\ \A i \in 1 .. n - 1 : qs[i] = ps[i]
  <2>1. Len(sent) = n - 1
    BY <1>1, LenProperties
  <2>2. QED BY <1>1, <2>1, AppendProperties
<1>3. RunTo(ps, lens, start, el, to)
  OBVIOUS
<1> HIDE DEF ps, qs
<1>4. p.segs # << >> /\ LastSeg(p).el = el /\ LastSeg(p).to = to
  BY <1>1, <1>2, <1>3 DEF RunTo
<1>5. PICK m \in Nat : m = Len(p.segs) /\ m > 0
  BY <1>4, SegsOf
<1>6. /\ p.segs \in Seq(Stretch) /\ q.segs \in Seq(Stretch) /\ Len(q.segs) = m + 1
      /\ q.segs[m + 1] = s /\ \A j \in 1 .. m : q.segs[j] = p.segs[j]
  BY <1>4, <1>5, SegsOf, AppendProperties
<1>7. q.segs # << >> /\ LastSeg(q) = s /\ q.segs[1] = p.segs[1]
  BY <1>5, <1>6 DEF LastSeg
<1>8. ASSUME NEW j \in 1 .. Len(q.segs) - 1 PROVE GoesOn(q.segs[j], q.segs[j + 1], lens)
  <2>1. CASE j = m
    <3>1. q.segs[j] = LastSeg(p) /\ q.segs[j + 1] = s
      BY <1>5, <1>6, <2>1 DEF LastSeg
    <3>2. QED BY <1>4, <3>1 DEF NextByte, GoesOn
  <2>2. CASE j # m
    <3>1. j \in 1 .. m - 1 /\ j \in 1 .. m /\ j + 1 \in 1 .. m
      BY <1>5, <1>6, <2>2
    <3>2. \A k \in 1 .. Len(p.segs) - 1 : GoesOn(p.segs[k], p.segs[k + 1], lens)
      <4>1. \A i \in 1 .. Len(ps) : \A k \in 1 .. Len(ps[i].segs) - 1 :
              GoesOn(ps[i].segs[k], ps[i].segs[k + 1], lens)
        BY <1>3 DEF RunTo
      <4>2. n \in 1 .. Len(ps) /\ ps[n] = p
        BY <1>1, <1>2
      <4>3. QED BY ONLY <4>1, <4>2
    <3>3. q.segs[j] = p.segs[j] /\ q.segs[j + 1] = p.segs[j + 1]
      BY <1>6, <3>1
    <3>4. QED BY <1>5, <3>1, <3>2, <3>3
  <2>3. QED BY <2>1, <2>2
<1>9. ASSUME NEW i \in 1 .. n
      PROVE  /\ qs[i].segs # << >> /\ qs[i].segs[1] = ps[i].segs[1]
             /\ i # n => LastSeg(qs[i]) = LastSeg(ps[i])
             /\ \A j \in 1 .. Len(qs[i].segs) - 1 : GoesOn(qs[i].segs[j], qs[i].segs[j + 1], lens)
  <2>1. CASE i = n
    BY <1>2, <1>7, <1>8, <2>1
  <2>2. CASE i # n
    <3>1. i \in 1 .. n - 1 /\ qs[i] = ps[i]
      BY <1>1, <1>2, <2>2
    <3>2. QED BY <1>2, <1>3, <3>1 DEF RunTo
  <2>3. QED BY <2>1, <2>2
<1>10. ASSUME NEW i \in 1 .. n - 1 PROVE GoesOn(LastSeg(qs[i]), qs[i + 1].segs[1], lens)
  <2>1. i \in 1 .. n /\ i # n /\ i + 1 \in 1 .. n
    BY <1>1
  <2>2. GoesOn(LastSeg(ps[i]), ps[i + 1].segs[1], lens)
    BY <1>2, <1>3 DEF RunTo
  <2>3. QED BY <1>9, <2>1, <2>2
<1>11. /\ qs[1].segs[1].el = 1 /\ qs[1].segs[1].from = start
       /\ LastSeg(qs[n]).el = s.el /\ LastSeg(qs[n]).to = s.to
  <2>1. 1 \in 1 .. n
    BY <1>1
  <2>2. ps[1].segs[1].el = 1 /\ ps[1].segs[1].from = start
    BY <1>3 DEF RunTo
  <2>3. QED BY <1>2, <1>7, <1>9, <2>1, <2>2
<1>12. RunTo(qs, lens, start, s.el, s.to)
  BY <1>1, <1>2, <1>9, <1>10, <1>11 DEF RunTo
<1>13. QED BY <1>12 DEF qs

\* A new packet takes the stretch.
LEMMA RunNext ==
  ASSUME NEW lens, NEW start, NEW el, NEW to, NEW ps, RunTo(ps, lens, start, el, to),
         NEW s \in Stretch, NextByte(el, to, s.el, s.from, lens),
         NEW q \in PacketType, q.segs = <<s>>
  PROVE  RunTo(Append(ps, q), lens, start, s.el, s.to)
<1> DEFINE qs == Append(ps, q)
<1>1. PICK n \in Nat : n = Len(ps) /\ n > 0
  BY LenProperties DEF RunTo
<1>2. /\ qs \in Seq(PacketType) /\ Len(qs) = n + 1 /\ qs[n + 1] = q
      /\ \A i \in 1 .. n : qs[i] = ps[i]
  <2>1. ps \in Seq(PacketType)
    BY DEF RunTo
  <2>2. QED BY <1>1, <2>1, AppendProperties
<1> HIDE DEF qs
<1>3. q.segs # << >> /\ Len(q.segs) = 1 /\ q.segs[1] = s /\ LastSeg(q) = s
  BY DEF LastSeg
<1>4. ASSUME NEW i \in 1 .. n + 1
      PROVE  /\ qs[i].segs # << >>
             /\ \A j \in 1 .. Len(qs[i].segs) - 1 : GoesOn(qs[i].segs[j], qs[i].segs[j + 1], lens)
  <2>1. CASE i = n + 1
    <3>1. qs[i] = q /\ \A j \in 1 .. Len(q.segs) - 1 : FALSE
      BY <1>2, <1>3, <2>1
    <3>2. QED BY <1>3, <3>1
  <2>2. CASE i # n + 1
    <3>1. i \in 1 .. n /\ qs[i] = ps[i]
      BY <1>2, <2>2
    <3>2. QED BY <1>1, <3>1 DEF RunTo
  <2>3. QED BY <2>1, <2>2
<1>5. ASSUME NEW i \in 1 .. n PROVE GoesOn(LastSeg(qs[i]), qs[i + 1].segs[1], lens)
  <2>1. CASE i = n
    <3>1. qs[i] = ps[n] /\ qs[i + 1] = q
      BY <1>2, <2>1
    <3>2. LastSeg(ps[n]).el = el /\ LastSeg(ps[n]).to = to
      BY <1>1 DEF RunTo
    <3>3. GoesOn(LastSeg(ps[n]), s, lens)
      BY <3>2 DEF GoesOn, NextByte
    <3>4. QED BY <1>3, <3>1, <3>3
  <2>2. CASE i # n
    <3>1. i \in 1 .. n - 1 /\ i + 1 \in 1 .. n
      BY <1>1, <2>2
    <3>2. qs[i] = ps[i] /\ qs[i + 1] = ps[i + 1]
      BY <1>2, <3>1
    <3>3. GoesOn(LastSeg(ps[i]), ps[i + 1].segs[1], lens)
      BY <1>1, <3>1 DEF RunTo
    <3>4. QED BY <3>2, <3>3
  <2>3. QED BY <2>1, <2>2
<1>6. /\ qs[1].segs[1].el = 1 /\ qs[1].segs[1].from = start
      /\ LastSeg(qs[n + 1]).el = s.el /\ LastSeg(qs[n + 1]).to = s.to
  <2>1. qs[1] = ps[1]
    BY <1>1, <1>2
  <2>2. QED BY <1>2, <1>3, <2>1 DEF RunTo
<1>7. RunTo(qs, lens, start, s.el, s.to)
  BY <1>2, <1>4, <1>5, <1>6 DEF RunTo
<1>8. QED BY <1>7 DEF qs

\* Packets of a stretch each.
EachOf(ps, c) == /\ ps \in Seq(PacketType) /\ Len(ps) = Len(c)
                 /\ \A k \in 1 .. Len(c) : ps[k].segs = <<c[k]>>

LEMMA RunOfCuts ==
  ASSUME NEW lens, NEW c, NEW from, NEW len, NEW room, CutsOf(c, 1, from, len, room),
         NEW ps, EachOf(ps, c)
  PROVE  RunTo(ps, lens, from, 1, len)
<1>1. PICK n \in Nat : n = Len(c) /\ n > 0 /\ n = Len(ps)
  BY LenProperties DEF CutsOf, EachOf
<1>2. \A k \in 1 .. n : ps[k].segs # << >> /\ Len(ps[k].segs) = 1 /\ ps[k].segs[1] = c[k] /\ LastSeg(ps[k]) = c[k]
  <2>1. \A k \in 1 .. n : ps[k].segs = <<c[k]>>
    BY <1>1 DEF EachOf
  <2>2. \A x : <<x>> # << >> /\ Len(<<x>>) = 1 /\ <<x>>[1] = x
    OBVIOUS
  <2>3. QED BY ONLY <2>1, <2>2 DEF LastSeg
<1>3. \A k \in 1 .. n - 1 : GoesOn(c[k], c[k + 1], lens)
  <2>1. ASSUME NEW k \in 1 .. n - 1 PROVE GoesOn(c[k], c[k + 1], lens)
    <3>1. k \in 1 .. n /\ k + 1 \in 1 .. n
      BY <1>1
    <3>2. c[k].el = 1 /\ c[k + 1].el = 1 /\ c[k + 1].from = c[k].to
      BY <1>1, <3>1 DEF CutsOf
    <3>3. QED BY <3>2 DEF GoesOn
  <2>2. QED BY <2>1
<1>4. 1 \in 1 .. n /\ n \in 1 .. n /\ \A k \in 1 .. n - 1 : k \in 1 .. n /\ k + 1 \in 1 .. n
  BY <1>1
<1>5. c[1].el = 1 /\ c[1].from = from /\ c[n].el = 1 /\ c[n].to = len
  BY <1>1, <1>4 DEF CutsOf
<1>6. \A i \in 1 .. n - 1 : GoesOn(LastSeg(ps[i]), ps[i + 1].segs[1], lens)
  BY <1>2, <1>3, <1>4
<1>7. \A i \in 1 .. n : \A j \in 1 .. Len(ps[i].segs) - 1 : GoesOn(ps[i].segs[j], ps[i].segs[j + 1], lens)
  BY <1>2
<1>8. ps \in Seq(PacketType)
  BY DEF EachOf
<1>9. QED BY <1>1, <1>2, <1>4, <1>5, <1>6, <1>7, <1>8 DEF RunTo

\* The rest of a piece follows in packets of its own.
LEMMA RunThenCuts ==
  ASSUME NEW ps, NEW lens, NEW start, NEW el, NEW a, RunTo(ps, lens, start, el, a),
         NEW c, NEW len, NEW room, CutsOf(c, el, a, len, room), NEW qs, EachOf(qs, c)
  PROVE  RunTo(ps \o qs, lens, start, el, len)
<1> DEFINE rs == ps \o qs
<1>1. PICK n \in Nat : n = Len(ps) /\ n > 0
  BY LenProperties DEF RunTo
<1>2. PICK m \in Nat : m = Len(c) /\ m > 0 /\ m = Len(qs)
  BY LenProperties DEF CutsOf, EachOf
<1>3. /\ rs \in Seq(PacketType) /\ Len(rs) = n + m
      /\ \A i \in 1 .. n : rs[i] = ps[i]
      /\ \A k \in 1 .. m : rs[n + k] = qs[k]
  <2>1. ps \in Seq(PacketType) /\ qs \in Seq(PacketType)
    BY DEF RunTo, EachOf
  <2>2. /\ rs \in Seq(PacketType) /\ Len(rs) = n + m
        /\ \A i \in 1 .. n + m : rs[i] = IF i <= n THEN ps[i] ELSE qs[i - n]
    BY <1>1, <1>2, <2>1, ConcatProperties
  <2> HIDE DEF rs
  <2>3. ASSUME NEW i \in 1 .. n PROVE rs[i] = ps[i]
    <3>1. i \in 1 .. n + m /\ i <= n
      BY <1>2
    <3>2. QED BY <2>2, <3>1
  <2>4. ASSUME NEW k \in 1 .. m PROVE rs[n + k] = qs[k]
    <3>1. n + k \in 1 .. n + m /\ ~(n + k <= n) /\ (n + k) - n = k
      BY <1>1
    <3>2. QED BY <2>2, <3>1
  <2>5. QED BY <2>2, <2>3, <2>4
<1> HIDE DEF rs
<1>4. \A k \in 1 .. m : /\ qs[k].segs # << >> /\ Len(qs[k].segs) = 1 /\ qs[k].segs[1] = c[k]
                        /\ LastSeg(qs[k]) = c[k]
  <2>1. \A k \in 1 .. m : qs[k].segs = <<c[k]>>
    BY <1>2 DEF EachOf
  <2>2. \A x : <<x>> # << >> /\ Len(<<x>>) = 1 /\ <<x>>[1] = x
    OBVIOUS
  <2>3. QED BY ONLY <2>1, <2>2 DEF LastSeg
<1>5. ASSUME NEW i \in 1 .. n + m
      PROVE  /\ rs[i].segs # << >>
             /\ \A j \in 1 .. Len(rs[i].segs) - 1 : GoesOn(rs[i].segs[j], rs[i].segs[j + 1], lens)
  <2>1. CASE i <= n
    <3>1. i \in 1 .. n
      BY <2>1
    <3>2. rs[i] = ps[i]
      BY <1>3, <3>1
    <3>3. /\ ps[i].segs # << >>
          /\ \A j \in 1 .. Len(ps[i].segs) - 1 : GoesOn(ps[i].segs[j], ps[i].segs[j + 1], lens)
      BY <1>1, <3>1 DEF RunTo
    <3>4. QED BY ONLY <3>2, <3>3
  <2>2. CASE i > n
    <3>1. PICK k \in 1 .. m : i = n + k
      <4>1. i - n \in 1 .. m /\ i = n + (i - n)
        BY <1>1, <1>2, <2>2
      <4>2. QED BY <4>1
    <3>2. rs[i] = qs[k]
      BY <1>3, <3>1
    <3>3. qs[k].segs # << >> /\ Len(qs[k].segs) = 1
      BY <1>4, <3>1
    <3>4. QED BY ONLY <3>2, <3>3
  <2>3. QED BY <1>1, <2>1, <2>2
<1>6. ASSUME NEW i \in 1 .. (n + m) - 1 PROVE GoesOn(LastSeg(rs[i]), rs[i + 1].segs[1], lens)
  <2>1. CASE i < n
    <3>1. i \in 1 .. n - 1 /\ i \in 1 .. n /\ i + 1 \in 1 .. n
      BY <1>1, <2>1
    <3>2. rs[i] = ps[i] /\ rs[i + 1] = ps[i + 1]
      BY <1>3, <3>1
    <3>3. GoesOn(LastSeg(ps[i]), ps[i + 1].segs[1], lens)
      BY <1>1, <3>1 DEF RunTo
    <3>4. QED BY ONLY <3>2, <3>3
  <2>2. CASE i = n
    <3>1. i \in 1 .. n /\ 1 \in 1 .. m
      BY <1>1, <1>2, <2>2
    <3>2. rs[i] = ps[n] /\ rs[i + 1] = qs[1]
      BY <1>3, <2>2, <3>1
    <3>3. LastSeg(ps[n]).el = el /\ LastSeg(ps[n]).to = a
      BY <1>1 DEF RunTo
    <3>4. c[1].el = el /\ c[1].from = a /\ qs[1].segs[1] = c[1]
      BY <1>2, <1>4, <3>1 DEF CutsOf
    <3>5. QED BY <3>2, <3>3, <3>4 DEF GoesOn
  <2>3. CASE i > n
    <3>1. PICK k \in 1 .. m - 1 : i = n + k
      <4>1. i - n \in 1 .. m - 1 /\ i = n + (i - n)
        BY <1>1, <1>2, <2>3
      <4>2. QED BY <4>1
    <3>2. k \in 1 .. m /\ k + 1 \in 1 .. m /\ i + 1 = n + (k + 1)
      BY <1>2, <3>1
    <3>3. rs[i] = qs[k] /\ rs[i + 1] = qs[k + 1]
      BY <1>3, <3>1, <3>2
    <3>4. LastSeg(qs[k]) = c[k] /\ qs[k + 1].segs[1] = c[k + 1]
      BY <1>4, <3>2
    <3>5. c[k].el = el /\ c[k + 1].el = el /\ c[k + 1].from = c[k].to
      BY <1>2, <3>1, <3>2 DEF CutsOf
    <3>6. QED BY <3>3, <3>4, <3>5 DEF GoesOn
  <2>4. QED BY <1>1, <2>1, <2>2, <2>3
<1>7. /\ rs[1].segs[1].el = 1 /\ rs[1].segs[1].from = start
      /\ LastSeg(rs[n + m]).el = el /\ LastSeg(rs[n + m]).to = len
  <2>1. 1 \in 1 .. n /\ m \in 1 .. m
    BY <1>1, <1>2
  <2>2. rs[1] = ps[1] /\ rs[n + m] = qs[m]
    BY <1>3, <2>1
  <2>3. ps[1].segs[1].el = 1 /\ ps[1].segs[1].from = start
    BY DEF RunTo
  <2>4. LastSeg(qs[m]) = c[m] /\ c[m].el = el /\ c[m].to = len
    BY <1>2, <1>4, <2>1 DEF CutsOf
  <2>5. QED BY <2>2, <2>3, <2>4
<1>8. Len(rs) > 0
  BY <1>1, <1>2, <1>3
<1>9. RunTo(rs, lens, start, el, len)
  BY <1>3, <1>5, <1>6, <1>7, <1>8 DEF RunTo
<1>10. QED BY <1>9 DEF rs

-----------------------------------------------------------------------------
(* The packets of a frame                                                  *)

\* The packets hold the pieces from byte start on, none has more than max bytes,
\* and of a marked frame the last one and no other has the marker.
Carries(ps, lens, start, max, marked) ==
  /\ RunTo(ps, lens, start, Len(lens), lens[Len(lens)])
  /\ \A i \in 1 .. Len(ps) : /\ PacketBytes(ps[i]) <= max
                             /\ ps[i].marker = (marked /\ i = Len(ps))

LEMMA EachCarries ==
  ASSUME NEW c, NEW from, NEW len, NEW room \in Rooms, CutsOf(c, 1, from, len, room),
         NEW ps, EachOf(ps, c), NEW max \in Int, NEW marked \in BOOLEAN,
         \A k \in 1 .. Len(c) : /\ ps[k].hdr + room[c[k].from] <= max
                                /\ ps[k].marker = (marked /\ c[k].to = len)
  PROVE  Carries(ps, <<len>>, from, max, marked)
<1>1. PICK n \in Nat : n = Len(c) /\ n > 0 /\ n = Len(ps)
  BY LenProperties DEF CutsOf, EachOf
<1>2. RunTo(ps, <<len>>, from, Len(<<len>>), <<len>>[Len(<<len>>)])
  <2>1. PICK lens : lens = <<len>>
    OBVIOUS
  <2>2. RunTo(ps, lens, from, 1, len)
    BY RunOfCuts
  <2>3. Len(lens) = 1 /\ lens[1] = len
    BY <2>1
  <2>4. RunTo(ps, lens, from, Len(lens), lens[Len(lens)])
    BY <2>2, <2>3
  <2>5. QED BY <2>1, <2>4
<1>3. ASSUME NEW k \in 1 .. n PROVE PacketBytes(ps[k]) <= max
  <2>1. PICK s \in Stretch : s = c[k] /\ ps[k].segs = <<s>>
    <3>1. c[k] \in Stretch /\ ps[k].segs = <<c[k]>>
      BY <1>1, ElementOfSeq DEF CutsOf, EachOf
    <3>2. QED BY <3>1
  <2>2. PICK h \in Nat : h = ps[k].hdr
    <3>1. ps[k] \in PacketType
      BY <1>1, ElementOfSeq DEF EachOf
    <3>2. QED BY <3>1 DEF PacketType
  <2>3. PacketBytes(ps[k]) = h + s.to - s.from
    BY <2>1, <2>2, BytesOfOne
  <2>4. PICK r \in Nat : r = room[s.from] /\ s.to - s.from <= r /\ h + r <= max
    <3>1. s.from \in Nat
      BY DEF Stretch
    <3>2. room[s.from] \in Nat
      BY <3>1 DEF Rooms
    <3>3. s.to - s.from <= room[s.from]
      BY <1>1, <2>1 DEF CutsOf
    <3>4. h + room[s.from] <= max
      BY <1>1, <2>1, <2>2
    <3>5. QED BY <3>2, <3>3, <3>4
  <2>5. s.to \in Int /\ s.from \in Int
    BY DEF Stretch
  <2>6. QED BY <2>3, <2>4, <2>5
<1>4. ASSUME NEW k \in 1 .. n PROVE ps[k].marker = (marked /\ k = n)
  <2>1. ps[k].marker = (marked /\ c[k].to = len)
    BY <1>1
  <2>2. CASE k = n
    <3>1. c[k].to = len
      BY <1>1, <2>2 DEF CutsOf
    <3>2. QED BY <2>1, <2>2, <3>1
  <2>3. CASE k # n
    <3>1. k \in 1 .. n - 1 /\ k \in 1 .. n
      BY <1>1, <2>3
    <3>2. c[k].to < len /\ c[k + 1].from = c[k].to
      BY <1>1, <3>1 DEF CutsOf
    <3>3. c \in Seq(Stretch) /\ k \in 1 .. Len(c)
      BY <1>1 DEF CutsOf
    <3>4. c[k] \in Stretch
      BY <3>3, ElementOfSeq
    <3>5. c[k].to \in Nat
      BY <3>4 DEF Stretch
    <3>6. c[k].to # len
      BY ONLY <3>2, <3>5
    <3>7. QED BY <2>1, <2>3, <3>6
  <2>4. QED BY <2>2, <2>3
<1>5. QED BY <1>1, <1>2, <1>3, <1>4 DEF Carries

EachFragment(ps, hdr, c, len, marked) ==
  /\ ps \in Seq(PacketType) /\ Len(ps) = Len(c)
  /\ \A k \in 1 .. Len(c) : /\ ps[k] = Packet(hdr, <<c[k]>>, << >>, marked /\ c[k].to = len)
                            /\ ps[k].hdr = hdr /\ ps[k].segs = <<c[k]>>
                            /\ ps[k].marker = (marked /\ c[k].to = len)

LEMMA FragmentFields ==
  ASSUME NEW c \in Seq(Stretch), NEW hdr \in Nat, NEW len, NEW marked \in BOOLEAN
  PROVE  EachFragment(Fragments(hdr, c, len, marked), hdr, c, len, marked)
<1> DEFINE ps == Fragments(hdr, c, len, marked)
<1>1. DOMAIN c = 1 .. Len(c) /\ Len(c) \in Nat
  BY LenProperties
<1>2. ASSUME NEW k \in 1 .. Len(c)
      PROVE  /\ ps[k] = Packet(hdr, <<c[k]>>, << >>, marked /\ c[k].to = len)
             /\ ps[k] \in PacketType
             /\ ps[k].hdr = hdr /\ ps[k].segs = <<c[k]>> /\ ps[k].marker = (marked /\ c[k].to = len)
  <2>1. ps[k] = Packet(hdr, <<c[k]>>, << >>, marked /\ c[k].to = len)
    BY <1>1 DEF Fragments
  <2>2. c[k] \in Stretch
    BY <1>1, ElementOfSeq
  <2>3. PICK m \in BOOLEAN : m = (marked /\ c[k].to = len)
    OBVIOUS
  <2>4. PICK s \in Seq(Stretch) : s = <<c[k]>>
    <3>1. \A x \in Stretch : <<x>> \in Seq(Stretch)
      OBVIOUS
    <3>2. QED BY <2>2, <3>1
  <2>5. ps[k] = Packet(hdr, s, << >>, m)
    BY <2>1, <2>3, <2>4
  <2> HIDE DEF ps
  <2>6. ps[k] \in PacketType /\ ps[k].hdr = hdr /\ ps[k].segs = s /\ ps[k].marker = m
    BY ONLY <2>5, PlainPacket, hdr \in Nat, s \in Seq(Stretch), m \in BOOLEAN
  <2>7. QED BY <2>1, <2>3, <2>4, <2>6
<1>3. ps = [k \in 1 .. Len(c) |-> ps[k]]
  BY <1>1 DEF Fragments
<1> HIDE DEF ps
<1>4. ps \in Seq(PacketType) /\ Len(ps) = Len(c)
  <2>1. ps \in [1 .. Len(c) -> PacketType]
    BY <1>2, <1>3
  <2>2. QED BY <1>1, <2>1
<1>5. EachFragment(ps, hdr, c, len, marked)
  BY <1>2, <1>4 DEF EachFragment
<1>6. QED BY <1>5 DEF ps

LEMMA FragmentsCarry ==
  ASSUME NEW c, NEW from, NEW len, NEW room \in Rooms, CutsOf(c, 1, from, len, room),
         NEW hdr \in Nat, NEW max \in Int, NEW marked \in BOOLEAN,
         \A i \in Nat : hdr + room[i] <= max
  PROVE  /\ Len(Fragments(hdr, c, len, marked)) = Len(c)
         /\ Carries(Fragments(hdr, c, len, marked), <<len>>, from, max, marked)
<1> DEFINE ps == Fragments(hdr, c, len, marked)
<1>1. c \in Seq(Stretch)
  BY DEF CutsOf
<1>2. /\ ps \in Seq(PacketType) /\ Len(ps) = Len(c)
      /\ \A k \in 1 .. Len(c) : /\ ps[k].hdr = hdr /\ ps[k].segs = <<c[k]>>
                                /\ ps[k].marker = (marked /\ c[k].to = len)
  <2>1. EachFragment(ps, hdr, c, len, marked)
    BY <1>1, FragmentFields
  <2> HIDE DEF ps
  <2>2. QED BY <2>1 DEF EachFragment
<1> HIDE DEF ps
<1>3. EachOf(ps, c)
  BY <1>2 DEF EachOf
<1>4. \A k \in 1 .. Len(c) : /\ ps[k].hdr + room[c[k].from] <= max
                             /\ ps[k].marker = (marked /\ c[k].to = len)
  <2>1. ASSUME NEW k \in 1 .. Len(c) PROVE ps[k].hdr + room[c[k].from] <= max
    <3>1. c[k] \in Stretch
      BY <1>1, ElementOfSeq
    <3>2. c[k].from \in Nat
      BY <3>1 DEF Stretch
    <3>3. QED BY <1>2, <3>2
  <2>2. QED BY <1>2, <2>1
<1>5. Carries(ps, <<len>>, from, max, marked)
  BY <1>3, <1>4, EachCarries
<1>6. QED BY <1>2, <1>5 DEF ps

-----------------------------------------------------------------------------
(* The send functions                                                      *)

\* By how much a packet may be larger than the endpoint takes.
Above == IF fmt = "mpa" THEN MpaHeader ELSE 0

\* The packets are all of the parsed frame.
Complete(ps, max) ==
  /\ ps \in Seq(PacketType)
  /\ Reassembles(ps, Pieces(fmt, out))
  /\ \A i \in 1 .. Len(ps) : /\ PacketBytes(ps[i]) <= max + Above
                             /\ ps[i].marker = (fmt # "audio" /\ i = Len(ps))

LEMMA CarriesAll ==
  ASSUME NEW ps, NEW start, NEW max, NEW len,
         Pieces(fmt, out) = <<len>>,
         Carries(ps, <<len>>, start, max + Above, fmt # "audio"),
         start = IF fmt = "h264" /\ Len(ps) > 1 THEN 1 ELSE 0
  PROVE  Complete(ps, max)
<1>1. ps \in Seq(PacketType)
  BY DEF Carries, RunTo
<1>2. RunTo(ps, <<len>>, start, Len(<<len>>), <<len>>[Len(<<len>>)])
  BY DEF Carries
<1>3. Reassembles(ps, <<len>>)
  BY <1>2, RunIsWhole
<1>4. \A i \in 1 .. Len(ps) : /\ PacketBytes(ps[i]) <= max + Above
                              /\ ps[i].marker = (fmt # "audio" /\ i = Len(ps))
  BY DEF Carries
<1>5. QED BY <1>1, <1>3, <1>4 DEF Complete

\* The room for a stretch whose bytes are the same at any place.
LEMMA SameRoom ==
  ASSUME NEW r \in Nat \ {0}
  PROVE  [i \in Nat |-> r] \in Rooms
BY DEF Rooms

LEMMA CutsCarry ==
  ASSUME NEW len \in Nat, NEW from \in Nat, from < len, NEW room \in Rooms, NEW hdr \in Nat,
         NEW bound \in Int, NEW marked \in BOOLEAN, \A i \in Nat : hdr + room[i] <= bound
  PROVE  LET ps == Fragments(hdr, Cut(1, from, len, room), len, marked)
         IN  /\ Carries(ps, <<len>>, from, bound, marked)
             /\ len - from > room[from] => Len(ps) > 1
<1>1. PICK el \in Nat : el = 1
  OBVIOUS
<1>2. PICK c : c = Cut(el, from, len, room)
  OBVIOUS
<1>3. CutsOf(c, el, from, len, room)
  BY <1>2, CutIsWhole
<1>4. /\ Len(Fragments(hdr, c, len, marked)) = Len(c)
      /\ Carries(Fragments(hdr, c, len, marked), <<len>>, from, bound, marked)
  <2>1. CutsOf(c, 1, from, len, room)
    BY <1>1, <1>3
  <2>2. QED BY <2>1, FragmentsCarry
<1>5. ASSUME len - from > room[from] PROVE Len(c) > 1
  <2>1. PICK n \in Nat : n = Len(c) /\ n > 0
    BY <1>3, LenProperties DEF CutsOf
  <2>2. c[1].from = from /\ c[n].to = len /\ c[1].to - c[1].from <= room[c[1].from]
    BY <1>3, <2>1 DEF CutsOf
  <2>3. c[1] \in Stretch
    BY <1>3, <2>1, ElementOfSeq DEF CutsOf
  <2>4. PICK r \in Nat : r = room[from]
    BY DEF Rooms
  <2>5. PICK to \in Nat : to = c[1].to
    BY <2>3 DEF Stretch
  <2>6. n # 1
    BY <1>5, <2>2, <2>4, <2>5
  <2>7. QED BY <2>1, <2>6
<1>6. QED BY <1>1, <1>2, <1>4, <1>5

LEMMA MpaComplete ==
  ASSUME fmt = "mpa", out.len \in Nat \ {0}, NEW max \in Nat \ {0}
  PROVE  Complete(MpaSend(out, max), max)
<1> DEFINE room == [i \in Nat |-> max]
<1>1. PICK len \in Nat : len = out.len /\ 0 < len
  OBVIOUS
<1>2. PICK hdr \in Nat : hdr = MpaHeader /\ hdr = Above
  BY DEF MpaHeader, Above
<1>3. room \in Rooms
  BY SameRoom
<1>4. PICK bound \in Nat : bound = max + hdr /\ \A i \in Nat : hdr + room[i] <= bound
  OBVIOUS
<1>5. MpaSend(out, max) = Fragments(hdr, Cut(1, 0, len, room), len, TRUE)
  BY <1>1, <1>2 DEF MpaSend
<1>6. Pieces(fmt, out) = <<len>> /\ (fmt # "audio") = TRUE
  BY <1>1 DEF Pieces
<1> HIDE DEF room
<1>7. PICK from \in Nat : from = 0 /\ from < len
  BY <1>1
<1>8. PICK marked \in BOOLEAN : marked = TRUE
  OBVIOUS
<1>9. PICK ps : ps = Fragments(hdr, Cut(1, from, len, room), len, marked)
  OBVIOUS
<1>10. Carries(ps, <<len>>, from, bound, marked)
  BY ONLY <1>3, <1>4, <1>7, <1>9, CutsCarry
<1>11. Complete(ps, max)
  <2>1. bound = max + Above /\ from = IF fmt = "h264" /\ Len(ps) > 1 THEN 1 ELSE 0
    BY <1>2, <1>4, <1>7
  <2>2. QED BY <1>6, <1>8, <1>10, <2>1, CarriesAll
<1>12. QED BY <1>5, <1>7, <1>8, <1>9, <1>11

LEMMA AudioComplete ==
  ASSUME fmt = "audio", out.len \in Nat \ {0}, out.unit = 2, NEW max \in Nat, max > 1
  PROVE  Complete(AudioSend(out, max), max)
<1>1. PICK len \in Nat : len = out.len /\ 0 < len
  OBVIOUS
<1> DEFINE room == [i \in Nat |-> IF len - i > max THEN max - (max % 2) ELSE max]
<1>2. \A i \in Nat : room[i] \in Nat \ {0} /\ room[i] <= max
  <2>1. max % 2 \in 0 .. 1
    OBVIOUS
  <2>2. max - (max % 2) \in Nat \ {0} /\ max - (max % 2) <= max
    BY <2>1
  <2>3. QED BY <2>2
<1>3. room \in Rooms
  BY <1>2 DEF Rooms
<1>4. PICK hdr \in Nat : hdr = 0 /\ \A i \in Nat : hdr + room[i] <= max
  <2> HIDE DEF room
  <2>1. QED BY <1>2
<1>5. AudioSend(out, max) = Fragments(hdr, Cut(1, 0, len, room), len, FALSE)
  BY <1>1, <1>4 DEF AudioSend
<1>6. Pieces(fmt, out) = <<len>> /\ (fmt # "audio") = FALSE
  BY <1>1 DEF Pieces
<1> HIDE DEF room
<1>7. PICK from \in Nat : from = 0 /\ from < len
  BY <1>1
<1>8. PICK marked \in BOOLEAN : marked = FALSE
  OBVIOUS
<1>9. PICK ps : ps = Fragments(hdr, Cut(1, from, len, room), len, marked)
  OBVIOUS
<1>10. Carries(ps, <<len>>, from, max, marked)
  BY ONLY max \in Nat, <1>3, <1>4, <1>7, <1>9, CutsCarry
<1>11. Complete(ps, max)
  <2>1. max = max + Above /\ from = IF fmt = "h264" /\ Len(ps) > 1 THEN 1 ELSE 0
    BY <1>7 DEF Above
  <2>2. QED BY <1>6, <1>8, <1>10, <2>1, CarriesAll
<1>12. QED BY <1>5, <1>7, <1>8, <1>9, <1>11

\* A unit that is cut makes more than one fragment: otherwise the first byte of the
\* unit would be missing.
LEMMA H264Complete ==
  ASSUME fmt = "h264", out.len \in Nat, NEW max \in Nat, max > 3
  PROVE  Complete(H264Send(out, max), max)
<1>1. PICK len \in Nat : len = out.len
  OBVIOUS
<1>2. Pieces(fmt, out) = <<len>> /\ (fmt # "audio") = TRUE /\ max + Above = max
  BY <1>1 DEF Pieces, Above
<1>3. CASE len <= max
  <2>1. PICK s \in Stretch : s = Seg(1, 0, len) /\ (s.el = 1 /\ s.from = 0 /\ s.to = len)
    <3>1. PICK el \in Nat, from \in Nat : el = 1 /\ from = 0
      OBVIOUS
    <3>2. PICK s \in Stretch : s = Seg(el, from, len) /\ s.el = el /\ s.from = from /\ s.to = len
      BY SegFields
    <3>3. QED BY <3>1, <3>2
  <2>2. PICK hdr \in Nat, marked \in BOOLEAN : hdr = 0 /\ marked = TRUE
    OBVIOUS
  <2>3. PICK segs \in Seq(Stretch) : segs = <<s>>
    <3>1. \A x \in Stretch : <<x>> \in Seq(Stretch)
      OBVIOUS
    <3>2. QED BY <3>1
  <2>4. PICK p \in PacketType : /\ p = Packet(hdr, segs, << >>, marked)
                               /\ p.hdr = hdr /\ p.segs = segs /\ p.marker = marked
    BY PlainPacket
  <2>5. H264Send(out, max) = <<p>>
    BY <1>1, <1>3, <2>1, <2>2, <2>3, <2>4 DEF H264Send
  <2>6. RunTo(<<p>>, <<len>>, s.from, 1, s.to)
    BY <2>1, <2>3, <2>4, RunOne
  <2>7. PacketBytes(p) = len
    <3>1. PacketBytes(p) = p.hdr + s.to - s.from
      BY <2>3, <2>4, BytesOfOne
    <3>2. s.from = 0 /\ s.to = len
      BY <2>1
    <3>3. p.hdr = hdr
      BY <2>4
    <3>4. QED BY ONLY len \in Nat, <2>2, <3>1, <3>2, <3>3
  <2>8. Len(<<p>>) = 1 /\ <<p>>[1] = p /\ Len(<<len>>) = 1 /\ <<len>>[1] = len
    OBVIOUS
  <2>9. Carries(<<p>>, <<len>>, 0, max + Above, fmt # "audio")
    <3>1. RunTo(<<p>>, <<len>>, 0, Len(<<len>>), <<len>>[Len(<<len>>)])
      BY <2>1, <2>6, <2>8
    <3>2. ASSUME NEW i \in 1 .. Len(<<p>>)
          PROVE  /\ PacketBytes(<<p>>[i]) <= max + Above
                 /\ <<p>>[i].marker = ((fmt # "audio") /\ i = Len(<<p>>))
      <4>1. i = 1
        BY <2>8
      <4>2. QED BY <1>2, <1>3, <2>2, <2>4, <2>7, <2>8, <4>1
    <3>3. QED BY <3>1, <3>2 DEF Carries
  <2>10. 0 = IF fmt = "h264" /\ Len(<<p>>) > 1 THEN 1 ELSE 0
    BY <2>8
  <2>11. PICK ps, from : ps = <<p>> /\ from = 0
    OBVIOUS
  <2>12. Complete(ps, max)
    BY <1>2, <2>9, <2>10, <2>11, CarriesAll
  <2>13. QED BY <2>5, <2>11, <2>12
<1>4. CASE ~(len <= max)
  <2> DEFINE room == [i \in Nat |-> max - 2]
  <2>1. PICK hdr \in Nat : hdr = 2 /\ \A i \in Nat : hdr + room[i] <= max
    OBVIOUS
  <2>2. room \in Rooms
    BY DEF Rooms
  <2>3. H264Send(out, max) = Fragments(hdr, Cut(1, 1, len, room), len, TRUE)
    BY <1>1, <1>4, <2>1 DEF H264Send
  <2>4. PICK from \in Nat : from = 1 /\ from < len /\ len - from > room[from]
    BY <1>4
  <2> HIDE DEF room
  <2>5. PICK marked \in BOOLEAN : marked = TRUE
    OBVIOUS
  <2>6. PICK ps : ps = Fragments(hdr, Cut(1, from, len, room), len, marked)
    OBVIOUS
  <2>7. Carries(ps, <<len>>, from, max, marked) /\ Len(ps) > 1
    BY ONLY max \in Nat, <2>1, <2>2, <2>4, <2>6, CutsCarry
  <2>8. Complete(ps, max)
    <3>1. from = IF fmt = "h264" /\ Len(ps) > 1 THEN 1 ELSE 0
      BY <2>4, <2>7
    <3>2. QED BY <1>2, <2>5, <2>7, <3>1, CarriesAll
  <2>9. QED BY <2>3, <2>4, <2>5, <2>6, <2>8
<1>5. QED BY <1>3, <1>4

\* The tables a frame is sent with are those its header names.
TablesAre(ps, a, b) ==
  \A i \in 1 .. Len(ps) : ps[i].tables = << >> \/ ps[i].tables = <<a, b>>

LEMMA JpegComplete ==
  ASSUME fmt = "jpeg", out.scan \in Nat \ {0}, NEW max \in Nat, max > 200,
         out.quant[out.luma] \in Nat, out.quant[out.chroma] \in Nat
  PROVE  /\ Complete(JpegSend(out, max), max)
         /\ TablesAre(JpegSend(out, max), out.quant[out.luma], out.quant[out.chroma])
<1>1. PICK len \in Nat : len = out.scan /\ 0 < len
  OBVIOUS
<1>2. PICK a \in Nat, b \in Nat : a = out.quant[out.luma] /\ b = out.quant[out.chroma]
  OBVIOUS
<1> DEFINE Hdr  == [i \in Nat |-> IF i = 0 THEN JpegHeader + JpegTables ELSE JpegHeader]
           room == [i \in Nat |-> max - Hdr[i]]
           c == Cut(1, 0, len, room)
           ps == [k \in DOMAIN c |->
                    Packet(Hdr[c[k].from], <<c[k]>>, IF c[k].from = 0 THEN <<a, b>> ELSE << >>,
                           c[k].to = len)]
<1>3. JpegSend(out, max) = ps
  BY <1>1, <1>2 DEF JpegSend
<1>4. /\ Hdr \in [Nat -> Nat] /\ room \in Rooms
      /\ \A i \in Nat : Hdr[i] + room[i] <= max
  <2>1. \A i \in Nat : Hdr[i] \in Nat /\ Hdr[i] <= 140
    BY DEF JpegHeader, JpegTables
  <2>2. Hdr \in [Nat -> Nat]
    BY <2>1
  <2> HIDE DEF Hdr
  <2>3. \A i \in Nat : room[i] \in Nat \ {0} /\ Hdr[i] + room[i] <= max
    BY <2>1
  <2>4. QED BY <2>2, <2>3 DEF Rooms
<1> HIDE DEF Hdr, room
<1>5. CutsOf(c, 1, 0, len, room)
  BY <1>1, <1>4, CutIsWhole
<1> HIDE DEF c
<1>6. c \in Seq(Stretch) /\ DOMAIN c = 1 .. Len(c) /\ Len(c) \in Nat
  BY <1>5, LenProperties DEF CutsOf
<1>7. ASSUME NEW k \in 1 .. Len(c)
      PROVE  /\ ps[k] \in PacketType /\ ps[k].hdr = Hdr[c[k].from] /\ ps[k].segs = <<c[k]>>
             /\ ps[k].marker = (c[k].to = len)
             /\ ps[k].tables = << >> \/ ps[k].tables = <<a, b>>
             /\ c[k].from \in Nat
  <2>1. PICK s \in Stretch : s = c[k]
    BY <1>6, ElementOfSeq
  <2>2. PICK hdr \in Nat : hdr = Hdr[s.from]
    BY <1>4 DEF Stretch
  <2>3. PICK segs \in Seq(Stretch) : segs = <<s>>
    <3>1. \A x \in Stretch : <<x>> \in Seq(Stretch)
      OBVIOUS
    <3>2. QED BY <3>1
  <2>4. PICK m \in BOOLEAN : m = (s.to = len)
    OBVIOUS
  <2>5. PICK tables \in Seq(Nat) : tables = IF s.from = 0 THEN <<a, b>> ELSE << >>
    <3>1. <<a, b>> \in Seq(Nat) /\ << >> \in Seq(Nat)
      OBVIOUS
    <3>2. QED BY <3>1
  <2>6. ps[k] = Packet(hdr, segs, tables, m)
    BY <1>6, <2>1, <2>2, <2>3, <2>4, <2>5
  <2>7. /\ ps[k] \in PacketType /\ ps[k].hdr = hdr /\ ps[k].segs = segs
        /\ ps[k].tables = tables /\ ps[k].marker = m
    BY ONLY <2>6, PacketFields, hdr \in Nat, segs \in Seq(Stretch), tables \in Seq(Nat), m \in BOOLEAN
  <2>8. s.from \in Nat
    BY DEF Stretch
  <2> HIDE DEF ps
  <2>9. QED BY <2>1, <2>2, <2>3, <2>4, <2>5, <2>7, <2>8
<1>8. ps = [k \in 1 .. Len(c) |-> ps[k]]
  BY <1>6
<1> HIDE DEF ps
<1>9. ps \in Seq(PacketType) /\ Len(ps) = Len(c)
  <2>1. ps \in [1 .. Len(c) -> PacketType]
    BY <1>7, <1>8
  <2>2. QED BY <1>6, <2>1
<1>10. EachOf(ps, c)
  BY <1>7, <1>9 DEF EachOf
<1>11. \A k \in 1 .. Len(c) : /\ ps[k].hdr + room[c[k].from] <= max
                              /\ ps[k].marker = (TRUE /\ c[k].to = len)
  BY <1>4, <1>7
<1>12. PICK from \in Nat, marked \in BOOLEAN : from = 0 /\ marked = TRUE
  OBVIOUS
<1>13. Carries(ps, <<len>>, from, max, marked)
  <2>1. CutsOf(c, 1, from, len, room)
    BY <1>5, <1>12
  <2>2. \A k \in 1 .. Len(c) : /\ ps[k].hdr + room[c[k].from] <= max
                               /\ ps[k].marker = (marked /\ c[k].to = len)
    BY <1>11, <1>12
  <2>3. max \in Int /\ room \in Rooms
    BY <1>4
  <2>4. QED BY ONLY <1>10, <1>12, <2>1, <2>2, <2>3, EachCarries
<1>14. Complete(ps, max)
  <2>1. max = max + Above /\ from = IF fmt = "h264" /\ Len(ps) > 1 THEN 1 ELSE 0
    BY <1>12 DEF Above
  <2>2. Pieces(fmt, out) = <<len>> /\ (fmt # "audio") = TRUE
    BY <1>1 DEF Pieces
  <2>3. QED BY <1>12, <1>13, <2>1, <2>2, CarriesAll
<1>15. TablesAre(ps, a, b)
  BY <1>7, <1>9 DEF TablesAre
<1>16. QED BY <1>2, <1>3, <1>14, <1>15

-----------------------------------------------------------------------------
(* Packets filled with one piece after the other                           *)

\* What has been filled: the packets sent, the stretches of the next one and the
\* space in it.
FillType == [sent : Seq(PacketType), segs : Seq(Stretch), space : Nat]

\* The packet that is being filled.
Filling(hdr, segs) == Packet(hdr, segs, << >>, FALSE)

\* The first i pieces have been filled into packets with headers of hdr bytes and
\* room for room more.
Filled(F, hdr, room, lens, i) ==
  /\ F \in FillType
  /\ \A k \in 1 .. Len(F.sent) :
       /\ PacketBytes(F.sent[k]) <= hdr + room
       /\ F.sent[k].marker = (F.segs = << >> /\ i = Len(lens) /\ k = Len(F.sent))
  /\ F.segs = << >> =>
       /\ F.space = room
       /\ \/ i = 0 /\ F.sent = << >>
          \/ i > 0 /\ RunTo(F.sent, lens, 0, i, lens[i])
  /\ F.segs # << >> =>
       /\ i > 0 /\ RunTo(Append(F.sent, Filling(hdr, F.segs)), lens, 0, i, lens[i])
       /\ PacketBytes(Filling(hdr, F.segs)) = hdr + room - F.space

LEMMA FillFields ==
  ASSUME NEW F \in FillType
  PROVE  F.sent \in Seq(PacketType) /\ F.segs \in Seq(Stretch) /\ F.space \in Nat
BY DEF FillType

LEMMA OneMore ==
  ASSUME NEW old \in Seq(PacketType), NEW p \in PacketType, NEW n \in Nat, n = Len(old),
         NEW sent, sent = Append(old, p)
  PROVE  /\ sent \in Seq(PacketType) /\ Len(sent) = n + 1 /\ sent[n + 1] = p
         /\ \A k \in 1 .. n : sent[k] = old[k]
BY AppendProperties

LEMMA FillRecord ==
  ASSUME NEW sent \in Seq(PacketType), NEW segs \in Seq(Stretch), NEW space \in Nat
  PROVE  LET F == [sent |-> sent, segs |-> segs, space |-> space]
         IN  F \in FillType /\ F.sent = sent /\ F.segs = segs /\ F.space = space
BY DEF FillType

NoneMarked(F, hdr, room) ==
  \A k \in 1 .. Len(F.sent) : PacketBytes(F.sent[k]) <= hdr + room /\ F.sent[k].marker = FALSE

\* While there are pieces left, no packet has the marker.
LEMMA Unmarked ==
  ASSUME NEW hdr, NEW room, NEW lens, NEW i \in Nat, Len(lens) \in Nat, i < Len(lens),
         NEW F, Filled(F, hdr, room, lens, i)
  PROVE  NoneMarked(F, hdr, room)
<1>1. ASSUME NEW k \in 1 .. Len(F.sent)
      PROVE  /\ PacketBytes(F.sent[k]) <= hdr + room
             /\ F.sent[k].marker = (F.segs = << >> /\ i = Len(lens) /\ k = Len(F.sent))
  BY DEF Filled
<1>2. i # Len(lens)
  OBVIOUS
<1>3. QED BY <1>1, <1>2 DEF NoneMarked

LEMMA FillingFields ==
  ASSUME NEW hdr \in Nat, NEW segs \in Seq(Stretch)
  PROVE  /\ Filling(hdr, segs) \in PacketType
         /\ Filling(hdr, segs).hdr = hdr
         /\ Filling(hdr, segs).segs = segs
         /\ Filling(hdr, segs).marker = FALSE
<1>1. PICK m \in BOOLEAN : m = FALSE
  OBVIOUS
<1>2. QED BY <1>1, PlainPacket DEF Filling

LEMMA NothingFilled ==
  ASSUME NEW hdr \in Nat, NEW room \in Nat, NEW lens
  PROVE  Filled([sent |-> << >>, segs |-> << >>, space |-> room], hdr, room, lens, 0)
<1> DEFINE F == [sent |-> << >>, segs |-> << >>, space |-> room]
<1>1. << >> \in Seq(PacketType) /\ << >> \in Seq(Stretch) /\ Len(<< >>) = 0
  OBVIOUS
<1>2. F \in FillType /\ F.sent = << >> /\ F.segs = << >> /\ F.space = room
  BY <1>1 DEF FillType
<1> HIDE DEF F
<1>3. \A k \in 1 .. Len(F.sent) : FALSE
  BY <1>1, <1>2
<1>4. Filled(F, hdr, room, lens, 0)
  BY <1>2, <1>3 DEF Filled
<1>5. QED BY <1>4 DEF F

\* The next piece begins in the packet that is being filled.
LEMMA FillAdd ==
  ASSUME NEW hdr \in Nat, NEW room \in Nat, NEW lens, NEW i \in Nat, NEW F,
         Filled(F, hdr, room, lens, i),
         NEW s \in Stretch, s.el = i + 1, s.from = 0, s.to <= F.space
  PROVE  /\ RunTo(Append(F.sent, Filling(hdr, Append(F.segs, s))), lens, 0, s.el, s.to)
         /\ PacketBytes(Filling(hdr, Append(F.segs, s))) = hdr + room - F.space + s.to
<1>1. F.sent \in Seq(PacketType) /\ F.segs \in Seq(Stretch) /\ F.space \in Nat
  BY FillFields DEF Filled
<1>2. PICK more \in Seq(Stretch) : more = Append(F.segs, s)
  BY <1>1, AppendProperties
<1>3. PICK p \in PacketType : p = Filling(hdr, F.segs) /\ p.hdr = hdr /\ p.segs = F.segs
  <2>1. PICK segs \in Seq(Stretch) : segs = F.segs
    BY <1>1
  <2>2. PICK p \in PacketType : p = Filling(hdr, segs) /\ p.hdr = hdr /\ p.segs = segs
    BY FillingFields
  <2>3. QED BY <2>1, <2>2
<1>4. PICK q \in PacketType : q = Filling(hdr, more) /\ q.hdr = hdr /\ q.segs = more
  BY <1>1, FillingFields
<1>5. PacketBytes(p) \in Int /\ PacketBytes(q) = PacketBytes(p) + s.to - s.from
  <2>1. p.hdr \in Nat /\ p.segs \in Seq(Stretch) /\ q.hdr = p.hdr /\ q.segs = Append(p.segs, s)
    BY <1>1, <1>2, <1>3, <1>4
  <2>2. QED BY <2>1, BytesAppend
<1>6. PacketBytes(p) = hdr + room - F.space
  <2>1. CASE F.segs = << >>
    <3>1. PacketBytes(p) = hdr
      BY <1>3, <2>1, NoBytes
    <3>2. F.space = room
      BY <2>1 DEF Filled
    <3>3. QED BY <3>1, <3>2
  <2>2. CASE F.segs # << >>
    BY <1>3, <2>2 DEF Filled
  <2>3. QED BY <2>1, <2>2
<1>7. PacketBytes(q) = hdr + room - F.space + s.to
  <2>1. s.to \in Nat /\ s.from = 0
    BY DEF Stretch
  <2>2. QED BY <1>1, <1>5, <1>6, <2>1
<1>8. RunTo(Append(F.sent, q), lens, 0, s.el, s.to)
  <2>1. PICK start : start = 0
    OBVIOUS
  <2>2. CASE F.segs # << >>
    <3>1. RunTo(Append(F.sent, p), lens, start, i, lens[i])
      BY <1>3, <2>1, <2>2 DEF Filled
    <3>2. NextByte(i, lens[i], s.el, s.from, lens)
      BY DEF NextByte
    <3>3. q.segs = Append(p.segs, s)
      BY <1>2, <1>3, <1>4
    <3>4. RunTo(Append(F.sent, q), lens, start, s.el, s.to)
      BY <1>1, <3>1, <3>2, <3>3, RunGrow
    <3>5. QED BY <2>1, <3>4
  <2>3. CASE F.segs = << >>
    <3>1. q.segs = <<s>>
      <4>1. Append(<< >>, s) = <<s>>
        OBVIOUS
      <4>2. QED BY <1>2, <1>4, <2>3, <4>1
    <3>2. CASE i > 0 /\ RunTo(F.sent, lens, 0, i, lens[i])
      <4>1. RunTo(F.sent, lens, start, i, lens[i])
        BY <2>1, <3>2
      <4>2. NextByte(i, lens[i], s.el, s.from, lens)
        BY DEF NextByte
      <4>3. RunTo(Append(F.sent, q), lens, start, s.el, s.to)
        BY <3>1, <4>1, <4>2, RunNext
      <4>4. QED BY <2>1, <4>3
    <3>3. CASE i = 0 /\ F.sent = << >>
      <4>1. Append(F.sent, q) = <<q>>
        <5>1. Append(<< >>, q) = <<q>>
          OBVIOUS
        <5>2. QED BY <3>3, <5>1
      <4>2. s.el = 1 /\ s.from = 0
        BY <3>3
      <4>3. RunTo(<<q>>, lens, s.from, 1, s.to)
        BY <3>1, <4>2, RunOne
      <4>4. QED BY <4>1, <4>2, <4>3
    <3>4. QED BY <2>3, <3>2, <3>3 DEF Filled
  <2>4. QED BY <2>2, <2>3
<1>9. QED BY <1>2, <1>4, <1>7, <1>8

\* A piece that fits.
LEMMA FillFits ==
  ASSUME NEW hdr \in Nat, NEW room \in Nat, NEW lens, Len(lens) \in Nat, NEW i \in Nat, i < Len(lens),
         NEW F, Filled(F, hdr, room, lens, i),
         NEW len \in Nat, len = lens[i + 1], len <= F.space,
         NEW G, G = [F EXCEPT !.segs = Append(@, Seg(i + 1, 0, len)), !.space = @ - len]
  PROVE  Filled(G, hdr, room, lens, i + 1)
<1>1. F.sent \in Seq(PacketType) /\ F.segs \in Seq(Stretch) /\ F.space \in Nat /\ F \in FillType
  BY FillFields DEF Filled
<1>2. PICK s \in Stretch : s = Seg(i + 1, 0, len) /\ s.el = i + 1 /\ s.from = 0 /\ s.to = len
  <2>1. PICK el \in Nat, from \in Nat : el = i + 1 /\ from = 0
    OBVIOUS
  <2>2. PICK s \in Stretch : s = Seg(el, from, len) /\ s.el = el /\ s.from = from /\ s.to = len
    BY SegFields
  <2>3. QED BY <2>1, <2>2
<1>3. PICK segs \in Seq(Stretch) : segs = Append(F.segs, s) /\ segs # << >>
  BY <1>1, AppendProperties
<1>4. PICK space \in Nat : space = F.space - len
  BY <1>1
<1>5. G = [F EXCEPT !.segs = segs, !.space = space]
  BY <1>2, <1>3, <1>4
<1>6. G \in FillType /\ G.sent = F.sent /\ G.segs = segs /\ G.space = space
  BY <1>1, <1>5 DEF FillType
<1>7. /\ RunTo(Append(F.sent, Filling(hdr, segs)), lens, 0, s.el, s.to)
      /\ PacketBytes(Filling(hdr, segs)) = hdr + room - F.space + s.to
  <2>1. s.el = i + 1 /\ s.from = 0 /\ s.to <= F.space
    BY <1>2
  <2>2. QED BY <1>3, <2>1, FillAdd
<1>8. /\ RunTo(Append(G.sent, Filling(hdr, G.segs)), lens, 0, i + 1, lens[i + 1])
      /\ PacketBytes(Filling(hdr, G.segs)) = hdr + room - G.space
  <2>1. RunTo(Append(G.sent, Filling(hdr, G.segs)), lens, 0, i + 1, lens[i + 1])
    BY <1>2, <1>6, <1>7
  <2>2. PacketBytes(Filling(hdr, G.segs)) = hdr + room - F.space + len
    BY <1>2, <1>6, <1>7
  <2>3. hdr + room - F.space + len = hdr + room - G.space
    BY SMTT(30), <1>1, <1>4, <1>6
  <2>4. QED BY <2>1, <2>2, <2>3
<1>9. \A k \in 1 .. Len(G.sent) :
        /\ PacketBytes(G.sent[k]) <= hdr + room
        /\ G.sent[k].marker = (G.segs = << >> /\ i + 1 = Len(lens) /\ k = Len(G.sent))
  <2>1. \A k \in 1 .. Len(F.sent) : PacketBytes(F.sent[k]) <= hdr + room /\ F.sent[k].marker = FALSE
    BY ZenonT(30), Unmarked DEF NoneMarked
  <2>2. QED BY <1>3, <1>6, <2>1
<1>10. QED BY SMTT(30), <1>3, <1>6, <1>8, <1>9 DEF Filled

Flushed(F, hdr, room) ==
  [sent |-> Append(F.sent, Filling(hdr, F.segs)), segs |-> << >>, space |-> room]

\* What has been filled is sent before a piece that does not fit behind it.
LEMMA FillFlush ==
  ASSUME NEW hdr \in Nat, NEW room \in Nat, NEW lens, Len(lens) \in Nat, NEW i \in Nat, i < Len(lens),
         NEW F, Filled(F, hdr, room, lens, i), F.segs # << >>
  PROVE  Filled(Flushed(F, hdr, room), hdr, room, lens, i)
<1>1. \A k \in 1 .. Len(F.sent) : PacketBytes(F.sent[k]) <= hdr + room /\ F.sent[k].marker = FALSE
  BY Unmarked DEF NoneMarked
<1> DEFINE G == Flushed(F, hdr, room)
<1>2. F.sent \in Seq(PacketType) /\ F.segs \in Seq(Stretch) /\ F.space \in Nat /\ F \in FillType
  BY FillFields DEF Filled
<1>3. PICK p \in PacketType : p = Filling(hdr, F.segs) /\ p.marker = FALSE
  <2>1. PICK segs \in Seq(Stretch) : segs = F.segs
    BY <1>2
  <2>2. QED BY ZenonT(30), <2>1, FillingFields
<1>4. PICK old \in Seq(PacketType), n \in Nat : old = F.sent /\ n = Len(old)
  BY <1>2, LenProperties
<1>5. PICK sent : sent = Append(old, p)
  OBVIOUS
<1>6. /\ sent \in Seq(PacketType) /\ Len(sent) = n + 1 /\ sent[n + 1] = p
      /\ \A k \in 1 .. n : sent[k] = old[k]
  BY <1>4, <1>5, OneMore
<1>7. G \in FillType /\ G.sent = sent /\ G.segs = << >> /\ G.space = room
  <2>1. << >> \in Seq(Stretch)
    OBVIOUS
  <2>2. PICK none \in Seq(Stretch) : none = << >>
    BY <2>1
  <2>3. G = [sent |-> sent, segs |-> none, space |-> room]
    BY <1>3, <1>4, <1>5, <2>2 DEF Flushed
  <2> HIDE DEF G
  <2>4. G \in FillType /\ G.sent = sent /\ G.segs = none /\ G.space = room
    BY ONLY <1>6, none \in Seq(Stretch), room \in Nat, <2>3, FillRecord
  <2>5. QED BY <2>2, <2>4
<1> HIDE DEF G
<1>8. i > 0 /\ RunTo(G.sent, lens, 0, i, lens[i])
  BY <1>3, <1>4, <1>5, <1>7 DEF Filled
<1>9. ASSUME NEW k \in 1 .. n + 1 PROVE PacketBytes(sent[k]) <= hdr + room /\ sent[k].marker = FALSE
  <2>1. CASE k = n + 1
    <3>1. PacketBytes(p) = hdr + room - F.space
      BY <1>3 DEF Filled
    <3>2. sent[k] = p
      BY <1>6, <2>1
    <3>3. PacketBytes(sent[k]) = hdr + room - F.space
      BY <3>1, <3>2
    <3>4. QED BY <1>2, <1>3, <3>2, <3>3
  <2>2. CASE k # n + 1
    <3>1. k \in 1 .. n
      BY <2>2
    <3>2. k \in 1 .. Len(F.sent)
      BY <1>4, <3>1
    <3>3. PacketBytes(F.sent[k]) <= hdr + room /\ F.sent[k].marker = FALSE
      BY ONLY <1>1, <3>2
    <3>4. QED BY <1>4, <1>6, <3>1, <3>3
  <2>3. QED BY <2>1, <2>2
<1>10. \A k \in 1 .. Len(G.sent) :
         /\ PacketBytes(G.sent[k]) <= hdr + room
         /\ G.sent[k].marker = (G.segs = << >> /\ i = Len(lens) /\ k = Len(G.sent))
  <2>1. i # Len(lens)
    OBVIOUS
  <2>2. QED BY <1>6, <1>7, <1>9, <2>1
<1>11. Filled(G, hdr, room, lens, i)
  BY <1>7, <1>8, <1>10 DEF Filled
<1>12. QED BY <1>11 DEF G

\* A piece that does not fit fills the packet up, the rest has packets of its own.
CutOver(F, hdr, i, c, len, last) ==
  Append(F.sent, Filling(hdr, Append(F.segs, Seg(i + 1, 0, F.space)))) \o Fragments(hdr, c, len, last)

\* T runs up to the end of piece i + 1, the last packet may have the marker.
RunsOver(T, hdr, room, lens, i, len, last) ==
  /\ RunTo(T, lens, 0, i + 1, len)
  /\ \A k \in 1 .. Len(T) : /\ PacketBytes(T[k]) <= hdr + room
                            /\ T[k].marker = (last /\ k = Len(T))

LEMMA FillCuts ==
  ASSUME NEW hdr \in Nat, NEW room \in Nat \ {0}, NEW lens, NEW i \in Nat, Len(lens) \in Nat,
         i < Len(lens), NEW F, Filled(F, hdr, room, lens, i),
         NEW len \in Nat, NEW last \in BOOLEAN,
         NEW R, \A j \in Nat : R[j] = room, NEW c, CutsOf(c, i + 1, F.space, len, R)
  PROVE  RunsOver(CutOver(F, hdr, i, c, len, last), hdr, room, lens, i, len, last)
<1> DEFINE T == CutOver(F, hdr, i, c, len, last)
<1>1. \A k \in 1 .. Len(F.sent) : PacketBytes(F.sent[k]) <= hdr + room /\ F.sent[k].marker = FALSE
  <2>1. NoneMarked(F, hdr, room)
    BY Unmarked
  <2>2. QED BY ONLY <2>1 DEF NoneMarked
<1>2. PICK old \in Seq(PacketType), segs \in Seq(Stretch), space \in Nat :
        old = F.sent /\ segs = F.segs /\ space = F.space
  BY FillFields DEF Filled
<1>3. PICK el \in Nat, start \in Nat : el = i + 1 /\ start = 0
  OBVIOUS
<1>4. PICK s \in Stretch : s = Seg(el, start, space) /\ s.el = el /\ s.from = start /\ s.to = space
  BY ONLY el \in Nat, start \in Nat, space \in Nat, SegFields
<1>5. PICK more \in Seq(Stretch) : more = Append(segs, s)
  BY AppendProperties
<1>6. PICK q \in PacketType : q = Filling(hdr, more) /\ q.marker = FALSE
  BY ZenonT(30), FillingFields
<1>7. PICK n \in Nat : n = Len(old)
  BY LenProperties
<1>8. PICK ps : ps = Append(old, q)
  OBVIOUS
<1>9. /\ ps \in Seq(PacketType) /\ Len(ps) = n + 1 /\ ps[n + 1] = q
      /\ \A k \in 1 .. n : ps[k] = old[k]
  BY <1>7, <1>8, OneMore
<1>10. RunTo(ps, lens, start, el, space) /\ PacketBytes(q) = hdr + room
  <2>1. s.el = i + 1 /\ s.from = 0 /\ s.to <= F.space
    BY <1>2, <1>3, <1>4
  <2>2. /\ RunTo(Append(F.sent, Filling(hdr, Append(F.segs, s))), lens, 0, s.el, s.to)
        /\ PacketBytes(Filling(hdr, Append(F.segs, s))) = hdr + room - F.space + s.to
    BY <2>1, FillAdd
  <2>3. /\ RunTo(ps, lens, 0, s.el, s.to)
        /\ PacketBytes(q) = hdr + room - space + s.to
    BY <1>2, <1>5, <1>6, <1>8, <2>2
  <2>4. hdr + room - space + space = hdr + room
    OBVIOUS
  <2>5. QED BY <1>3, <1>4, <2>3, <2>4
<1>11. CutsOf(c, el, space, len, R) /\ c \in Seq(Stretch)
  BY <1>2, <1>3 DEF CutsOf
<1>12. PICK fr : fr = Fragments(hdr, c, len, last)
  OBVIOUS
<1>13. EachFragment(fr, hdr, c, len, last)
  BY <1>11, <1>12, FragmentFields
<1>14. EachOf(fr, c)
  BY <1>13 DEF EachFragment, EachOf
<1>15. T = ps \o fr
  BY <1>2, <1>3, <1>4, <1>5, <1>6, <1>8, <1>12 DEF CutOver
<1> HIDE DEF T
<1>16. RunTo(T, lens, start, el, len)
  BY <1>10, <1>11, <1>14, <1>15, RunThenCuts
<1>17. PICK m \in Nat : m = Len(c) /\ m > 0 /\ m = Len(fr)
  BY <1>11, <1>14, LenProperties DEF CutsOf, EachOf
<1>18. /\ Len(T) = n + 1 + m
       /\ \A k \in 1 .. n + 1 + m : T[k] = IF k <= n + 1 THEN ps[k] ELSE fr[k - (n + 1)]
  <2>1. fr \in Seq(PacketType) /\ ps \in Seq(PacketType)
    BY <1>9, <1>14 DEF EachOf
  <2>2. /\ Len(T) = Len(ps) + Len(fr)
        /\ \A k \in 1 .. Len(ps) + Len(fr) : T[k] = IF k <= Len(ps) THEN ps[k] ELSE fr[k - Len(ps)]
    BY ONLY <1>15, <2>1, ConcatProperties
  <2>3. Len(ps) = n + 1 /\ Len(fr) = m
    BY <1>9, <1>17
  <2>4. QED BY ONLY <2>2, <2>3
<1>19. ASSUME NEW k \in 1 .. m
       PROVE  PacketBytes(fr[k]) <= hdr + room /\ fr[k].marker = (last /\ k = m)
  <2>1. fr[k].hdr = hdr /\ fr[k].segs = <<c[k]>> /\ fr[k].marker = (last /\ c[k].to = len)
    BY <1>13, <1>17 DEF EachFragment
  <2>2. c[k] \in Stretch
    BY <1>11, <1>17, ElementOfSeq
  <2>3. PICK z \in Stretch : z = c[k] /\ z.to \in Nat /\ z.from \in Nat
    BY <2>2 DEF Stretch
  <2>4. PacketBytes(fr[k]) = hdr + z.to - z.from
    <3>1. fr[k].hdr \in Nat /\ fr[k].segs = <<z>>
      BY <2>1, <2>3
    <3>2. PacketBytes(fr[k]) = fr[k].hdr + z.to - z.from
      BY <3>1, BytesOfOne
    <3>3. QED BY <2>1, <3>2
  <2>5. z.to - z.from <= room
    <3>1. \A j \in 1 .. Len(c) : c[j].to - c[j].from <= R[c[j].from]
      BY <1>11 DEF CutsOf
    <3>2. c[k].to - c[k].from <= R[c[k].from]
      BY <1>17, <3>1
    <3>3. R[z.from] = room
      BY <2>3
    <3>4. QED BY ONLY <2>3, <3>2, <3>3
  <2>6. (c[k].to = len) = (k = m)
    <3>1. CASE k = m
      BY <1>11, <1>17, <3>1 DEF CutsOf
    <3>2. CASE k # m
      <4>1. k \in 1 .. Len(c) - 1
        BY <1>17, <3>2
      <4>2. c[k].to < len
        BY <1>11, <4>1 DEF CutsOf
      <4>3. c[k].to # len
        BY ONLY <2>3, <4>2, len \in Nat
      <4>4. QED BY <3>2, <4>3
    <3>3. QED BY <3>1, <3>2
  <2>7. PacketBytes(fr[k]) <= hdr + room
    BY SMTT(30), <2>3, <2>4, <2>5
  <2>8. QED BY <2>1, <2>6, <2>7
<1>20. ASSUME NEW k \in 1 .. n + 1
       PROVE  PacketBytes(ps[k]) <= hdr + room /\ ps[k].marker = FALSE
  <2>1. CASE k = n + 1
    BY <1>6, <1>9, <1>10, <2>1
  <2>2. CASE k # n + 1
    <3>1. k \in 1 .. n
      BY <2>2
    <3>2. ps[k] = F.sent[k] /\ k \in 1 .. Len(F.sent)
      BY <1>2, <1>7, <1>9, <3>1
    <3>3. QED BY ONLY <1>1, <3>2
  <2>3. QED BY <2>1, <2>2
<1>21. ASSUME NEW k \in 1 .. n + 1 + m
       PROVE  PacketBytes(T[k]) <= hdr + room /\ T[k].marker = (last /\ k = n + 1 + m)
  <2>1. CASE k <= n + 1
    <3>1. k \in 1 .. n + 1 /\ k # n + 1 + m
      BY <1>17, <2>1
    <3>2. T[k] = ps[k]
      BY <1>18, <2>1
    <3>3. QED BY <1>20, <3>1, <3>2
  <2>2. CASE ~(k <= n + 1)
    <3>1. PICK j \in 1 .. m : j = k - (n + 1) /\ ((j = m) = (k = n + 1 + m))
      BY <2>2
    <3>2. T[k] = fr[j]
      BY <1>18, <2>2, <3>1
    <3>3. QED BY <1>19, <3>1, <3>2
  <2>3. QED BY <2>1, <2>2
<1>22. \A k \in 1 .. Len(T) : PacketBytes(T[k]) <= hdr + room /\ T[k].marker = (last /\ k = Len(T))
  BY <1>18, <1>21
<1>23. RunsOver(T, hdr, room, lens, i, len, last)
  BY <1>3, <1>16, <1>22 DEF RunsOver
<1>24. QED BY <1>23 DEF T

LEMMA ConcatAppend ==
  ASSUME NEW s \in Seq(PacketType), NEW t \in Seq(PacketType), NEW x \in PacketType
  PROVE  Append(s \o t, x) = s \o Append(t, x)
<1>1. \A u \in Seq(PacketType) : Append(u, x) = u \o <<x>>
  OBVIOUS
<1>2. s \o t \in Seq(PacketType) /\ <<x>> \in Seq(PacketType)
  BY ConcatProperties
<1>3. (s \o t) \o <<x>> = s \o (t \o <<x>>)
  BY <1>2, ConcatAssociative
<1>4. QED BY <1>1, <1>2, <1>3

\* All fragments but the last one, and the last one.
LEMMA FragmentsFront ==
  ASSUME NEW c \in Seq(Stretch), c # << >>, NEW hdr \in Nat, NEW len, NEW no \in BOOLEAN, no = FALSE
  PROVE  /\ Fragments(hdr, Front(c), len, no) \in Seq(PacketType)
         /\ Fragments(hdr, c, len, no)
              = Append(Fragments(hdr, Front(c), len, no), Filling(hdr, <<Last(c)>>))
<1>1. PICK m \in Nat : m = Len(c) /\ m > 0
  BY EmptySeq
<1>2. PICK d : d = Front(c)
  OBVIOUS
<1>3. d \in Seq(Stretch) /\ Len(d) = m - 1 /\ \A k \in 1 .. m - 1 : d[k] = c[k]
  <2>1. \A k \in 1 .. m - 1 : c[k] \in Stretch
    BY <1>1, ElementOfSeq
  <2>2. PICK j \in Int : j = m - 1
    OBVIOUS
  <2>3. d = SubSeq(c, 1, j)
    BY <1>1, <1>2, <2>2 DEF Front
  <2>4. QED BY <1>1, <2>1, <2>2, <2>3
<1>4. PICK z \in Stretch : z = Last(c) /\ z = c[m]
  BY <1>1, ElementOfSeq DEF Last
<1>5. PICK fr : fr = Fragments(hdr, c, len, no)
  OBVIOUS
<1>6. PICK gr : gr = Fragments(hdr, d, len, no)
  OBVIOUS
<1>7. EachFragment(fr, hdr, c, len, no) /\ EachFragment(gr, hdr, d, len, no)
  BY <1>3, <1>5, <1>6, FragmentFields
<1>8. PICK p \in PacketType : p = Filling(hdr, <<z>>)
  <2>1. \A x \in Stretch : <<x>> \in Seq(Stretch)
    OBVIOUS
  <2>2. PICK one \in Seq(Stretch) : one = <<z>>
    BY <2>1
  <2>3. Filling(hdr, one) \in PacketType
    BY FillingFields
  <2>4. QED BY <2>2, <2>3
<1>9. fr \in Seq(PacketType) /\ Len(fr) = m /\ gr \in Seq(PacketType) /\ Len(gr) = m - 1
  BY <1>1, <1>3, <1>7 DEF EachFragment
<1>10. PICK hr : hr = Append(gr, p)
  OBVIOUS
<1>11. hr \in Seq(PacketType) /\ Len(hr) = m /\ hr[m] = p /\ \A k \in 1 .. m - 1 : hr[k] = gr[k]
  BY <1>1, <1>9, <1>10, AppendProperties
<1>12. ASSUME NEW k \in 1 .. m PROVE fr[k] = hr[k]
  <2>1. \A x : fr[k] = Packet(hdr, <<c[k]>>, << >>, FALSE)
    <3>1. fr[k] = Packet(hdr, <<c[k]>>, << >>, no /\ c[k].to = len)
      BY <1>1, <1>7 DEF EachFragment
    <3>2. (no /\ c[k].to = len) = FALSE
      OBVIOUS
    <3>3. QED BY ONLY <3>1, <3>2
  <2>2. CASE k = m
    BY <1>4, <1>8, <1>11, <2>1, <2>2 DEF Filling
  <2>3. CASE k # m
    <3>1. k \in 1 .. m - 1
      BY <2>3
    <3>2. gr[k] = Packet(hdr, <<d[k]>>, << >>, no /\ d[k].to = len)
      BY <1>3, <1>7, <3>1 DEF EachFragment
    <3>3. (no /\ d[k].to = len) = FALSE
      OBVIOUS
    <3>4. gr[k] = Packet(hdr, <<d[k]>>, << >>, FALSE)
      BY ONLY <3>2, <3>3
    <3>5. QED BY <1>3, <1>11, <2>1, <3>1, <3>4
  <2>4. QED BY <2>2, <2>3
<1>13. fr = hr
  BY <1>9, <1>11, <1>12, SeqEqual
<1>14. QED BY <1>2, <1>4, <1>5, <1>6, <1>8, <1>9, <1>10, <1>13

FillOver(F, hdr, room, i, c, len, last) ==
  [sent |-> CutOver(F, hdr, i, c, len, last), segs |-> << >>, space |-> room]

\* All of the rest has been sent.
LEMMA FilledOver ==
  ASSUME NEW hdr \in Nat, NEW room \in Nat \ {0}, NEW lens, NEW i \in Nat, Len(lens) \in Nat,
         i < Len(lens), NEW F, Filled(F, hdr, room, lens, i),
         NEW len \in Nat, len = lens[i + 1], NEW last \in BOOLEAN, last = (i + 1 = Len(lens)),
         NEW R, \A j \in Nat : R[j] = room, NEW c, CutsOf(c, i + 1, F.space, len, R)
  PROVE  Filled(FillOver(F, hdr, room, i, c, len, last), hdr, room, lens, i + 1)
<1>1. PICK T : T = CutOver(F, hdr, i, c, len, last)
  OBVIOUS
<1>2. /\ RunTo(T, lens, 0, i + 1, len)
      /\ \A k \in 1 .. Len(T) : /\ PacketBytes(T[k]) <= hdr + room
                                /\ T[k].marker = (last /\ k = Len(T))
  <2>1. RunsOver(T, hdr, room, lens, i, len, last)
    BY <1>1, FillCuts
  <2>2. QED BY ONLY <2>1 DEF RunsOver
<1>3. PICK G : G = FillOver(F, hdr, room, i, c, len, last)
  OBVIOUS
<1>4. G \in FillType /\ G.sent = T /\ G.segs = << >> /\ G.space = room
  <2>1. T \in Seq(PacketType)
    BY <1>2 DEF RunTo
  <2>2. << >> \in Seq(Stretch)
    OBVIOUS
  <2>3. PICK none \in Seq(Stretch) : none = << >>
    BY <2>2
  <2>4. G = [sent |-> T, segs |-> none, space |-> room]
    BY <1>1, <1>3, <2>3 DEF FillOver
  <2>5. G \in FillType /\ G.sent = T /\ G.segs = none /\ G.space = room
    BY ONLY room \in Nat \ {0}, <2>1, <2>4, FillRecord
  <2>6. QED BY <2>3, <2>5
<1>5. \A k \in 1 .. Len(G.sent) :
        /\ PacketBytes(G.sent[k]) <= hdr + room
        /\ G.sent[k].marker = (G.segs = << >> /\ i + 1 = Len(lens) /\ k = Len(G.sent))
  BY <1>2, <1>4
<1>6. i + 1 > 0 /\ RunTo(G.sent, lens, 0, i + 1, lens[i + 1])
  BY <1>2, <1>4
<1>7. Filled(G, hdr, room, lens, i + 1)
  BY <1>4, <1>5, <1>6 DEF Filled
<1>8. QED BY <1>3, <1>7

FillRest(F, hdr, room, i, c, len) ==
  [sent |-> Append(F.sent, Filling(hdr, Append(F.segs, Seg(i + 1, 0, F.space))))
              \o Fragments(hdr, Front(c), len, FALSE),
   segs |-> <<Last(c)>>,
   space |-> room - (Last(c).to - Last(c).from)]

\* The last fragment is kept, to be filled up.
LEMMA FilledRest ==
  ASSUME NEW hdr \in Nat, NEW room \in Nat \ {0}, NEW lens, NEW i \in Nat, Len(lens) \in Nat,
         i < Len(lens), NEW F, Filled(F, hdr, room, lens, i),
         NEW len \in Nat, len = lens[i + 1],
         NEW R, \A j \in Nat : R[j] = room, NEW c, CutsOf(c, i + 1, F.space, len, R)
  PROVE  Filled(FillRest(F, hdr, room, i, c, len), hdr, room, lens, i + 1)
<1>1. PICK no \in BOOLEAN : no = FALSE
  OBVIOUS
<1>2. PICK T : T = CutOver(F, hdr, i, c, len, no)
  OBVIOUS
<1>3. RunsOver(T, hdr, room, lens, i, len, no)
  BY SMTT(30), <1>2, FillCuts
<1>4. c \in Seq(Stretch) /\ c # << >>
  BY LenProperties DEF CutsOf
<1>5. PICK z \in Stretch : z = Last(c) /\ z.to \in Nat /\ z.from \in Nat /\ z.to - z.from \in 0 .. room
  <2>1. PICK z \in Stretch : z = Last(c) /\ z = c[Len(c)]
    BY <1>4, EmptySeq, ElementOfSeq DEF Last
  <2>2. z.to \in Nat /\ z.from \in Nat
    BY DEF Stretch
  <2>3. Len(c) \in 1 .. Len(c)
    BY <1>4, EmptySeq
  <2>4. c[Len(c)].from < c[Len(c)].to /\ c[Len(c)].to - c[Len(c)].from <= R[c[Len(c)].from]
    BY <2>3 DEF CutsOf
  <2>5. R[z.from] = room
    BY <2>2
  <2>6. z.from < z.to /\ z.to - z.from <= room
    BY ONLY <2>1, <2>4, <2>5
  <2>7. QED BY <2>1, <2>2, <2>6
<1>6. PICK space \in Nat : space = room - (z.to - z.from)
  BY <1>5
<1>7. PICK one \in Seq(Stretch) : one = <<z>> /\ one # << >>
  <2>1. \A x \in Stretch : <<x>> \in Seq(Stretch) /\ <<x>> # << >>
    OBVIOUS
  <2>2. QED BY <2>1
<1>8. PICK q \in PacketType : q = Filling(hdr, one) /\ q.hdr = hdr /\ q.segs = one
  BY ONLY hdr \in Nat, one \in Seq(Stretch), FillingFields
<1>9. PICK gr \in Seq(PacketType) : /\ gr = Fragments(hdr, Front(c), len, FALSE)
                                    /\ Fragments(hdr, c, len, no) = Append(gr, q)
  <2>1. /\ Fragments(hdr, Front(c), len, no) \in Seq(PacketType)
        /\ Fragments(hdr, c, len, no)
             = Append(Fragments(hdr, Front(c), len, no), Filling(hdr, <<Last(c)>>))
    BY ONLY hdr \in Nat, no \in BOOLEAN, <1>1, <1>4, FragmentsFront
  <2>2. QED BY ONLY <1>1, <1>5, <1>7, <1>8, <2>1
<1>10. PICK ps \in Seq(PacketType) :
         ps = Append(F.sent, Filling(hdr, Append(F.segs, Seg(i + 1, 0, F.space))))
  <2>1. PICK old \in Seq(PacketType), segs \in Seq(Stretch), sp \in Nat :
          old = F.sent /\ segs = F.segs /\ sp = F.space
    BY FillFields DEF Filled
  <2>2. PICK el \in Nat, start \in Nat : el = i + 1 /\ start = 0
    OBVIOUS
  <2>3. PICK s \in Stretch : s = Seg(el, start, sp)
    BY ONLY el \in Nat, start \in Nat, sp \in Nat, SegFields
  <2>4. PICK more \in Seq(Stretch) : more = Append(segs, s)
    BY AppendProperties
  <2>5. PICK p \in PacketType : p = Filling(hdr, more)
    BY ONLY hdr \in Nat, more \in Seq(Stretch), FillingFields
  <2>6. Append(old, p) \in Seq(PacketType)
    BY AppendProperties
  <2>7. QED BY <2>1, <2>2, <2>3, <2>4, <2>5, <2>6
<1>11. PICK sent \in Seq(PacketType) : sent = ps \o gr
  BY ConcatProperties
<1>12. T = Append(sent, q)
  <2>1. T = ps \o Append(gr, q)
    BY <1>2, <1>9, <1>10 DEF CutOver
  <2>2. QED BY <1>11, <2>1, ConcatAppend
<1>13. PICK G : G = FillRest(F, hdr, room, i, c, len)
  OBVIOUS
<1>14. G \in FillType /\ G.sent = sent /\ G.segs = one /\ G.space = space
  <2>1. G = [sent |-> sent, segs |-> one, space |-> space]
    BY <1>5, <1>6, <1>7, <1>9, <1>10, <1>11, <1>13 DEF FillRest
  <2>2. QED BY ONLY sent \in Seq(PacketType), one \in Seq(Stretch), space \in Nat, <2>1, FillRecord
<1>15. PICK n \in Nat : n = Len(sent)
  BY LenProperties
<1>16. T \in Seq(PacketType) /\ Len(T) = n + 1 /\ T[n + 1] = q /\ \A k \in 1 .. n : T[k] = sent[k]
  BY <1>12, <1>15, OneMore
<1>17. ASSUME NEW k \in 1 .. n PROVE PacketBytes(sent[k]) <= hdr + room /\ sent[k].marker = FALSE
  <2>1. k \in 1 .. Len(T) /\ T[k] = sent[k]
    BY <1>16
  <2>2. PacketBytes(T[k]) <= hdr + room /\ T[k].marker = (no /\ k = Len(T))
    BY ONLY <1>3, <2>1 DEF RunsOver
  <2>3. QED BY <1>1, <2>1, <2>2
<1>18. \A k \in 1 .. Len(G.sent) :
         /\ PacketBytes(G.sent[k]) <= hdr + room
         /\ G.sent[k].marker = (G.segs = << >> /\ i + 1 = Len(lens) /\ k = Len(G.sent))
  BY <1>7, <1>14, <1>15, <1>17
<1>19. i + 1 > 0 /\ RunTo(Append(G.sent, Filling(hdr, G.segs)), lens, 0, i + 1, lens[i + 1])
  BY <1>3, <1>8, <1>12, <1>14 DEF RunsOver
<1>20. PacketBytes(Filling(hdr, G.segs)) = hdr + room - G.space
  <2>1. q.hdr \in Nat /\ q.segs = <<z>>
    BY <1>7, <1>8
  <2>2. PacketBytes(q) = q.hdr + z.to - z.from
    BY <2>1, BytesOfOne
  <2>3. PacketBytes(q) = hdr + room - space
    BY <1>5, <1>6, <1>8, <2>2
  <2>4. QED BY <1>8, <1>14, <2>3
<1>21. Filled(G, hdr, room, lens, i + 1)
  BY <1>7, <1>14, <1>18, <1>19, <1>20 DEF Filled
<1>22. QED BY <1>13, <1>21

LEMMA Mpeg4Filled ==
  ASSUME NEW max \in Nat \ {0}, NEW lens, NEW i \in Nat, Len(lens) \in Nat, i < Len(lens),
         NEW F, Filled(F, 0, max, lens, i), NEW len \in Nat, len = lens[i + 1]
  PROVE  Filled(Mpeg4Fill(F, i + 1, len, max), 0, max, lens, i + 1)
<1>1. PICK hdr \in Nat : hdr = 0
  OBVIOUS
<1>2. Filled(F, hdr, max, lens, i)
  BY <1>1
<1>3. PICK space \in Nat : space = F.space
  BY FillFields DEF Filled
<1>4. CASE len <= space
  <2>1. PICK G : G = [F EXCEPT !.segs = Append(@, Seg(i + 1, 0, len)), !.space = @ - len]
    OBVIOUS
  <2>2. Filled(G, hdr, max, lens, i + 1)
    BY <1>2, <1>3, <1>4, <2>1, FillFits
  <2>3. Mpeg4Fill(F, i + 1, len, max) = G
    BY <1>3, <1>4, <2>1 DEF Mpeg4Fill
  <2>4. QED BY <1>1, <2>2, <2>3
<1>5. CASE ~(len <= space)
  <2>1. PICK R : R = [j \in Nat |-> max]
    OBVIOUS
  <2>2. R \in Rooms /\ \A j \in Nat : R[j] = max
    BY <2>1, SameRoom
  <2>3. PICK el \in Nat : el = i + 1
    OBVIOUS
  <2>4. PICK c : c = Cut(el, space, len, R)
    OBVIOUS
  <2>5. space < len
    BY <1>5
  <2>6. CutsOf(c, el, space, len, R)
    BY ONLY el \in Nat, len \in Nat, space \in Nat, <2>2, <2>4, <2>5, CutIsWhole
  <2>7. CutsOf(c, i + 1, F.space, len, R)
    BY <1>3, <2>3, <2>6
  <2>8. Filled(FillRest(F, hdr, max, i, c, len), hdr, max, lens, i + 1)
    BY <1>2, <2>2, <2>7, FilledRest
  <2>9. Mpeg4Fill(F, i + 1, len, max) = FillRest(F, hdr, max, i, c, len)
    BY <1>1, <1>3, <1>5, <2>1, <2>3, <2>4 DEF Mpeg4Fill, FillRest, Filling
  <2>10. QED BY <1>1, <2>8, <2>9
<1>6. QED BY <1>4, <1>5

LEMMA SameBytes ==
  ASSUME NEW p, NEW q, p.hdr = q.hdr, p.segs = q.segs
  PROVE  PacketBytes(p) = PacketBytes(q)
BY DEF PacketBytes

\* All pieces have been filled in, the last packet is sent with the marker.
LEMMA FillEnd ==
  ASSUME fmt \in {"mpeg4", "mpv"}, NEW hdr \in Nat, NEW room \in Nat, NEW lens, Len(lens) \in Nat,
         NEW F, Filled(F, hdr, room, lens, Len(lens)), F.segs # << >>,
         Pieces(fmt, out) = lens, NEW max, max = hdr + room
  PROVE  Complete(Append(F.sent, Packet(hdr, F.segs, << >>, TRUE)), max)
<1>1. PICK old \in Seq(PacketType), segs \in Seq(Stretch), space \in Nat :
        old = F.sent /\ segs = F.segs /\ space = F.space
  BY FillFields DEF Filled
<1>2. PICK p \in PacketType : p = Filling(hdr, segs) /\ p.hdr = hdr /\ p.segs = segs
  BY ONLY hdr \in Nat, segs \in Seq(Stretch), FillingFields
<1>3. PICK yes \in BOOLEAN : yes = TRUE
  OBVIOUS
<1>4. PICK q \in PacketType : /\ q = Packet(hdr, segs, << >>, yes)
                              /\ q.hdr = hdr /\ q.segs = segs /\ q.marker = yes
  BY ONLY hdr \in Nat, segs \in Seq(Stretch), yes \in BOOLEAN, PlainPacket
<1>5. PICK n \in Nat : n = Len(old)
  BY LenProperties
<1>6. PICK ps : ps = Append(old, p)
  OBVIOUS
<1>7. PICK qs : qs = Append(old, q)
  OBVIOUS
<1>8. /\ ps \in Seq(PacketType) /\ Len(ps) = n + 1 /\ ps[n + 1] = p
      /\ \A k \in 1 .. n : ps[k] = old[k]
  BY ONLY old \in Seq(PacketType), p \in PacketType, n \in Nat, <1>5, <1>6, OneMore
<1>9. /\ qs \in Seq(PacketType) /\ Len(qs) = n + 1 /\ qs[n + 1] = q
      /\ \A k \in 1 .. n : qs[k] = old[k]
  BY ONLY old \in Seq(PacketType), q \in PacketType, n \in Nat, <1>5, <1>7, OneMore
<1>10. PICK start, to : start = 0 /\ to = lens[Len(lens)]
  OBVIOUS
<1>11. RunTo(ps, lens, start, Len(lens), to) /\ PacketBytes(p) = hdr + room - space
  BY <1>1, <1>2, <1>6, <1>10 DEF Filled
<1>12. RunTo(qs, lens, start, Len(lens), to)
  <2>1. \A k \in 1 .. Len(ps) : qs[k].segs = ps[k].segs
    <3>1. ASSUME NEW k \in 1 .. n + 1 PROVE qs[k].segs = ps[k].segs
      <4>1. CASE k = n + 1
        BY <1>2, <1>4, <1>8, <1>9, <4>1
      <4>2. CASE k # n + 1
        <5>1. k \in 1 .. n
          BY <4>2
        <5>2. QED BY <1>8, <1>9, <5>1
      <4>3. QED BY <4>1, <4>2
    <3>2. QED BY <1>8, <3>1
  <2>2. QED BY ONLY <1>8, <1>9, <1>11, <2>1, RunSame
<1>13. Reassembles(qs, lens)
  <2>1. start = IF fmt = "h264" /\ Len(qs) > 1 THEN 1 ELSE 0
    BY <1>10
  <2>2. QED BY <1>10, <1>12, <2>1, RunIsWhole
<1>14. ASSUME NEW k \in 1 .. n + 1
       PROVE  PacketBytes(qs[k]) <= max /\ qs[k].marker = (k = n + 1)
  <2>1. CASE k = n + 1
    <3>1. PacketBytes(q) = hdr + room - space
      BY <1>2, <1>4, <1>11, SameBytes
    <3>2. qs[k] = q
      BY <1>9, <2>1
    <3>3. PacketBytes(qs[k]) = hdr + room - space
      BY <3>1, <3>2
    <3>4. qs[k].marker = TRUE
      BY <1>3, <1>4, <3>2
    <3>5. PacketBytes(qs[k]) <= max
      BY <3>3
    <3>6. QED BY <2>1, <3>4, <3>5
  <2>2. CASE k # n + 1
    <3>1. k \in 1 .. n
      BY <2>2
    <3>2. qs[k] = F.sent[k] /\ k \in 1 .. Len(F.sent)
      BY <1>1, <1>5, <1>9, <3>1
    <3>3. \A j \in 1 .. Len(F.sent) : PacketBytes(F.sent[j]) <= hdr + room /\ F.sent[j].marker = FALSE
      BY DEF Filled
    <3>4. PacketBytes(qs[k]) <= hdr + room /\ qs[k].marker = FALSE
      BY ONLY <3>2, <3>3
    <3>5. QED BY <2>2, <3>4
  <2>3. QED BY <2>1, <2>2
<1>15. Complete(qs, max)
  <2>1. fmt # "audio" /\ Above = 0
    BY DEF Above
  <2>2. \A k \in 1 .. Len(qs) : /\ PacketBytes(qs[k]) <= max + Above
                                /\ qs[k].marker = (fmt # "audio" /\ k = Len(qs))
    BY <1>9, <1>14, <2>1
  <2>3. QED BY <1>9, <1>13, <2>2 DEF Complete
<1>16. QED BY <1>1, <1>3, <1>4, <1>7, <1>15

LEMMA Mpeg4Keeps ==
  ASSUME NEW F, F.segs \in Seq(Stretch), NEW i, NEW len \in Nat, NEW max
  PROVE  Mpeg4Fill(F, i, len, max).segs # << >>
<1>1. CASE len <= F.space
  <2>1. Append(F.segs, Seg(i, 0, len)) # << >>
    BY SMTT(30) DEF Seg, Stretch
  <2>2. QED BY <1>1, <2>1 DEF Mpeg4Fill
<1>2. CASE ~(len <= F.space)
  BY <1>2 DEF Mpeg4Fill
<1>3. QED BY <1>1, <1>2

LEMMA Mpeg4Complete ==
  ASSUME fmt = "mpeg4", NEW E, out.iov \in Seq(E),
         \A i \in 1 .. Len(out.iov) : out.iov[i].len \in Nat, NEW max \in Nat \ {0}
  PROVE  Complete(Mpeg4Send(out, max), max)
<1>1. PICK n \in Nat : n = Len(out.iov)
  BY LenProperties
<1> DEFINE lens == [i \in 1 .. n |-> out.iov[i].len]
           x == [sent |-> << >>, segs |-> << >>, space |-> max]
           Def(g) == [i \in 0 .. n |->
                        IF i = 0 THEN x ELSE Mpeg4Fill(g[i - 1], i, out.iov[i].len, max)]
           S == [i \in 0 .. n |-> {F \in FillType : /\ Filled(F, 0, max, lens, i)
                                                    /\ i > 0 => F.segs # << >>}]
           f == [i \in 1 .. n |-> [F \in S[i - 1] |-> Mpeg4Fill(F, i, out.iov[i].len, max)]]
<1>2. lens \in Seq(Nat) /\ Len(lens) = n /\ Pieces(fmt, out) = lens
  <2>1. DOMAIN out.iov = 1 .. n
    BY <1>1, LenProperties
  <2>2. QED BY <1>1, <2>1 DEF Pieces
<1>3. \A i \in 1 .. n : lens[i] = out.iov[i].len /\ lens[i] \in Nat
  BY <1>1
<1> HIDE DEF lens
<1>4. x \in S[0]
  <2>1. PICK h \in Nat : h = 0
    OBVIOUS
  <2>2. Filled(x, h, max, lens, 0)
    BY <2>1, NothingFilled
  <2>3. x \in FillType
    BY <2>2 DEF Filled
  <2> HIDE DEF x
  <2>4. QED BY <2>1, <2>2, <2>3
<1>5. ASSUME NEW i \in 0 .. n - 1, NEW F \in S[i]
      PROVE  Mpeg4Fill(F, i + 1, out.iov[i + 1].len, max) \in S[i + 1]
  <2>1. F \in FillType /\ Filled(F, 0, max, lens, i)
    OBVIOUS
  <2> HIDE DEF S
  <2>2. PICK len \in Nat : len = out.iov[i + 1].len /\ len = lens[i + 1]
    BY <1>3
  <2>3. i \in Nat /\ Len(lens) \in Nat /\ i < Len(lens)
    BY <1>2
  <2>4. PICK G : G = Mpeg4Fill(F, i + 1, len, max)
    OBVIOUS
  <2>5. Filled(G, 0, max, lens, i + 1)
    BY <2>1, <2>2, <2>3, <2>4, Mpeg4Filled
  <2>6. G \in FillType
    BY <2>5 DEF Filled
  <2>7. G.segs # << >>
    <3>1. PICK el : el = i + 1
      OBVIOUS
    <3>2. F.segs \in Seq(Stretch)
      BY <2>1, FillFields
    <3>3. QED BY <2>4, <3>1, <3>2, Mpeg4Keeps
  <2>8. i + 1 \in 0 .. n
    OBVIOUS
  <2>9. G \in S[i + 1]
    BY <2>5, <2>6, <2>7, <2>8 DEF S
  <2>10. QED BY <2>2, <2>4, <2>9
<1>6. Stages(n, S, x, f)
  <2>1. ASSUME NEW i \in 1 .. n, NEW F \in S[i - 1] PROVE f[i][F] \in S[i]
    <3>1. f[i][F] = Mpeg4Fill(F, i, out.iov[i].len, max)
      BY <2>1
    <3>2. PICK j \in 0 .. n - 1 : j = i - 1 /\ j + 1 = i
      OBVIOUS
    <3> HIDE DEF S, f
    <3>3. Mpeg4Fill(F, j + 1, out.iov[j + 1].len, max) \in S[j + 1]
      BY <1>5, <3>2
    <3>4. QED BY <3>1, <3>2, <3>3
  <2> HIDE DEF S, f, x
  <2>2. QED BY <1>4, <2>1 DEF Stages
<1>7. \A i \in 1 .. n : \A F \in S[i - 1] : f[i][F] = Mpeg4Fill(F, i, out.iov[i].len, max)
  OBVIOUS
<1> HIDE DEF S, f, x
<1>8. PICK g : Computes(g, n, S, x, f)
  BY <1>6, InStages DEF Computed
<1>9. g = Def(g)
  <2>1. ASSUME NEW i \in 0 .. n
        PROVE  g[i] = IF i = 0 THEN x ELSE Mpeg4Fill(g[i - 1], i, out.iov[i].len, max)
    <3>1. CASE i = 0
      BY <1>8, <3>1 DEF Computes
    <3>2. CASE i # 0
      <4>1. i \in 1 .. n /\ i - 1 \in 0 .. n
        BY <3>2
      <4>2. g[i] = f[i][g[i - 1]] /\ g[i - 1] \in S[i - 1]
        BY <1>8, <4>1 DEF Computes
      <4>3. QED BY <1>7, <3>2, <4>1, <4>2
    <3>3. QED BY <3>1, <3>2
  <2>2. g = [i \in 0 .. n |-> g[i]]
    BY <1>8 DEF Computes
  <2>3. QED BY ONLY <2>1, <2>2
<1> DEFINE h == CHOOSE h : h = Def(h)
<1>10. Mpeg4Send(out, max) = Append(h[n].sent, Packet(0, h[n].segs, << >>, TRUE))
  BY <1>1 DEF Mpeg4Send, x
<1> HIDE DEF Def
<1>11. h = Def(h)
  BY <1>9
<1> HIDE DEF h
<1>12. h[0] = x /\ \A i \in 0 .. n - 1 : h[i + 1] = Mpeg4Fill(h[i], i + 1, out.iov[i + 1].len, max)
  <2>1. \A i \in 0 .. n : h[i] = IF i = 0 THEN x ELSE Mpeg4Fill(h[i - 1], i, out.iov[i].len, max)
    BY <1>11 DEF Def
  <2>2. ASSUME NEW i \in 0 .. n - 1
        PROVE  h[i + 1] = Mpeg4Fill(h[i], i + 1, out.iov[i + 1].len, max)
    <3>1. i + 1 \in 0 .. n /\ i + 1 # 0 /\ (i + 1) - 1 = i
      OBVIOUS
    <3>2. QED BY ONLY <2>1, <3>1
  <2>3. QED BY <2>1, <2>2
<1>13. \A i \in 0 .. n : h[i] \in S[i]
  <2>1. \A i \in 0 .. n - 1 : h[i] \in S[i] => h[i + 1] \in S[i + 1]
    BY <1>5, <1>12
  <2>2. h[0] \in S[0]
    BY <1>4, <1>12
  <2>3. QED BY <2>1, <2>2, StagesHold
<1>14. PICK F : F = h[n]
  OBVIOUS
<1>15. Filled(F, 0, max, lens, n) /\ (n > 0 => F.segs # << >>)
  <2>1. n \in 0 .. n
    OBVIOUS
  <2>2. F \in S[n]
    BY <1>13, <1>14, <2>1
  <2>3. QED BY <2>1, <2>2 DEF S
<1>16. CASE n > 0
  <2>1. PICK hdr \in Nat : hdr = 0
    OBVIOUS
  <2>2. Filled(F, hdr, max, lens, Len(lens)) /\ F.segs # << >>
    <3>1. F.segs # << >>
      BY <1>15, <1>16
    <3>2. Filled(F, hdr, max, lens, Len(lens))
      BY ONLY <1>2, <1>15, <2>1, Zenon
    <3>3. QED BY <3>1, <3>2
  <2>3. max = hdr + max /\ Len(lens) \in Nat
    BY <1>2, <2>1
  <2>4. Complete(Append(F.sent, Packet(hdr, F.segs, << >>, TRUE)), max)
    BY <1>2, <2>2, <2>3, FillEnd
  <2>5. QED BY <1>10, <1>14, <2>1, <2>4
<1>17. CASE n = 0
  <2>1. F.sent = << >> /\ F.segs = << >>
    BY <1>15, <1>17 DEF Filled
  <2>2. PICK hdr \in Nat, none \in Seq(Stretch), yes \in BOOLEAN : hdr = 0 /\ none = << >> /\ yes = TRUE
    <3>1. << >> \in Seq(Stretch)
      OBVIOUS
    <3>2. QED BY <3>1
  <2>3. PICK p \in PacketType : /\ p = Packet(hdr, none, << >>, yes)
                                /\ p.hdr = hdr /\ p.segs = none /\ p.marker = yes
    BY ONLY hdr \in Nat, none \in Seq(Stretch), yes \in BOOLEAN, PlainPacket
  <2>4. PacketBytes(p) = 0
    <3>1. p.hdr \in Nat /\ p.segs = << >>
      BY <2>2, <2>3
    <3>2. PacketBytes(p) = p.hdr
      BY <3>1, NoBytes
    <3>3. QED BY <2>2, <2>3, <3>2
  <2>5. PICK ps : ps = <<p>>
    OBVIOUS
  <2>6. ps \in Seq(PacketType) /\ Len(ps) = 1 /\ DOMAIN ps = 1 .. 1 /\ ps[1] = p
    BY <2>5
  <2>7. Mpeg4Send(out, max) = ps
    <3>1. Append(<< >>, p) = <<p>>
      OBVIOUS
    <3>2. Mpeg4Send(out, max) = Append(<< >>, p)
      BY <1>10, <1>14, <2>1, <2>2, <2>3
    <3>3. QED BY <2>5, <3>1, <3>2
  <2>8. lens = << >>
    BY <1>2, <1>17, EmptySeq
  <2>9. Reassembles(ps, lens)
    <3>1. ASSUME NEW i \in DOMAIN ps PROVE ps[i].segs = << >>
      <4>1. i = 1
        BY <2>6, <3>1
      <4>2. p.segs = << >>
        BY ONLY <2>2, <2>3, Zenon
      <4>3. QED BY ONLY <2>6, <4>1, <4>2, Zenon
    <3>2. QED BY <2>8, <3>1 DEF Reassembles
  <2>10. fmt # "audio" /\ Above = 0
    BY DEF Above
  <2>11. \A k \in 1 .. Len(ps) : /\ PacketBytes(ps[k]) <= max + Above
                                 /\ ps[k].marker = (fmt # "audio" /\ k = Len(ps))
    <3>1. p.marker = TRUE
      BY <2>2, <2>3
    <3>2. PacketBytes(p) <= max + Above
      BY <2>4, <2>10
    <3>3. ASSUME NEW k \in 1 .. Len(ps)
          PROVE  PacketBytes(ps[k]) <= max + Above /\ ps[k].marker = (fmt # "audio" /\ k = Len(ps))
      <4>1. k = 1 /\ k = Len(ps)
        BY <2>6, <3>3
      <4>2. ps[k].marker = TRUE
        BY ONLY <2>6, <3>1, <4>1, Zenon
      <4>3. PacketBytes(ps[k]) <= max + Above
        BY ONLY <2>6, <3>2, <4>1, Zenon
      <4>4. ps[k].marker = (fmt # "audio" /\ k = Len(ps))
        BY ONLY <2>10, <4>1, <4>2, Zenon
      <4>5. QED BY <4>3, <4>4
    <3>4. QED BY <3>3
  <2>12. Complete(ps, max)
    BY <1>2, <2>6, <2>9, <2>11 DEF Complete
  <2>13. QED BY <2>7, <2>12
<1>18. QED BY <1>16, <1>17

\* A block is filled in, after what it does not fit behind has been sent.
LEMMA MpvFilled ==
  ASSUME NEW hdr \in Nat, hdr = MpvHeader, NEW room \in Nat, room >= 4, NEW lens, NEW i \in Nat,
         Len(lens) \in Nat, i < Len(lens), NEW F, Filled(F, hdr, room, lens, i),
         NEW len \in Nat, len = lens[i + 1]
  PROVE  Filled(MpvFill(MpvFlush(F, len, room), i + 1, len, room, i + 1 = Len(lens)),
                hdr, room, lens, i + 1)
<1>1. PICK H : H = MpvFlush(F, len, room)
  OBVIOUS
<1>2. Filled(H, hdr, room, lens, i) /\ (len <= room => len <= H.space)
  <2>1. PICK space \in Nat : space = F.space
    BY FillFields DEF Filled
  <2>2. CASE space >= (IF len > room THEN 4 ELSE len)
    BY <1>1, <2>1, <2>2 DEF MpvFlush
  <2>3. CASE ~(space >= (IF len > room THEN 4 ELSE len))
    <3>1. F.segs # << >>
      <4>1. F.segs = << >> => F.space = room
        BY DEF Filled
      <4>2. space # room
        BY <2>3
      <4>3. QED BY <2>1, <4>1, <4>2
    <3>2. Filled(Flushed(F, hdr, room), hdr, room, lens, i)
      BY <3>1, FillFlush
    <3>3. H = Flushed(F, hdr, room)
      BY <1>1, <2>1, <2>3 DEF MpvFlush, Flushed, Filling
    <3>4. Flushed(F, hdr, room).space = room
      BY DEF Flushed
    <3>5. QED BY <3>2, <3>3, <3>4
  <2>4. QED BY <2>2, <2>3
<1>3. PICK last \in BOOLEAN : last = (i + 1 = Len(lens))
  OBVIOUS
<1>4. PICK space \in Nat : space = H.space
  BY <1>2, FillFields DEF Filled
<1>5. CASE len <= space
  <2>1. PICK G : G = [H EXCEPT !.segs = Append(@, Seg(i + 1, 0, len)), !.space = @ - len]
    OBVIOUS
  <2>2. len <= H.space
    BY <1>4, <1>5
  <2>3. Filled(G, hdr, room, lens, i + 1)
    BY <1>2, <2>1, <2>2, FillFits
  <2>4. MpvFill(H, i + 1, len, room, last) = G
    BY <2>1, <2>2 DEF MpvFill
  <2>5. QED BY <1>1, <1>3, <2>3, <2>4
<1>6. CASE ~(len <= space)
  <2>1. PICK R : R = [j \in Nat |-> room]
    OBVIOUS
  <2>2. PICK r \in Nat \ {0} : r = room
    OBVIOUS
  <2>3. R \in Rooms /\ \A j \in Nat : R[j] = room
    BY <2>1, <2>2, SameRoom
  <2>4. PICK el \in Nat : el = i + 1
    OBVIOUS
  <2>5. PICK c : c = Cut(el, space, len, R)
    OBVIOUS
  <2>6. space < len
    BY <1>6
  <2>7. CutsOf(c, el, space, len, R)
    BY ONLY el \in Nat, len \in Nat, space \in Nat, <2>3, <2>5, <2>6, CutIsWhole
  <2>8. CutsOf(c, i + 1, H.space, len, R)
    BY <1>4, <2>4, <2>7
  <2>9. \A j \in Nat : R[j] = r
    BY <2>2, <2>3
  <2>10. Filled(FillOver(H, hdr, r, i, c, len, last), hdr, r, lens, i + 1)
    BY <1>2, <1>3, <2>2, <2>8, <2>9, FilledOver
  <2>11. MpvFill(H, i + 1, len, room, last) = FillOver(H, hdr, r, i, c, len, last)
    <3>1. ~(len <= H.space)
      BY <1>4, <1>6
    <3>2. c = Cut(i + 1, H.space, len, [j \in Nat |-> room])
      BY <1>4, <2>1, <2>4, <2>5
    <3>3. QED BY <2>2, <3>1, <3>2 DEF MpvFill, FillOver, CutOver, Filling
  <2>12. QED BY <1>1, <1>3, <2>2, <2>10, <2>11
<1>7. QED BY <1>5, <1>6

\* Nothing is left to be sent: the last packet has gone, if there is one.
LEMMA FillDone ==
  ASSUME fmt \in {"mpeg4", "mpv"}, NEW hdr \in Nat, NEW room \in Nat, NEW lens \in Seq(Nat),
         NEW F, Filled(F, hdr, room, lens, Len(lens)), F.segs = << >>,
         Pieces(fmt, out) = lens, NEW max, max = hdr + room
  PROVE  Complete(F.sent, max)
<1>1. PICK n \in Nat : n = Len(lens)
  BY LenProperties
<1>2. PICK ps \in Seq(PacketType) : ps = F.sent
  BY FillFields DEF Filled
<1>3. \A k \in 1 .. Len(ps) : PacketBytes(ps[k]) <= hdr + room /\ ps[k].marker = (k = Len(ps))
  BY <1>2 DEF Filled
<1>4. Reassembles(ps, lens)
  <2>1. CASE n = 0
    <3>1. ps = << >>
      BY <1>1, <1>2, <2>1 DEF Filled
    <3>2. lens = << >>
      BY <1>1, <2>1, EmptySeq
    <3>3. \A k \in DOMAIN ps : ps[k].segs = << >>
      BY <3>1
    <3>4. QED BY <3>2, <3>3 DEF Reassembles
  <2>2. CASE n # 0
    <3>1. PICK start, to : start = 0 /\ to = lens[Len(lens)]
      OBVIOUS
    <3>2. RunTo(ps, lens, start, Len(lens), to)
      BY <1>1, <1>2, <2>2, <3>1 DEF Filled
    <3>3. start = IF fmt = "h264" /\ Len(ps) > 1 THEN 1 ELSE 0
      BY <3>1
    <3>4. QED BY <3>1, <3>2, <3>3, RunIsWhole
  <2>3. QED BY <2>1, <2>2
<1>5. fmt # "audio" /\ Above = 0
  BY DEF Above
<1>6. \A k \in 1 .. Len(ps) : /\ PacketBytes(ps[k]) <= max + Above
                              /\ ps[k].marker = (fmt # "audio" /\ k = Len(ps))
  <2>1. max + Above = hdr + room
    BY <1>5
  <2>2. \A k \in 1 .. Len(ps) : PacketBytes(ps[k]) <= max + Above
    BY <1>3, <2>1
  <2>3. \A k \in 1 .. Len(ps) : ps[k].marker = (fmt # "audio" /\ k = Len(ps))
    BY <1>3, <1>5
  <2>4. QED BY <2>2, <2>3
<1>7. QED BY <1>2, <1>4, <1>6 DEF Complete

\* The sequence header of an I picture is what the first packet begins with.
LEMMA MpvBegins ==
  ASSUME NEW hdr \in Nat, NEW room \in Nat, NEW lens, Len(lens) \in Nat, 0 < Len(lens),
         NEW len \in Nat, len = lens[1], len <= room
  PROVE  Filled([sent |-> << >>, segs |-> <<Seg(1, 0, len)>>, space |-> room - len],
                hdr, room, lens, 1)
<1>1. PICK x : x = [sent |-> << >>, segs |-> << >>, space |-> room]
  OBVIOUS
<1>2. PICK i \in Nat : i = 0
  OBVIOUS
<1>3. Filled(x, hdr, room, lens, i) /\ x.space = room
  BY <1>1, <1>2, NothingFilled
<1>4. PICK G : G = [x EXCEPT !.segs = Append(@, Seg(i + 1, 0, len)), !.space = @ - len]
  OBVIOUS
<1>5. i < Len(lens) /\ len = lens[i + 1] /\ len <= x.space
  BY <1>2, <1>3
<1>6. Filled(G, hdr, room, lens, i + 1)
  BY <1>3, <1>4, <1>5, FillFits
<1>7. G = [sent |-> << >>, segs |-> <<Seg(1, 0, len)>>, space |-> room - len]
  <2>1. PICK s : s = Seg(i + 1, 0, len) /\ s = Seg(1, 0, len)
    BY <1>2
  <2>2. Append(<< >>, s) = <<s>>
    OBVIOUS
  <2>3. G = [x EXCEPT !.segs = Append(<< >>, s), !.space = room - len]
    BY <1>1, <1>4, <2>1
  <2>4. QED BY <1>1, <2>1, <2>2, <2>3
<1>8. QED BY <1>2, <1>6, <1>7

LEMMA MpvComplete ==
  ASSUME fmt = "mpv", out.blk \in Seq(Nat), out.vsh \in Nat,
         NEW max \in Nat, max >= 8, out.type = 1 => out.vsh <= max - 4
  PROVE  Complete(MpvSend(out, max), max)
<1>1. PICK room \in Nat, hdr \in Nat :
        /\ room = max - MpvHeader /\ hdr = MpvHeader /\ room >= 4 /\ max = hdr + room
        /\ out.type = 1 => out.vsh <= room
  BY DEF MpvHeader
<1>2. PICK lens \in Seq(Nat) : lens = MpvPieces(out)
  <2>1. CASE out.type = 1
    <3>1. \A v \in Nat : <<v>> \in Seq(Nat)
      OBVIOUS
    <3>2. MpvPieces(out) = <<out.vsh>> \o out.blk
      BY <2>1 DEF MpvPieces
    <3>3. QED BY <3>1, <3>2, ConcatProperties
  <2>2. CASE out.type # 1
    <3>1. MpvPieces(out) = << >> \o out.blk
      BY <2>2 DEF MpvPieces
    <3>2. << >> \in Seq(Nat)
      OBVIOUS
    <3>3. QED BY <3>1, <3>2, ConcatProperties
  <2>3. QED BY <2>1, <2>2
<1>3. out.type = 1 => Len(lens) > 0 /\ lens[1] = out.vsh
  <2>1. HAVE out.type = 1
  <2>2. MpvPieces(out) = <<out.vsh>> \o out.blk
    BY <2>1 DEF MpvPieces
  <2>3. QED BY <1>2, <2>2
<1>4. PICK n \in Nat : n = Len(lens)
  BY LenProperties
<1>5. \A i \in 1 .. n : lens[i] \in Nat
  BY <1>4, ElementOfSeq
<1> DEFINE x == [sent |-> << >>, segs |-> << >>, space |-> room]
           Step(F, i) == IF i = 1 /\ out.type = 1
                         THEN [sent |-> << >>, segs |-> <<Seg(1, 0, lens[1])>>, space |-> room - lens[1]]
                         ELSE MpvFill(MpvFlush(F, lens[i], room), i, lens[i], room, i = Len(lens))
           Def(g) == [i \in 0 .. n |-> IF i = 0 THEN x ELSE Step(g[i - 1], i)]
           S == [i \in 0 .. n |-> {F \in FillType : Filled(F, hdr, room, lens, i)}]
           f == [i \in 1 .. n |-> [F \in S[i - 1] |-> Step(F, i)]]
<1>6. x \in S[0]
  <2>1. Filled(x, hdr, room, lens, 0)
    BY NothingFilled
  <2>2. x \in FillType
    BY <2>1 DEF Filled
  <2> HIDE DEF x
  <2>3. QED BY <2>1, <2>2
<1>7. ASSUME NEW i \in 0 .. n - 1, NEW F \in S[i] PROVE Step(F, i + 1) \in S[i + 1]
  <2>1. F \in FillType /\ Filled(F, hdr, room, lens, i)
    OBVIOUS
  <2> HIDE DEF S
  <2>2. i \in Nat /\ i < Len(lens) /\ Len(lens) \in Nat /\ i + 1 \in 1 .. n /\ i + 1 \in 0 .. n
    BY <1>4
  <2>3. PICK len \in Nat : len = lens[i + 1]
    BY <1>5, <2>2
  <2>4. Filled(Step(F, i + 1), hdr, room, lens, i + 1)
    <3>1. CASE i = 0 /\ out.type = 1
      <4>1. 0 < Len(lens) /\ len = lens[1] /\ len <= room /\ i + 1 = 1
        BY <1>1, <1>3, <2>3, <3>1
      <4>2. Filled([sent |-> << >>, segs |-> <<Seg(1, 0, len)>>, space |-> room - len],
                   hdr, room, lens, 1)
        BY <2>2, <4>1, MpvBegins
      <4>3. QED BY <3>1, <4>1, <4>2
    <3>2. CASE ~(i = 0 /\ out.type = 1)
      <4>1. Filled(MpvFill(MpvFlush(F, len, room), i + 1, len, room, i + 1 = Len(lens)),
                   hdr, room, lens, i + 1)
        BY <1>1, <2>1, <2>2, <2>3, MpvFilled
      <4>2. ~(i + 1 = 1 /\ out.type = 1)
        BY <3>2
      <4>3. QED BY <2>3, <4>1, <4>2
    <3>3. QED BY <3>1, <3>2
  <2>5. Step(F, i + 1) \in FillType
    BY <2>4 DEF Filled
  <2> HIDE DEF Step
  <2>6. QED BY <2>2, <2>4, <2>5 DEF S
<1> HIDE DEF Step
<1>8. Stages(n, S, x, f)
  <2>1. ASSUME NEW i \in 1 .. n, NEW F \in S[i - 1] PROVE f[i][F] \in S[i]
    <3>1. f[i][F] = Step(F, i)
      BY <2>1
    <3>2. PICK j \in 0 .. n - 1 : j = i - 1 /\ j + 1 = i
      OBVIOUS
    <3> HIDE DEF S, f
    <3>3. Step(F, j + 1) \in S[j + 1]
      BY <1>7, <3>2
    <3>4. QED BY <3>1, <3>2, <3>3
  <2> HIDE DEF S, f, x
  <2>2. QED BY <1>6, <2>1 DEF Stages
<1>9. \A i \in 1 .. n : \A F \in S[i - 1] : f[i][F] = Step(F, i)
  OBVIOUS
<1> HIDE DEF S, f, x
<1>10. PICK g : Computes(g, n, S, x, f)
  BY <1>8, InStages DEF Computed
<1>11. g = Def(g)
  <2>1. ASSUME NEW i \in 0 .. n PROVE g[i] = IF i = 0 THEN x ELSE Step(g[i - 1], i)
    <3>1. CASE i = 0
      BY <1>10, <3>1 DEF Computes
    <3>2. CASE i # 0
      <4>1. i \in 1 .. n /\ i - 1 \in 0 .. n
        BY <3>2
      <4>2. g[i] = f[i][g[i - 1]] /\ g[i - 1] \in S[i - 1]
        BY <1>10, <4>1 DEF Computes
      <4>3. QED BY <1>9, <3>2, <4>1, <4>2
    <3>3. QED BY <3>1, <3>2
  <2>2. g = [i \in 0 .. n |-> g[i]]
    BY <1>10 DEF Computes
  <2>3. QED BY ONLY <2>1, <2>2
<1> DEFINE h == CHOOSE h : h = Def(h)
<1>12. MpvSend(out, max) = IF h[n].segs = << >> THEN h[n].sent
                           ELSE Append(h[n].sent, Packet(hdr, h[n].segs, << >>, TRUE))
  BY <1>1, <1>2, <1>4 DEF MpvSend, x, Step
<1> HIDE DEF Def
<1>13. h = Def(h)
  BY <1>11
<1> HIDE DEF h
<1>14. h[0] = x /\ \A i \in 0 .. n - 1 : h[i + 1] = Step(h[i], i + 1)
  <2>1. \A i \in 0 .. n : h[i] = IF i = 0 THEN x ELSE Step(h[i - 1], i)
    BY <1>13 DEF Def
  <2>2. ASSUME NEW i \in 0 .. n - 1 PROVE h[i + 1] = Step(h[i], i + 1)
    <3>1. i + 1 \in 0 .. n /\ i + 1 # 0 /\ (i + 1) - 1 = i
      OBVIOUS
    <3>2. QED BY ONLY <2>1, <3>1
  <2>3. QED BY <2>1, <2>2
<1>15. \A i \in 0 .. n : h[i] \in S[i]
  <2>1. \A i \in 0 .. n - 1 : h[i] \in S[i] => h[i + 1] \in S[i + 1]
    BY <1>7, <1>14
  <2>2. h[0] \in S[0]
    BY <1>6, <1>14
  <2>3. QED BY <2>1, <2>2, StagesHold
<1>16. PICK F : F = h[n]
  OBVIOUS
<1>17. Filled(F, hdr, room, lens, Len(lens))
  <2>1. n \in 0 .. n
    OBVIOUS
  <2>2. F \in S[n]
    BY <1>15, <1>16, <2>1
  <2>3. Filled(F, hdr, room, lens, n)
    BY <2>1, <2>2 DEF S
  <2>4. QED BY ONLY <1>4, <2>3, Zenon
<1>18. Pieces(fmt, out) = lens
  BY <1>2 DEF Pieces
<1>19. CASE F.segs = << >>
  <2>1. Complete(F.sent, max)
    BY <1>1, <1>17, <1>18, <1>19, FillDone
  <2>2. QED BY <1>12, <1>16, <1>19, <2>1
<1>20. CASE F.segs # << >>
  <2>1. Len(lens) \in Nat
    BY <1>4
  <2>2. Complete(Append(F.sent, Packet(hdr, F.segs, << >>, TRUE)), max)
    BY <1>1, <1>17, <1>18, <1>20, <2>1, FillEnd
  <2>3. QED BY <1>12, <1>16, <1>20, <2>2
<1>21. QED BY <1>19, <1>20

-----------------------------------------------------------------------------
(* The parsed frame                                                        *)

LEMMA BytesOfAll ==
  ASSUME NEW es, NEW n \in Nat, n = Len(es), \A i \in 1 .. n : es[i].len \in Nat
  PROVE  /\ BytesOf(es)[0] = 0
         /\ \A i \in 0 .. n - 1 : BytesOf(es)[i + 1] = BytesOf(es)[i] + es[i + 1].len
         /\ \A i \in 0 .. n : BytesOf(es)[i] \in Nat
<1> DEFINE Def(g) == [i \in 0 .. n |-> IF i = 0 THEN 0 ELSE g[i - 1] + es[i].len]
           f == [i \in 1 .. n |-> [v \in Nat |-> v + es[i].len]]
<1>1. f \in StepsOn(n, Nat) /\ \A i \in 1 .. n : \A v \in Nat : f[i][v] = v + es[i].len
  <2>1. \A i \in 1 .. n : \A v \in Nat : v + es[i].len \in Nat
    OBVIOUS
  <2>2. QED BY <2>1 DEF StepsOn
<1> HIDE DEF f
<1>2. PICK g \in [0 .. n -> Nat] : g[0] = 0 /\ \A i \in 1 .. n : g[i] = f[i][g[i - 1]]
  <2>1. PICK S : S = Nat
    OBVIOUS
  <2>2. PICK x \in S : x = 0
    BY <2>1
  <2>3. Stepwise(n, S, x, f)
    BY <1>1, <2>1, InSteps
  <2>4. QED BY <2>1, <2>2, <2>3 DEF Stepwise
<1>3. ASSUME NEW i \in 1 .. n PROVE g[i] = g[i - 1] + es[i].len
  <2>1. i - 1 \in 0 .. n /\ g[i - 1] \in Nat
    BY <1>2
  <2>2. QED BY <1>1, <1>2, <2>1
<1>4. g = Def(g)
  <2>1. g = [i \in 0 .. n |-> g[i]]
    BY <1>2
  <2>2. \A i \in 0 .. n : g[i] = IF i = 0 THEN 0 ELSE g[i - 1] + es[i].len
    BY <1>2, <1>3
  <2>3. QED BY ONLY <2>1, <2>2
<1> DEFINE h == CHOOSE h : h = Def(h)
<1>5. BytesOf(es) = h
  BY DEF BytesOf
<1> HIDE DEF Def
<1>6. h = Def(h)
  BY <1>4
<1> HIDE DEF h
<1>7. \A i \in 0 .. n : h[i] = IF i = 0 THEN 0 ELSE h[i - 1] + es[i].len
  BY <1>6 DEF Def
<1>8. ASSUME NEW i \in 0 .. n - 1 PROVE h[i + 1] = h[i] + es[i + 1].len
  <2>1. i + 1 \in 0 .. n /\ i + 1 # 0 /\ (i + 1) - 1 = i
    OBVIOUS
  <2>2. QED BY ONLY <1>7, <2>1
<1>9. h[0] = 0
  BY ONLY <1>7, n \in Nat
<1>10. \A i \in 0 .. n : h[i] \in Nat
  <2> DEFINE T == {i \in 0 .. n : h[i] \in Nat}
  <2>1. 0 \in T
    BY <1>9
  <2>2. ASSUME NEW i \in 0 .. n - 1, i \in T PROVE i + 1 \in T
    <3>1. i + 1 \in 1 .. n /\ h[i] \in Nat /\ i + 1 \in 0 .. n
      BY <2>2
    <3>2. h[i + 1] = h[i] + es[i + 1].len
      BY <1>8
    <3>3. QED BY <3>1, <3>2
  <2>3. T \in SUBSET (0 .. n)
    OBVIOUS
  <2> HIDE DEF T
  <2>4. \A i \in 0 .. n : i \in T
    BY <2>1, <2>2, <2>3, UpTo
  <2>5. QED BY <2>4 DEF T
<1>11. QED BY <1>5, <1>8, <1>9, <1>10

LEMMA ElementLengths ==
  ASSUME NEW format \in Tracks \cap {"mpeg4", "mpv"}, NEW e \in Elements(format)
  PROVE  e.len \in Nat
<1>1. PICK fr \in Frames[format] : e \in ToSet(fr.elements)
  BY DEF Elements
<1>2. PICK i \in DOMAIN fr.elements : e = fr.elements[i]
  BY <1>1 DEF ToSet
<1>3. QED BY <1>2, FramesAssumption DEF Input

\* Every layer of the frame is in the configuration s.
Announced(iov, s) == \A i \in 1 .. Len(iov) : iov[i].code \in {"VO", "VOL"} => iov[i] \in ToSet(s)

Mpeg4Type == [iov : Seq(Elements("mpeg4")), config : Seq(Elements("mpeg4")), config_len : Nat,
              fmtp : Seq(Elements("mpeg4")), init_done : BOOLEAN]

LEMMA Mpeg4Fields ==
  ASSUME NEW o \in Mpeg4Type
  PROVE  /\ o.iov \in Seq(Elements("mpeg4")) /\ o.config \in Seq(Elements("mpeg4"))
         /\ o.config_len \in Nat /\ o.fmtp \in Seq(Elements("mpeg4")) /\ o.init_done \in BOOLEAN
BY DEF Mpeg4Type

LEMMA RtpBufAdd ==
  ASSUME NEW o \in Mpeg4Type, NEW e \in Elements("mpeg4"), NEW s, Announced(o.iov, s),
         e.code \in {"VO", "VOL"} => e \in ToSet(s), NEW r, r = AddToRtpBuf(o, e)
  PROVE  /\ r \in Mpeg4Type /\ Announced(r.iov, s)
         /\ r.config = o.config /\ r.config_len = o.config_len /\ r.fmtp = o.fmtp
<1>1. CASE Len(o.iov) = MaxIov
  BY <1>1 DEF AddToRtpBuf
<1>2. CASE Len(o.iov) # MaxIov
  <2>1. PICK S : S = Elements("mpeg4")
    OBVIOUS
  <2>2. PICK iov \in Seq(S), m \in Nat : iov = o.iov /\ m = Len(iov)
    BY <2>1, LenProperties, Mpeg4Fields
  <2>3. PICK more : more = Append(iov, e)
    OBVIOUS
  <2>4. /\ more \in Seq(S) /\ Len(more) = m + 1 /\ more[m + 1] = e
        /\ \A i \in 1 .. m : more[i] = iov[i]
    BY <2>1, <2>2, <2>3, AppendProperties
  <2>5. r = [o EXCEPT !.iov = more]
    BY <1>2, <2>2, <2>3 DEF AddToRtpBuf
  <2>6. /\ r \in Mpeg4Type /\ r.iov = more
        /\ r.config = o.config /\ r.config_len = o.config_len /\ r.fmtp = o.fmtp
    BY <2>1, <2>4, <2>5 DEF Mpeg4Type
  <2>7. ASSUME NEW i \in 1 .. m + 1, more[i].code \in {"VO", "VOL"} PROVE more[i] \in ToSet(s)
    <3>1. CASE i = m + 1
      BY <2>4, <2>7, <3>1
    <3>2. CASE i # m + 1
      <4>1. i \in 1 .. m
        BY <3>2
      <4>2. QED BY <2>2, <2>4, <2>7, <4>1 DEF Announced
    <3>3. QED BY <3>1, <3>2
  <2>8. Announced(r.iov, s)
    BY <2>4, <2>6, <2>7 DEF Announced
  <2>9. QED BY <2>6, <2>8
<1>3. QED BY <1>1, <1>2

LEMMA ConfigAdd ==
  ASSUME NEW o \in Mpeg4Type, NEW e \in Elements("mpeg4"), e.len \in Nat,
         o.config_len + e.len <= ConfigSize, NEW r, r = AddToConfig(o, e)
  PROVE  /\ r \in Mpeg4Type /\ r.iov = o.iov /\ r.config_len = o.config_len + e.len
         /\ e \in ToSet(r.config) /\ \A d \in ToSet(o.config) : d \in ToSet(r.config)
<1>1. PICK S : S = Elements("mpeg4")
  OBVIOUS
<1>2. PICK config \in Seq(S), m \in Nat : config = o.config /\ m = Len(config)
  BY <1>1, LenProperties, Mpeg4Fields
<1>3. PICK more : more = Append(config, e)
  OBVIOUS
<1>4. /\ more \in Seq(S) /\ Len(more) = m + 1 /\ more[m + 1] = e
      /\ \A i \in 1 .. m : more[i] = config[i]
  BY <1>1, <1>2, <1>3, AppendProperties
<1>5. PICK len \in Nat : len = o.config_len + e.len /\ ~(len > ConfigSize)
  BY Mpeg4Fields DEF ConfigSize
<1>6. r = [o EXCEPT !.config = more, !.config_len = len]
  BY <1>2, <1>5, <1>3 DEF AddToConfig
<1>7. r \in Mpeg4Type /\ r.iov = o.iov /\ r.config_len = len /\ r.config = more
  BY <1>1, <1>4, <1>6 DEF Mpeg4Type
<1>8. DOMAIN more = 1 .. m + 1 /\ DOMAIN config = 1 .. m
  BY <1>2, <1>4, LenProperties
<1>9. e \in ToSet(more)
  BY <1>4, <1>8 DEF ToSet
<1>10. ASSUME NEW d \in ToSet(config) PROVE d \in ToSet(more)
  <2>1. PICK i \in 1 .. m : d = config[i]
    BY <1>8 DEF ToSet
  <2>2. i \in DOMAIN more /\ more[i] = d
    BY <1>4, <1>8, <2>1
  <2>3. QED BY <2>2 DEF ToSet
<1>11. QED BY <1>2, <1>5, <1>7, <1>9, <1>10

\* A header of the configuration is added to both.
LEMMA HeaderAdd ==
  ASSUME NEW o \in Mpeg4Type, NEW e \in Elements("mpeg4"), e.len \in Nat,
         o.config_len + e.len <= ConfigSize, Announced(o.iov, o.config),
         NEW r, r = AddToRtpBuf(AddToConfig(o, e), e)
  PROVE  r \in Mpeg4Type /\ r.config_len = o.config_len + e.len /\ Announced(r.iov, r.config)
<1>1. PICK q : q = AddToConfig(o, e)
  OBVIOUS
<1>2. /\ q \in Mpeg4Type /\ q.iov = o.iov /\ q.config_len = o.config_len + e.len
      /\ e \in ToSet(q.config) /\ \A d \in ToSet(o.config) : d \in ToSet(q.config)
  BY <1>1, ConfigAdd
<1>3. Announced(q.iov, q.config)
  BY <1>2 DEF Announced
<1>4. r = AddToRtpBuf(q, e)
  BY <1>1
<1>5. r \in Mpeg4Type /\ Announced(r.iov, q.config) /\ r.config = q.config /\ r.config_len = q.config_len
  BY <1>2, <1>3, <1>4, RtpBufAdd
<1>6. QED BY <1>2, <1>5

\* After the first k elements, of which the first h are the configuration.
Parsed(o, es, h, k) ==
  /\ o \in Mpeg4Type
  /\ k = 0 => o.iov = << >> /\ o.config_len = 0
  /\ 0 < k /\ k <= h =>
       o.config_len > 0 /\ o.config_len <= BytesOf(es)[k] /\ Announced(o.iov, o.config)
  /\ k > h => o.config_len = 0 /\ Announced(o.iov, o.fmtp)

ConfigFits(es, n, h) ==
  /\ \A i \in 1 .. n : es[i].code \in ConfigCodes => i <= h
  /\ h > 0 =>
       /\ es[1].code \in {"VOS", "VO"} /\ es[1].len > 0
       /\ \A i \in 1 .. h : es[i].code \in ConfigCodes
       /\ h < n /\ es[h + 1].code = "VOP"
       /\ \A k \in 0 .. h : BytesOf(es)[k] <= ConfigSize

LEMMA PlaneParsed ==
  ASSUME NEW o \in Mpeg4Type, NEW e \in Elements("mpeg4"), e.code = "VOP",
         o.config_len > 0 => Announced(o.iov, o.config),
         o.config_len = 0 => Announced(o.iov, o.fmtp),
         NEW r, r = ParsePlane(o, e)
  PROVE  r \in Mpeg4Type /\ r.config_len = 0 /\ Announced(r.iov, r.fmtp)
<1>1. PICK p : p = IF o.config_len > 0 THEN FinishConfig(o) ELSE o
  OBVIOUS
<1>2. p \in Mpeg4Type /\ p.config_len = 0 /\ Announced(p.iov, p.fmtp)
  <2>1. CASE o.config_len > 0
    <3>1. << >> \in Seq(Elements("mpeg4"))
      OBVIOUS
    <3>2. PICK none \in Seq(Elements("mpeg4")) : none = << >>
      BY <3>1
    <3>3. p = [o EXCEPT !.fmtp = o.config, !.config = none, !.config_len = 0, !.init_done = TRUE]
      BY <1>1, <2>1, <3>2 DEF FinishConfig
    <3>4. p \in Mpeg4Type /\ p.config_len = 0 /\ p.iov = o.iov /\ p.fmtp = o.config
      BY <3>2, <3>3 DEF Mpeg4Type
    <3>5. QED BY <2>1, <3>4
  <2>2. CASE ~(o.config_len > 0)
    BY <1>1, <2>2, Mpeg4Fields
  <2>3. QED BY <2>1, <2>2
<1>3. r = IF p.init_done /\ e.good THEN AddToRtpBuf(p, e) ELSE p
  BY <1>1 DEF ParsePlane
<1>4. CASE p.init_done /\ e.good
  <2>1. e.code \in {"VO", "VOL"} => e \in ToSet(p.fmtp)
    OBVIOUS
  <2>2. r = AddToRtpBuf(p, e)
    BY <1>3, <1>4
  <2>3. r \in Mpeg4Type /\ Announced(r.iov, p.fmtp) /\ r.config_len = p.config_len /\ r.fmtp = p.fmtp
    BY <1>2, <2>1, <2>2, RtpBufAdd
  <2>4. QED BY <1>2, <2>3
<1>5. CASE ~(p.init_done /\ e.good)
  BY <1>2, <1>3, <1>5
<1>6. QED BY <1>4, <1>5

LEMMA ElementParsed ==
  ASSUME NEW es \in Seq(Elements("mpeg4")), NEW n \in Nat, n = Len(es),
         \A i \in 1 .. n : es[i].len \in Nat, NEW h \in 0 .. n, ConfigFits(es, n, h),
         NEW k \in 0 .. n - 1, NEW o, Parsed(o, es, h, k)
  PROVE  Parsed(ParseElement(o, es[k + 1]), es, h, k + 1)
<1>1. PICK e \in Elements("mpeg4") : e = es[k + 1] /\ e.len \in Nat /\ k + 1 \in 1 .. n
  <2>1. k + 1 \in 1 .. n
    OBVIOUS
  <2>2. es[k + 1] \in Elements("mpeg4")
    BY ONLY es \in Seq(Elements("mpeg4")), n = Len(es), <2>1, ElementOfSeq
  <2>3. QED BY <2>1, <2>2
<1>2. PICK r : r = ParseElement(o, e)
  OBVIOUS
<1>3. o \in Mpeg4Type /\ o.config_len \in Nat
  BY Mpeg4Fields DEF Parsed
<1>4. CASE k + 1 <= h
  <2>1. e.code \in ConfigCodes /\ h > 0
    BY <1>1, <1>4 DEF ConfigFits
  <2>2. k = 0 => e.code \in {"VOS", "VO"} /\ e.len > 0 /\ o.config_len = 0
    BY <1>1, <2>1 DEF ConfigFits, Parsed
  <2>3. k > 0 => o.config_len > 0
    BY <1>4 DEF Parsed
  <2>4. Announced(o.iov, o.config)
    <3>1. CASE k = 0
      <4>1. o.iov = << >>
        BY <3>1 DEF Parsed
      <4>2. Len(<< >>) = 0
        OBVIOUS
      <4>3. QED BY <4>1, <4>2 DEF Announced
    <3>2. CASE k # 0
      BY <1>4, <3>2 DEF Parsed
    <3>3. QED BY <3>1, <3>2
  <2>5. PICK b \in Int : b = BytesOf(es)[k] /\ BytesOf(es)[k + 1] = b + e.len /\ o.config_len <= b
    <3>1. BytesOf(es)[0] = 0 /\ BytesOf(es)[k + 1] = BytesOf(es)[k] + es[k + 1].len
      BY BytesOfAll
    <3>2. BytesOf(es)[k] \in Int
      BY BytesOfAll
    <3>3. o.config_len <= BytesOf(es)[k]
      <4>1. CASE k = 0
        BY <2>2, <3>1, <4>1
      <4>2. CASE k # 0
        BY <1>4, <4>2 DEF Parsed
      <4>3. QED BY <4>1, <4>2
    <3>4. QED BY <1>1, <3>1, <3>2, <3>3
  <2>6. b + e.len <= ConfigSize
    BY <1>4, <2>1, <2>5 DEF ConfigFits
  <2>7. r \in Mpeg4Type /\ r.config_len > 0 /\ r.config_len <= b + e.len /\ Announced(r.iov, r.config)
    <3>1. CASE e.code = "VOL" /\ ~e.good
      <4>1. r = o
        BY <1>2, <3>1 DEF ParseElement
      <4>2. k > 0
        BY <2>2, <3>1
      <4>3. QED BY <1>1, <1>3, <2>3, <2>4, <2>5, <4>1, <4>2
    <3>2. CASE ~(e.code = "VOL" /\ ~e.good)
      <4>1. r = AddToRtpBuf(AddToConfig(o, e), e)
        <5>1. CASE e.code \in {"VOS", "VO"}
          BY <1>2, <5>1 DEF ParseElement
        <5>2. CASE e.code \notin {"VOS", "VO"}
          <6>1. Follows(o, e) = AddToConfig(o, e)
            BY <2>2, <2>3, <5>2 DEF Follows
          <6>2. e.code \in {"1B2", "VISUAL"} \/ e.code = "VOL"
            BY <2>1, <5>2 DEF ConfigCodes
          <6>3. CASE e.code \in {"1B2", "VISUAL"}
            BY <1>2, <6>1, <6>3 DEF ParseElement
          <6>4. CASE e.code = "VOL"
            BY <1>2, <3>2, <6>1, <6>4 DEF ParseElement
          <6>5. QED BY <6>2, <6>3, <6>4
        <5>3. QED BY <5>1, <5>2
      <4>2. o.config_len + e.len <= ConfigSize
        BY <1>1, <1>3, <2>5, <2>6 DEF ConfigSize
      <4>3. r \in Mpeg4Type /\ r.config_len = o.config_len + e.len /\ Announced(r.iov, r.config)
        BY <1>1, <1>3, <2>4, <4>1, <4>2, HeaderAdd
      <4>4. QED BY <1>1, <1>3, <2>2, <2>3, <2>5, <4>3
    <3>3. QED BY <3>1, <3>2
  <2>8. QED BY <1>1, <1>2, <1>4, <2>5, <2>7 DEF Parsed
<1>5. CASE ~(k + 1 <= h)
  <2>1. e.code \notin ConfigCodes
    BY <1>1, <1>5 DEF ConfigFits
  <2>2. k # 0 \/ h = 0
    BY <1>5
  <2>3. r \in Mpeg4Type /\ r.config_len = 0 /\ Announced(r.iov, r.fmtp)
    <3>1. k = 0 => \A s : Announced(o.iov, s)
      <4>1. Len(<< >>) = 0
        OBVIOUS
      <4>2. k = 0 => o.iov = << >>
        BY DEF Parsed
      <4>3. QED BY <4>1, <4>2 DEF Announced
    <3>2. CASE e.code = "VOP"
      <4>1. r = ParsePlane(o, e)
        BY <1>2, <3>2 DEF ParseElement
      <4>2. o.config_len > 0 => Announced(o.iov, o.config)
        BY <1>5, <3>1 DEF Parsed
      <4>3. o.config_len = 0 => Announced(o.iov, o.fmtp)
        BY <1>5, <3>1 DEF Parsed
      <4>4. QED BY <1>3, <3>2, <4>1, <4>2, <4>3, PlaneParsed
    <3>3. CASE e.code # "VOP"
      <4>1. r = o
        BY <1>2, <2>1, <3>3 DEF ParseElement, ConfigCodes
      <4>2. k = 0 \/ k > h
        <5>1. CASE h = 0
          BY <5>1
        <5>2. CASE h # 0
          <6>1. es[h + 1].code = "VOP"
            BY <5>2 DEF ConfigFits
          <6>2. k # h
            BY <1>1, <3>3, <6>1
          <6>3. QED BY <1>5, <6>2
        <5>3. QED BY <5>1, <5>2
      <4>3. o.config_len = 0 /\ Announced(o.iov, o.fmtp)
        BY <3>1, <4>2 DEF Parsed
      <4>4. QED BY <1>3, <4>1, <4>3
    <3>4. QED BY <3>2, <3>3
  <2>4. QED BY <1>1, <1>2, <1>5, <2>3 DEF Parsed
<1>6. QED BY <1>4, <1>5

\* The layers of the frame are those of the configuration that is announced.
LEMMA Mpeg4FrameParsed ==
  ASSUME NEW o \in Mpeg4Type, o.config_len = 0, NEW f, f.elements \in Seq(Elements("mpeg4")),
         \A i \in DOMAIN f.elements : f.elements[i].len \in Nat, Mpeg4Input(f.elements),
         NEW r, r = Mpeg4Frame(o, f).out
  PROVE  r \in Mpeg4Type /\ r.config_len = 0 /\ Announced(r.iov, r.fmtp)
<1>1. PICK es \in Seq(Elements("mpeg4")), n \in Nat : es = f.elements /\ n = Len(es)
  BY LenProperties
<1>2. PICK k0 \in 0 .. n : ConfigFits(es, n, k0)
  BY <1>1, LenProperties DEF Mpeg4Input, ConfigFits
<1>3. \A i \in 1 .. n : es[i].len \in Nat
  BY <1>1, LenProperties
<1> DEFINE x == [o EXCEPT !.iov = << >>]
           Step(v, i) == ParseElement(v, es[i])
           Def(g) == [i \in 0 .. n |-> IF i = 0 THEN x ELSE Step(g[i - 1], i)]
           S == [i \in 0 .. n |-> {v \in Mpeg4Type : Parsed(v, es, k0, i)}]
           g0 == [i \in 1 .. n |-> [v \in S[i - 1] |-> Step(v, i)]]
<1>4. x \in S[0]
  <2>1. << >> \in Seq(Elements("mpeg4"))
    OBVIOUS
  <2>2. PICK none \in Seq(Elements("mpeg4")) : none = << >>
    BY <2>1
  <2>3. x = [o EXCEPT !.iov = none]
    BY <2>2
  <2>4. x \in Mpeg4Type /\ x.iov = none /\ x.config_len = 0
    BY ONLY <2>3, none \in Seq(Elements("mpeg4")), o \in Mpeg4Type, o.config_len = 0 DEF Mpeg4Type
  <2> HIDE DEF x
  <2>5. Parsed(x, es, k0, 0)
    BY <2>2, <2>4 DEF Parsed
  <2>6. QED BY <2>4, <2>5
<1>5. ASSUME NEW i \in 0 .. n - 1, NEW v \in S[i] PROVE Step(v, i + 1) \in S[i + 1]
  <2>1. Parsed(v, es, k0, i)
    OBVIOUS
  <2> HIDE DEF S
  <2>2. Parsed(ParseElement(v, es[i + 1]), es, k0, i + 1)
    BY <1>1, <1>2, <1>3, <2>1, ElementParsed
  <2>3. Step(v, i + 1) \in Mpeg4Type
    BY <2>2 DEF Parsed
  <2>4. i + 1 \in 0 .. n
    OBVIOUS
  <2>5. QED BY <2>2, <2>3, <2>4 DEF S
<1> HIDE DEF Step
<1>6. Stages(n, S, x, g0)
  <2>1. ASSUME NEW i \in 1 .. n, NEW v \in S[i - 1] PROVE g0[i][v] \in S[i]
    <3>1. g0[i][v] = Step(v, i)
      BY <2>1
    <3>2. PICK j \in 0 .. n - 1 : j = i - 1 /\ j + 1 = i
      OBVIOUS
    <3> HIDE DEF S, g0
    <3>3. Step(v, j + 1) \in S[j + 1]
      BY <1>5, <3>2
    <3>4. QED BY <3>1, <3>2, <3>3
  <2> HIDE DEF S, g0, x
  <2>2. QED BY <1>4, <2>1 DEF Stages
<1>7. \A i \in 1 .. n : \A v \in S[i - 1] : g0[i][v] = Step(v, i)
  OBVIOUS
<1> HIDE DEF S, g0, x
<1>8. PICK g : Computes(g, n, S, x, g0)
  BY <1>6, InStages DEF Computed
<1>9. g = Def(g)
  <2>1. ASSUME NEW i \in 0 .. n PROVE g[i] = IF i = 0 THEN x ELSE Step(g[i - 1], i)
    <3>1. CASE i = 0
      BY <1>8, <3>1 DEF Computes
    <3>2. CASE i # 0
      <4>1. i \in 1 .. n /\ i - 1 \in 0 .. n
        BY <3>2
      <4>2. g[i] = g0[i][g[i - 1]] /\ g[i - 1] \in S[i - 1]
        BY <1>8, <4>1 DEF Computes
      <4>3. QED BY <1>7, <3>2, <4>1, <4>2
    <3>3. QED BY <3>1, <3>2
  <2>2. g = [i \in 0 .. n |-> g[i]]
    BY <1>8 DEF Computes
  <2>3. QED BY ONLY <2>1, <2>2
<1> DEFINE h == CHOOSE h : h = Def(h)
<1>10. r = h[n]
  BY <1>1 DEF Mpeg4Frame, x, Step
<1> HIDE DEF Def
<1>11. h = Def(h)
  BY <1>9
<1> HIDE DEF h
<1>12. h[0] = x /\ \A i \in 0 .. n - 1 : h[i + 1] = Step(h[i], i + 1)
  <2>1. \A i \in 0 .. n : h[i] = IF i = 0 THEN x ELSE Step(h[i - 1], i)
    BY <1>11 DEF Def
  <2>2. ASSUME NEW i \in 0 .. n - 1 PROVE h[i + 1] = Step(h[i], i + 1)
    <3>1. i + 1 \in 0 .. n /\ i + 1 # 0 /\ (i + 1) - 1 = i
      OBVIOUS
    <3>2. QED BY ONLY <2>1, <3>1
  <2>3. QED BY <2>1, <2>2
<1>13. h[n] \in S[n]
  <2>1. \A i \in 0 .. n - 1 : h[i] \in S[i] => h[i + 1] \in S[i + 1]
    BY <1>5, <1>12
  <2>2. h[0] \in S[0]
    BY <1>4, <1>12
  <2>3. \A i \in 0 .. n : h[i] \in S[i]
    BY <2>1, <2>2, StagesHold
  <2>4. QED BY <2>3
<1>14. r \in Mpeg4Type /\ Parsed(r, es, k0, n)
  <2>1. n \in 0 .. n
    OBVIOUS
  <2>2. r \in S[n]
    BY <1>10, <1>13
  <2>3. QED BY <2>1, <2>2 DEF S
<1>15. CASE n = 0
  <2>1. r.iov = << >> /\ r.config_len = 0
    BY <1>14, <1>15 DEF Parsed
  <2>2. Len(<< >>) = 0
    OBVIOUS
  <2>3. QED BY <1>14, <2>1, <2>2 DEF Announced
<1>16. CASE n # 0
  <2>1. n > k0
    BY <1>2, <1>16 DEF ConfigFits
  <2>2. QED BY <1>14, <2>1 DEF Parsed
<1>17. QED BY <1>15, <1>16

MpvType == [blk : Seq(Nat), type : 0 .. 7, vsh : Nat, init_done : BOOLEAN]

MpvState == [out : MpvType, in_picture : BOOLEAN, have_vsh : BOOLEAN]

\* The sequence header that is kept fits into a packet.
SequenceFits(o) == o \in MpvType /\ o.vsh <= 1400 - MpvHeader

\* After the first k elements, the first h of which are before the picture.
MpvParsed(st, es, h, k) ==
  /\ st \in MpvState
  /\ SequenceFits(st.out)
  /\ k <= h /\ st.have_vsh => st.out.vsh <= BytesOf(es)[k]
  /\ k > h => st.in_picture \/ Len(st.out.blk) = MaxBlk

LEMMA MpvElementParsed ==
  ASSUME NEW es, NEW n \in Nat, n = Len(es),
         \A i \in 1 .. n : es[i].len \in Nat /\ (es[i].code = "PICTURE" => es[i].type \in 0 .. 7),
         NEW h \in 0 .. n, h < n => es[h + 1].code \in {"GOP", "PICTURE", "SLICE"},
         \A k \in 0 .. h : BytesOf(es)[k] <= 1400 - MpvHeader,
         NEW k \in 0 .. n - 1, NEW st, MpvParsed(st, es, h, k)
  PROVE  MpvParsed(MpvElement(st, es[k + 1]), es, h, k + 1)
<1>1. PICK e : e = es[k + 1]
  OBVIOUS
<1>2. PICK len \in Nat : /\ e = es[k + 1] /\ e.len = len
                         /\ e.code = "PICTURE" => e.type \in 0 .. 7
  <2>1. k + 1 \in 1 .. n
    OBVIOUS
  <2>2. QED BY <1>1, <2>1
<1>3. PICK r : r = MpvElement(st, e)
  OBVIOUS
<1>4. PICK b \in Nat : /\ b = BytesOf(es)[k] /\ BytesOf(es)[k + 1] = b + len
                       /\ k + 1 <= h => b + len <= 1400 - MpvHeader
  <2>1. \A i \in 1 .. n : es[i].len \in Nat
    OBVIOUS
  <2>2. BytesOf(es)[k + 1] = BytesOf(es)[k] + es[k + 1].len /\ BytesOf(es)[k] \in Nat
    <3>1. k \in 0 .. n
      OBVIOUS
    <3>2. QED BY ONLY n \in Nat, n = Len(es), k \in 0 .. n - 1, <2>1, <3>1, BytesOfAll
  <2>3. k + 1 <= h => k + 1 \in 0 .. h
    OBVIOUS
  <2>4. QED BY <1>2, <2>2, <2>3
<1>5. PICK o \in MpvType : o = st.out /\ o.vsh \in Nat /\ o.vsh <= 1400 - MpvHeader
  BY DEF MpvParsed, SequenceFits, MpvType
<1>6. st \in MpvState
  BY DEF MpvParsed
<1>7. k <= h /\ st.have_vsh => o.vsh <= b
  BY <1>4, <1>5 DEF MpvParsed
<1>8. CASE Len(o.blk) = MaxBlk
  <2>1. r = st
    BY <1>3, <1>5, <1>8 DEF MpvElement
  <2>2. k + 1 <= h /\ st.have_vsh => st.out.vsh <= BytesOf(es)[k + 1]
    BY <1>4, <1>5, <1>7
  <2>3. QED BY <1>2, <1>3, <1>5, <1>6, <1>8, <2>1, <2>2 DEF MpvParsed, SequenceFits
<1>9. CASE Len(o.blk) # MaxBlk /\ (st.in_picture \/ e.code \in {"GOP", "PICTURE", "SLICE"})
  <2>1. PICK blk \in Seq(Nat), type \in 0 .. 7 :
          /\ blk = Append(o.blk, e.len)
          /\ type = IF e.code = "PICTURE" /\ o.init_done THEN e.type ELSE o.type
    <3>1. PICK old \in Seq(Nat) : old = o.blk /\ o.type \in 0 .. 7
      BY DEF MpvType
    <3>2. Append(old, len) \in Seq(Nat)
      BY AppendProperties
    <3>3. Append(o.blk, e.len) \in Seq(Nat)
      BY <1>2, <3>1, <3>2
    <3>4. (IF e.code = "PICTURE" /\ o.init_done THEN e.type ELSE o.type) \in 0 .. 7
      BY <1>2, <3>1
    <3>5. PICK blk \in Seq(Nat) : blk = Append(o.blk, e.len)
      BY ZenonT(30), <3>3
    <3>6. PICK type \in 0 .. 7 : type = IF e.code = "PICTURE" /\ o.init_done THEN e.type ELSE o.type
      BY <3>4
    <3>7. QED BY ONLY blk \in Seq(Nat), type \in 0 .. 7, <3>5, <3>6
  <2>2. PICK p : p = MpvBlock(o, e)
    OBVIOUS
  <2>3. p \in MpvType /\ p.vsh = o.vsh
    <3>1. p = [o EXCEPT !.blk = blk, !.type = type]
      BY <2>1, <2>2 DEF MpvBlock
    <3>2. QED BY ONLY o \in MpvType, blk \in Seq(Nat), type \in 0 .. 7, <3>1 DEF MpvType
  <2>4. r = [st EXCEPT !.in_picture = TRUE, !.out = p]
    BY <1>3, <1>5, <1>9, <2>2 DEF MpvElement
  <2>5. /\ r \in MpvState
        /\ r.out = p /\ r.in_picture = TRUE /\ r.have_vsh = st.have_vsh
    BY ONLY <1>6, <2>3, <2>4 DEF MpvState
  <2>6. k + 1 <= h /\ r.have_vsh => r.out.vsh <= BytesOf(es)[k + 1]
    BY <1>4, <1>5, <1>7, <2>3, <2>5
  <2>7. SequenceFits(r.out)
    BY <1>5, <2>3, <2>5 DEF SequenceFits
  <2>8. QED BY <1>2, <1>3, <2>5, <2>6, <2>7 DEF MpvParsed
<1>10. CASE Len(o.blk) # MaxBlk /\ ~(st.in_picture \/ e.code \in {"GOP", "PICTURE", "SLICE"})
  <2>1. k + 1 <= h
    <3>1. k <= h
      BY <1>5, <1>10 DEF MpvParsed
    <3>2. k # h
      BY <1>2, <1>10
    <3>3. QED BY <3>1, <3>2
  <2>2. CASE e.code = "SEQUENCE"
    <3>1. PICK p : p = [o EXCEPT !.vsh = len, !.init_done = TRUE]
      OBVIOUS
    <3>2. p \in MpvType /\ p.vsh = len
      BY ONLY o \in MpvType, len \in Nat, <3>1 DEF MpvType
    <3>3. r = [st EXCEPT !.have_vsh = TRUE, !.out = p]
      BY <1>2, <1>3, <1>5, <1>10, <2>2, <3>1 DEF MpvElement
    <3>4. r \in MpvState /\ r.out = p
      BY ONLY <1>6, <3>2, <3>3 DEF MpvState
    <3>5. len <= b + len /\ len <= 1400 - MpvHeader
      BY <1>4, <2>1 DEF MpvHeader
    <3>6. SequenceFits(r.out) /\ r.out.vsh <= BytesOf(es)[k + 1]
      BY <1>4, <3>2, <3>4, <3>5 DEF SequenceFits
    <3>7. QED BY <1>2, <1>3, <2>1, <3>4, <3>6 DEF MpvParsed
  <2>3. CASE e.code # "SEQUENCE" /\ st.have_vsh
    <3>1. PICK vsh \in Nat : vsh = o.vsh + len /\ vsh <= b + len
      BY <1>5, <1>7, <2>1, <2>3
    <3>2. PICK p : p = [o EXCEPT !.vsh = vsh]
      BY ZenonT(30)
    <3>3. p \in MpvType /\ p.vsh = vsh
      BY ONLY o \in MpvType, vsh \in Nat, <3>2 DEF MpvType
    <3>4. r = [st EXCEPT !.out = p]
      BY <1>2, <1>3, <1>5, <1>10, <2>3, <3>2, <3>1 DEF MpvElement
    <3>5. r \in MpvState /\ r.out = p
      BY ONLY <1>6, <3>3, <3>4 DEF MpvState
    <3>6. SequenceFits(r.out) /\ r.out.vsh <= BytesOf(es)[k + 1]
      BY <1>4, <2>1, <3>1, <3>3, <3>5 DEF SequenceFits, MpvHeader
    <3>7. QED BY <1>2, <1>3, <2>1, <3>5, <3>6 DEF MpvParsed
  <2>4. CASE e.code # "SEQUENCE" /\ ~st.have_vsh
    <3>1. r = st
      BY <1>3, <1>5, <1>10, <2>4 DEF MpvElement
    <3>2. QED BY <1>2, <1>3, <1>5, <1>6, <2>1, <2>4, <3>1 DEF MpvParsed, SequenceFits
  <2>5. QED BY <2>2, <2>3, <2>4
<1>11. QED BY <1>5, <1>8, <1>9, <1>10

LEMMA MpvFrameParsed ==
  ASSUME NEW o, SequenceFits(o), NEW f, f.elements \in Seq(Elements("mpv")),
         \A i \in DOMAIN f.elements : f.elements[i].len \in Nat, MpvInput(f.elements),
         NEW r, r = MpvFrame(o, f).out
  PROVE  SequenceFits(r)
<1>1. PICK es \in Seq(Elements("mpv")), n \in Nat : es = f.elements /\ n = Len(es) /\ DOMAIN es = 1 .. n
  BY LenProperties
<1>2. PICK k0 \in 0 .. n : /\ k0 < n => es[k0 + 1].code \in {"GOP", "PICTURE", "SLICE"}
                           /\ \A k \in 0 .. k0 : BytesOf(es)[k] <= 1400 - MpvHeader
  BY <1>1 DEF MpvInput
<1>3. \A i \in 1 .. n : es[i].len \in Nat /\ (es[i].code = "PICTURE" => es[i].type \in 0 .. 7)
  BY SMTT(30), <1>1 DEF MpvInput
<1> DEFINE x == [out |-> [o EXCEPT !.blk = << >>], in_picture |-> FALSE, have_vsh |-> FALSE]
           Step(v, i) == MpvElement(v, es[i])
           Def(g) == [i \in 0 .. n |-> IF i = 0 THEN x ELSE Step(g[i - 1], i)]
           S == [i \in 0 .. n |-> {v \in MpvState : MpvParsed(v, es, k0, i)}]
           g0 == [i \in 1 .. n |-> [v \in S[i - 1] |-> Step(v, i)]]
<1>4. x \in S[0]
  <2>1. << >> \in Seq(Nat)
    OBVIOUS
  <2>2. PICK p : p = [o EXCEPT !.blk = << >>]
    OBVIOUS
  <2>3. p \in MpvType /\ p.vsh = o.vsh
    <3>1. PICK none \in Seq(Nat) : none = << >>
      BY <2>1
    <3>2. p = [o EXCEPT !.blk = none]
      BY <2>2, <3>1
    <3>3. QED BY SMTT(60), ZenonT(30), <3>2 DEF SequenceFits, MpvType
  <2>4. x = [out |-> p, in_picture |-> FALSE, have_vsh |-> FALSE]
    BY <2>2
  <2>5. x \in MpvState /\ x.out = p /\ x.have_vsh = FALSE
    BY ONLY <2>4, <2>3 DEF MpvState
  <2> HIDE DEF x
  <2>6. SequenceFits(p)
    BY <2>3 DEF SequenceFits
  <2>7. MpvParsed(x, es, k0, 0)
    BY <2>5, <2>6 DEF MpvParsed
  <2>8. QED BY <2>5, <2>7
<1>5. ASSUME NEW i \in 0 .. n - 1, NEW v \in S[i] PROVE Step(v, i + 1) \in S[i + 1]
  <2>1. MpvParsed(v, es, k0, i)
    OBVIOUS
  <2> HIDE DEF S
  <2>2. MpvParsed(MpvElement(v, es[i + 1]), es, k0, i + 1)
    <3>1. n = Len(es)
      BY <1>1
    <3>2. PICK k \in 0 .. n - 1 : k = i
      OBVIOUS
    <3>3. MpvParsed(v, es, k0, k)
      BY <2>1, <3>2
    <3>4. MpvParsed(MpvElement(v, es[k + 1]), es, k0, k + 1)
      BY ONLY SMTT(60), ZenonT(30), n \in Nat, k0 \in 0 .. n, k \in 0 .. n - 1, <1>2, <1>3, <3>1, <3>3, MpvElementParsed
    <3>5. QED BY <3>2, <3>4
  <2>3. Step(v, i + 1) \in MpvState
    BY <2>2 DEF MpvParsed
  <2>4. i + 1 \in 0 .. n
    OBVIOUS
  <2>5. QED BY <2>2, <2>3, <2>4 DEF S
<1> HIDE DEF Step
<1>6. Stages(n, S, x, g0)
  <2>1. ASSUME NEW i \in 1 .. n, NEW v \in S[i - 1] PROVE g0[i][v] \in S[i]
    <3>1. g0[i][v] = Step(v, i)
      BY <2>1
    <3>2. PICK j \in 0 .. n - 1 : j = i - 1 /\ j + 1 = i
      OBVIOUS
    <3> HIDE DEF S, g0
    <3>3. Step(v, j + 1) \in S[j + 1]
      BY <1>5, <3>2
    <3>4. QED BY <3>1, <3>2, <3>3
  <2> HIDE DEF S, g0, x
  <2>2. QED BY <1>4, <2>1 DEF Stages
<1>7. \A i \in 1 .. n : \A v \in S[i - 1] : g0[i][v] = Step(v, i)
  OBVIOUS
<1> HIDE DEF S, g0, x
<1>8. PICK g : Computes(g, n, S, x, g0)
  BY <1>6, InStages DEF Computed
<1>9. g = Def(g)
  <2>1. ASSUME NEW i \in 0 .. n PROVE g[i] = IF i = 0 THEN x ELSE Step(g[i - 1], i)
    <3>1. CASE i = 0
      BY <1>8, <3>1 DEF Computes
    <3>2. CASE i # 0
      <4>1. i \in 1 .. n /\ i - 1 \in 0 .. n
        BY <3>2
      <4>2. g[i] = g0[i][g[i - 1]] /\ g[i - 1] \in S[i - 1]
        BY <1>8, <4>1 DEF Computes
      <4>3. QED BY <1>7, <3>2, <4>1, <4>2
    <3>3. QED BY <3>1, <3>2
  <2>2. g = [i \in 0 .. n |-> g[i]]
    BY <1>8 DEF Computes
  <2>3. QED BY ONLY <2>1, <2>2
<1> DEFINE h == CHOOSE h : h = Def(h)
<1>10. r = h[n].out
  BY <1>1 DEF MpvFrame, x, Step
<1> HIDE DEF Def
<1>11. h = Def(h)
  BY <1>9
<1> HIDE DEF h
<1>12. h[0] = x /\ \A i \in 0 .. n - 1 : h[i + 1] = Step(h[i], i + 1)
  <2>1. \A i \in 0 .. n : h[i] = IF i = 0 THEN x ELSE Step(h[i - 1], i)
    BY <1>11 DEF Def
  <2>2. ASSUME NEW i \in 0 .. n - 1 PROVE h[i + 1] = Step(h[i], i + 1)
    <3>1. i + 1 \in 0 .. n /\ i + 1 # 0 /\ (i + 1) - 1 = i
      OBVIOUS
    <3>2. QED BY ONLY <2>1, <3>1
  <2>3. QED BY <2>1, <2>2
<1>13. h[n] \in S[n]
  <2>1. \A i \in 0 .. n - 1 : h[i] \in S[i] => h[i + 1] \in S[i + 1]
    BY <1>5, <1>12
  <2>2. h[0] \in S[0]
    BY <1>4, <1>12
  <2>3. \A i \in 0 .. n : h[i] \in S[i]
    BY <2>1, <2>2, StagesHold
  <2>4. QED BY <2>3
<1>14. h[n] \in {v \in MpvState : MpvParsed(v, es, k0, n)}
  <2>1. n \in 0 .. n
    OBVIOUS
  <2>2. QED BY <1>13, <2>1 DEF S
<1>15. QED BY <1>10, <1>14 DEF MpvParsed

JpegType == [quant : [0 .. 15 -> Nat], luma : Int, chroma : Int, scan : Nat, init_done : BOOLEAN]
JpegState == [out : JpegType, stop : {"no", "error", "scan"}]

\* The tables of the frame header are those of frame n.
TablesOf(o, n) ==
  o.luma \in 0 .. 15 /\ o.chroma \in 0 .. 15 /\ o.quant[o.luma] = n /\ o.quant[o.chroma] = n

\* After the first k markers of frame n.
MarkersParsed(st, ms, n, k) ==
  /\ st \in JpegState
  /\ \A t \in 0 .. 15 : st.out.quant[t] \in {Null, n}
  /\ st.stop = "no" /\ (\E j \in 1 .. k : ms[j].marker = "SOF") => TablesOf(st.out, n)
  /\ st.stop = "scan" => st.out.scan > 0 /\ TablesOf(st.out, n)

LEMMA ParsingStops ==
  ASSUME NEW n \in Nat, NEW ms, NEW k, NEW st, MarkersParsed(st, ms, n, k),
         NEW o \in JpegType, o.quant = st.out.quant,
         NEW r, r = [st EXCEPT !.out = o, !.stop = "error"]
  PROVE  MarkersParsed(r, ms, n, k + 1)
<1>1. st \in JpegState /\ \A t \in 0 .. 15 : st.out.quant[t] \in {Null, n}
  BY DEF MarkersParsed
<1>2. r \in JpegState /\ r.out = o /\ r.stop = "error"
  BY ONLY o \in JpegType, r = [st EXCEPT !.out = o, !.stop = "error"], <1>1 DEF JpegState
<1>3. QED BY <1>1, <1>2 DEF MarkersParsed

LEMMA MarkerParsed ==
  ASSUME NEW n \in Nat \ {0}, NEW ms, NEW len \in Nat, len = Len(ms), DOMAIN ms = 1 .. len,
         JpegInput(ms), NEW k \in 0 .. len - 1, NEW st, MarkersParsed(st, ms, n, k)
  PROVE  MarkersParsed(ParseMarker(n, st, ms[k + 1]), ms, n, k + 1)
<1>1. PICK m : m = ms[k + 1]
  OBVIOUS
<1>2. /\ m.marker = "SOF" => m.luma \in 0 .. 15 /\ m.chroma \in 0 .. 15
      /\ m.marker = "SOS" => m.len \in Nat \ {0} /\ \E j \in 1 .. k : ms[j].marker = "SOF"
  <2>1. k + 1 \in DOMAIN ms /\ (k + 1) - 1 = k
    OBVIOUS
  <2>2. QED BY <1>1, <2>1 DEF JpegInput
<1>3. PICK r : r = ParseMarker(n, st, m)
  OBVIOUS
<1>4. PICK o \in JpegType : o = st.out
  BY DEF MarkersParsed, JpegState
<1>5. /\ st \in JpegState
      /\ \A t \in 0 .. 15 : o.quant[t] \in {Null, n}
      /\ st.stop = "no" /\ (\E j \in 1 .. k : ms[j].marker = "SOF") => TablesOf(o, n)
      /\ st.stop = "scan" => o.scan > 0 /\ TablesOf(o, n)
  BY <1>4 DEF MarkersParsed
<1>6. (\E j \in 1 .. k + 1 : ms[j].marker = "SOF") =>
        (\E j \in 1 .. k : ms[j].marker = "SOF") \/ m.marker = "SOF"
  <2>1. ASSUME NEW j \in 1 .. k + 1, ms[j].marker = "SOF"
        PROVE  (\E i \in 1 .. k : ms[i].marker = "SOF") \/ m.marker = "SOF"
    <3>1. CASE j = k + 1
      BY <1>1, <2>1, <3>1
    <3>2. CASE j # k + 1
      <4>1. j \in 1 .. k
        BY <3>2
      <4>2. QED BY <2>1, <4>1
    <3>3. QED BY <3>1, <3>2
  <2>2. QED BY <2>1
<1>7. CASE st.stop # "no"
  <2>1. r = st
    BY <1>3, <1>7 DEF ParseMarker
  <2>2. QED BY <1>1, <1>3, <1>4, <1>5, <1>7, <2>1 DEF MarkersParsed
<1>8. CASE st.stop = "no" /\ m.marker = "DQT"
  <2>1. CASE m.good
    <3>1. PICK q : q = [t \in 0 .. 15 |-> IF t \in m.ids THEN n ELSE o.quant[t]]
      OBVIOUS
    <3>2. q \in [0 .. 15 -> Nat]
      BY <3>1 DEF JpegType
    <3>3. PICK p : p = [o EXCEPT !.quant = q]
      OBVIOUS
    <3>4. p \in JpegType /\ p.quant = q /\ p.luma = o.luma /\ p.chroma = o.chroma
      BY ONLY o \in JpegType, <3>2, <3>3 DEF JpegType
    <3>5. r = [st EXCEPT !.out = p]
      BY <1>3, <1>4, <1>8, <2>1, <3>1, <3>3 DEF ParseMarker
    <3>6. r \in JpegState /\ r.out = p /\ r.stop = "no"
      BY ONLY <1>5, <1>8, <3>4, <3>5 DEF JpegState
    <3>7. \A t \in 0 .. 15 : q[t] \in {Null, n} /\ (o.quant[t] = n => q[t] = n)
      BY <1>5, <3>1
    <3>8. TablesOf(o, n) => TablesOf(p, n)
      BY <3>4, <3>7 DEF TablesOf
    <3>9. QED BY <1>1, <1>3, <1>5, <1>6, <1>8, <3>4, <3>6, <3>7, <3>8 DEF MarkersParsed
  <2>2. CASE ~m.good
    <3>1. PICK p : p = [o EXCEPT !.scan = 0]
      OBVIOUS
    <3>2. p \in JpegType /\ p.quant = o.quant
      BY ONLY o \in JpegType, <3>1 DEF JpegType
    <3>3. r = [st EXCEPT !.out = p, !.stop = "error"]
      BY <1>3, <1>4, <1>5, <1>8, <2>2, <3>1 DEF ParseMarker, JpegState
    <3>4. QED BY <1>1, <1>3, <1>4, <3>2, <3>3, ParsingStops
  <2>3. QED BY <2>1, <2>2
<1>9. CASE st.stop = "no" /\ m.marker = "SOF"
  <2>1. CASE ~m.good \/ \E t \in {m.luma, m.chroma} : o.quant[t] = Null
    <3>1. PICK p : p = [o EXCEPT !.scan = 0, !.chroma = -1]
      OBVIOUS
    <3>2. p \in JpegType /\ p.quant = o.quant
      <4>1. PICK chroma \in Int, scan \in Nat : chroma = -1 /\ scan = 0
        OBVIOUS
      <4>2. p = [o EXCEPT !.scan = scan, !.chroma = chroma]
        BY ONLY <3>1, <4>1
      <4>3. QED BY ONLY o \in JpegType, chroma \in Int, scan \in Nat, <4>2 DEF JpegType
    <3>3. r = [st EXCEPT !.out = p, !.stop = "error"]
      BY <1>3, <1>4, <1>5, <1>9, <2>1, <3>1 DEF ParseMarker, JpegState, JpegType
    <3>4. QED BY <1>1, <1>3, <1>4, <3>2, <3>3, ParsingStops
  <2>2. CASE ~(~m.good \/ \E t \in {m.luma, m.chroma} : o.quant[t] = Null)
    <3>1. PICK p : p = [o EXCEPT !.luma = m.luma, !.chroma = m.chroma]
      OBVIOUS
    <3>2. PICK luma \in 0 .. 15, chroma \in 0 .. 15 : luma = m.luma /\ chroma = m.chroma
      BY <1>2, <1>9
    <3>3. p \in JpegType /\ p.quant = o.quant /\ p.luma = luma /\ p.chroma = chroma
      <4>1. luma \in Int /\ chroma \in Int
        OBVIOUS
      <4>2. p = [o EXCEPT !.luma = luma, !.chroma = chroma]
        BY ONLY <3>1, <3>2
      <4>3. QED BY ONLY o \in JpegType, <4>1, <4>2 DEF JpegType
    <3>4. r = [st EXCEPT !.out = p]
      BY <1>3, <1>4, <1>5, <1>9, <2>2, <3>1 DEF ParseMarker, JpegState, JpegType
    <3>5. r \in JpegState /\ r.out = p /\ r.stop = "no"
      BY ONLY <1>5, <1>9, <3>3, <3>4 DEF JpegState
    <3>6. o.quant[luma] = n /\ o.quant[chroma] = n
      BY <1>5, <2>2, <3>2
    <3>7. TablesOf(p, n)
      BY <3>3, <3>6 DEF TablesOf
    <3>8. QED BY <1>1, <1>3, <1>5, <3>3, <3>5, <3>7 DEF MarkersParsed
  <2>3. QED BY <2>1, <2>2
<1>10. CASE st.stop = "no" /\ m.marker = "DHT"
  <2>1. PICK p : p = [o EXCEPT !.init_done = TRUE]
    OBVIOUS
  <2>2. p \in JpegType /\ p.quant = o.quant /\ p.luma = o.luma /\ p.chroma = o.chroma
    BY ONLY o \in JpegType, <2>1 DEF JpegType
  <2>3. r = [st EXCEPT !.out = p]
    BY <1>3, <1>4, <1>10, <2>1 DEF ParseMarker
  <2>4. r \in JpegState /\ r.out = p /\ r.stop = "no"
    BY ONLY <1>5, <1>10, <2>2, <2>3 DEF JpegState
  <2>5. TablesOf(o, n) => TablesOf(p, n)
    BY <2>2 DEF TablesOf
  <2>6. QED BY <1>1, <1>3, <1>5, <1>6, <1>10, <2>2, <2>4, <2>5 DEF MarkersParsed
<1>11. CASE st.stop = "no" /\ m.marker = "SOS"
  <2>1. PICK p : p = [o EXCEPT !.scan = m.len]
    OBVIOUS
  <2>2. PICK scan \in Nat : scan = m.len /\ scan > 0
    BY <1>2, <1>11
  <2>3. p \in JpegType /\ p.quant = o.quant /\ p.luma = o.luma /\ p.chroma = o.chroma /\ p.scan = scan
    BY ONLY o \in JpegType, scan \in Nat, <2>1, <2>2 DEF JpegType
  <2>4. r = [st EXCEPT !.out = p, !.stop = "scan"]
    BY <1>3, <1>4, <1>5, <1>11, <2>1 DEF ParseMarker, JpegState
  <2>5. r \in JpegState /\ r.out = p /\ r.stop = "scan"
    BY ONLY <1>5, <2>3, <2>4 DEF JpegState
  <2>6. TablesOf(p, n)
    BY <1>2, <1>5, <1>11, <2>3 DEF TablesOf
  <2>7. QED BY <1>1, <1>3, <1>5, <2>2, <2>3, <2>5, <2>6 DEF MarkersParsed
<1>12. CASE st.stop = "no" /\ m.marker = "junk"
  <2>1. PICK p : p = [o EXCEPT !.scan = 0]
    OBVIOUS
  <2>2. p \in JpegType /\ p.quant = o.quant
    BY ONLY o \in JpegType, <2>1 DEF JpegType
  <2>3. r = [st EXCEPT !.out = p, !.stop = "error"]
    BY <1>3, <1>4, <1>5, <1>12, <2>1 DEF ParseMarker, JpegState
  <2>4. QED BY <1>1, <1>3, <1>4, <2>2, <2>3, ParsingStops
<1>13. CASE st.stop = "no" /\ m.marker \notin {"DQT", "SOF", "DHT", "SOS", "junk"}
  <2>1. r = st
    BY <1>3, <1>13 DEF ParseMarker
  <2>2. QED BY <1>1, <1>3, <1>4, <1>5, <1>6, <1>13, <2>1 DEF MarkersParsed
<1>14. QED BY <1>7, <1>8, <1>9, <1>10, <1>11, <1>12, <1>13

\* What jpeg_process_frame has after each marker.
JpegRun(o, n, ms, len) ==
  CHOOSE h : h = [k \in 0 .. len |-> IF k = 0 THEN [out |-> Forget(o), stop |-> "no"]
                                     ELSE ParseMarker(n, h[k - 1], ms[k])]

JpegResult(st) == [ok  |-> st.stop = "scan" /\ st.out.init_done,
                   out |-> IF st.stop = "no" THEN [st.out EXCEPT !.scan = 0] ELSE st.out]

\* A frame that is sent has its own tables.
LEMMA JpegFrameParsed ==
  ASSUME NEW o \in JpegType, NEW n \in Nat \ {0}, NEW f, f.markers \in Seq(Markers),
         JpegInput(f.markers), NEW r, r = JpegFrame(o, n, f)
  PROVE  r.out \in JpegType /\ (r.ok => r.out.scan > 0 /\ TablesOf(r.out, n))
<1>1. PICK ms \in Seq(Markers), len \in Nat : ms = f.markers /\ len = Len(ms) /\ DOMAIN ms = 1 .. len
  BY LenProperties
<1> DEFINE x == [out |-> Forget(o), stop |-> "no"]
           Step(v, i) == ParseMarker(n, v, ms[i])
           Def(g) == [i \in 0 .. len |-> IF i = 0 THEN x ELSE Step(g[i - 1], i)]
           S == [i \in 0 .. len |-> {v \in JpegState : MarkersParsed(v, ms, n, i)}]
           g0 == [i \in 1 .. len |-> [v \in S[i - 1] |-> Step(v, i)]]
<1>2. x \in S[0]
  <2>1. PICK p : p = Forget(o)
    OBVIOUS
  <2>2. p \in JpegType /\ \A t \in 0 .. 15 : p.quant[t] = Null
    <3>1. PICK q \in [0 .. 15 -> Nat] : q = NoTables /\ \A t \in 0 .. 15 : q[t] = Null
      <4>1. NoTables \in [0 .. 15 -> Nat] /\ \A t \in 0 .. 15 : NoTables[t] = Null
        BY DEF NoTables, Null
      <4>2. QED BY <4>1
    <3>2. p = [o EXCEPT !.quant = q]
      BY <2>1, <3>1 DEF Forget
    <3>3. p \in JpegType /\ p.quant = q
      BY ONLY o \in JpegType, q \in [0 .. 15 -> Nat], <3>2 DEF JpegType
    <3>4. QED BY <3>1, <3>3
  <2>3. x = [out |-> p, stop |-> "no"]
    BY <2>1
  <2>4. x \in JpegState /\ x.out = p /\ x.stop = "no"
    BY ONLY <2>2, <2>3 DEF JpegState
  <2> HIDE DEF x
  <2>5. MarkersParsed(x, ms, n, 0)
    BY SMTT(30), <2>2, <2>4 DEF MarkersParsed
  <2>6. QED BY <2>4, <2>5
<1>3. ASSUME NEW i \in 0 .. len - 1, NEW v \in S[i] PROVE Step(v, i + 1) \in S[i + 1]
  <2>1. MarkersParsed(v, ms, n, i)
    OBVIOUS
  <2> HIDE DEF S
  <2>2. MarkersParsed(ParseMarker(n, v, ms[i + 1]), ms, n, i + 1)
    <3>1. JpegInput(ms)
      BY <1>1
    <3>2. PICK k \in 0 .. len - 1 : k = i
      OBVIOUS
    <3>3. MarkersParsed(v, ms, n, k)
      BY <2>1, <3>2
    <3>4. MarkersParsed(ParseMarker(n, v, ms[k + 1]), ms, n, k + 1)
      BY ONLY n \in Nat \ {0}, len \in Nat, k \in 0 .. len - 1, <1>1, <3>1, <3>3, MarkerParsed
    <3>5. QED BY <3>2, <3>4
  <2>3. Step(v, i + 1) \in JpegState
    BY <2>2 DEF MarkersParsed
  <2>4. i + 1 \in 0 .. len
    OBVIOUS
  <2>5. QED BY <2>2, <2>3, <2>4 DEF S
<1> HIDE DEF Step
<1>4. Stages(len, S, x, g0)
  <2>1. ASSUME NEW i \in 1 .. len, NEW v \in S[i - 1] PROVE g0[i][v] \in S[i]
    <3>1. g0[i][v] = Step(v, i)
      BY <2>1
    <3>2. PICK j \in 0 .. len - 1 : j = i - 1 /\ j + 1 = i
      OBVIOUS
    <3> HIDE DEF S, g0
    <3>3. Step(v, j + 1) \in S[j + 1]
      BY <1>3, <3>2
    <3>4. QED BY <3>1, <3>2, <3>3
  <2> HIDE DEF S, g0, x
  <2>2. QED BY <1>2, <2>1 DEF Stages
<1>5. \A i \in 1 .. len : \A v \in S[i - 1] : g0[i][v] = Step(v, i)
  OBVIOUS
<1> HIDE DEF S, g0, x
<1>6. PICK g : Computes(g, len, S, x, g0)
  BY <1>4, InStages DEF Computed
<1>7. g = Def(g)
  <2>1. ASSUME NEW i \in 0 .. len PROVE g[i] = IF i = 0 THEN x ELSE Step(g[i - 1], i)
    <3>1. CASE i = 0
      BY <1>6, <3>1 DEF Computes
    <3>2. CASE i # 0
      <4>1. i \in 1 .. len /\ i - 1 \in 0 .. len
        BY <3>2
      <4>2. g[i] = g0[i][g[i - 1]] /\ g[i - 1] \in S[i - 1]
        BY <1>6, <4>1 DEF Computes
      <4>3. QED BY <1>5, <3>2, <4>1, <4>2
    <3>3. QED BY <3>1, <3>2
  <2>2. g = [i \in 0 .. len |-> g[i]]
    BY <1>6 DEF Computes
  <2>3. QED BY ONLY <2>1, <2>2
<1> DEFINE h == CHOOSE h : h = Def(h)
<1>8. /\ r.ok = (h[len].stop = "scan" /\ h[len].out.init_done)
       /\ r.out = IF h[len].stop = "no" THEN [h[len].out EXCEPT !.scan = 0] ELSE h[len].out
  <2>1. PICK run : run = JpegRun(o, n, f.markers, Len(f.markers))
    OBVIOUS
  <2>2. JpegFrame(o, n, f) = JpegResult(JpegRun(o, n, f.markers, Len(f.markers))[Len(f.markers)])
    BY ONLY TRUE DEF JpegFrame, JpegRun, JpegResult
  <2>3. h = JpegRun(o, n, ms, len)
    BY DEF JpegRun, Step, x
  <2>4. r = JpegResult(run[len])
    BY ONLY r = JpegFrame(o, n, f), <1>1, <2>1, <2>2
  <2>5. run = JpegRun(o, n, ms, len)
    BY ONLY <1>1, <2>1
  <2>6. QED BY ONLY <2>3, <2>4, <2>5 DEF JpegResult
<1> HIDE DEF Def
<1>9. h = Def(h)
  BY <1>7
<1> HIDE DEF h
<1>10. h[0] = x /\ \A i \in 0 .. len - 1 : h[i + 1] = Step(h[i], i + 1)
  <2>1. \A i \in 0 .. len : h[i] = IF i = 0 THEN x ELSE Step(h[i - 1], i)
    BY <1>9 DEF Def
  <2>2. ASSUME NEW i \in 0 .. len - 1 PROVE h[i + 1] = Step(h[i], i + 1)
    <3>1. i + 1 \in 0 .. len /\ i + 1 # 0 /\ (i + 1) - 1 = i
      OBVIOUS
    <3>2. QED BY ONLY <2>1, <3>1
  <2>3. QED BY <2>1, <2>2
<1>11. h[len] \in S[len]
  <2>1. \A i \in 0 .. len - 1 : h[i] \in S[i] => h[i + 1] \in S[i + 1]
    BY <1>3, <1>10
  <2>2. h[0] \in S[0]
    BY <1>2, <1>10
  <2>3. \A i \in 0 .. len : h[i] \in S[i]
    BY <2>1, <2>2, StagesHold
  <2>4. QED BY <2>3
<1>12. PICK st \in JpegState : st = h[len] /\ MarkersParsed(st, ms, n, len)
  <2>1. len \in 0 .. len
    OBVIOUS
  <2>2. QED BY <1>11, <2>1 DEF S
<1>13. PICK p \in JpegType : p = st.out
  BY DEF JpegState
<1>14. CASE st.stop = "no"
  <2>1. r.out = [p EXCEPT !.scan = 0]
    BY <1>8, <1>12, <1>13, <1>14
  <2>2. r.out \in JpegType
    <3>1. PICK q : q = [p EXCEPT !.scan = 0]
      OBVIOUS
    <3>2. q \in JpegType
      BY ONLY p \in JpegType, <3>1 DEF JpegType
    <3>3. QED BY <2>1, <3>1, <3>2
  <2>3. ~r.ok
    BY <1>8, <1>12, <1>14
  <2>4. QED BY <2>2, <2>3
<1>15. CASE st.stop # "no"
  <2>1. r.out = p
    BY <1>8, <1>12, <1>13, <1>15
  <2>2. r.ok => st.stop = "scan"
    BY <1>8, <1>12
  <2>3. QED BY <1>12, <1>13, <2>1, <2>2 DEF MarkersParsed
<1>16. QED BY <1>14, <1>15

\* What the packetizer keeps from one frame to the next.
Kept(o) ==
  /\ fmt = "mpeg4" => o \in Mpeg4Type /\ o.config_len = 0
  /\ fmt = "jpeg" => o \in JpegType
  /\ fmt = "audio" => o \in [len : Nat, unit : {2}]
  /\ fmt = "mpv" => SequenceFits(o)

\* Frame n has been parsed.
Ready(o, n) ==
  /\ fmt = "h264" => o.len \in Nat
  /\ fmt \in {"audio", "mpa"} => o.len \in Nat \ {0}
  /\ fmt = "mpeg4" => Announced(o.iov, o.fmtp)
  /\ fmt = "jpeg" => o.scan > 0 /\ TablesOf(o, n)

LEMMA KeptFirst ==
  ASSUME fmt \in Formats
  PROVE  Kept(MediaInit(fmt))
<1>1. CASE fmt = "h264"
  BY <1>1 DEF Kept
<1>2. CASE fmt = "mpeg4"
  <2>1. << >> \in Seq(Elements("mpeg4"))
    OBVIOUS
  <2>2. PICK none \in Seq(Elements("mpeg4")) : none = << >>
    BY <2>1
  <2>3. PICK o : o = [iov |-> none, config |-> none, config_len |-> 0, fmtp |-> none, init_done |-> FALSE]
    OBVIOUS
  <2>4. o \in Mpeg4Type /\ o.config_len = 0
    BY ONLY none \in Seq(Elements("mpeg4")), <2>3 DEF Mpeg4Type
  <2>5. MediaInit(fmt) = o
    BY <1>2, <2>2, <2>3 DEF MediaInit, Mpeg4Init
  <2>6. QED BY <1>2, <2>4, <2>5 DEF Kept
<1>3. CASE fmt = "jpeg"
  <2>1. PICK q \in [0 .. 15 -> Nat] : q = NoTables
    <3>1. NoTables \in [0 .. 15 -> Nat]
      BY DEF NoTables, Null
    <3>2. QED BY <3>1
  <2>2. PICK o : o = [quant |-> q, luma |-> 0, chroma |-> 0, scan |-> 0, init_done |-> FALSE]
    OBVIOUS
  <2>3. o \in JpegType
    BY ONLY q \in [0 .. 15 -> Nat], <2>2 DEF JpegType
  <2>4. MediaInit(fmt) = o
    BY <1>3, <2>1, <2>2 DEF MediaInit, JpegInit
  <2>5. QED BY <1>3, <2>3, <2>4 DEF Kept
<1>4. CASE fmt = "audio"
  BY <1>4 DEF Kept, MediaInit, AudioInit
<1>5. CASE fmt = "mpv"
  <2>1. << >> \in Seq(Nat)
    OBVIOUS
  <2>2. PICK none \in Seq(Nat) : none = << >>
    BY <2>1
  <2>3. PICK o : o = [blk |-> none, type |-> 0, vsh |-> 0, init_done |-> FALSE]
    OBVIOUS
  <2>4. o \in MpvType /\ o.vsh = 0
    BY ONLY none \in Seq(Nat), <2>3 DEF MpvType
  <2>5. MediaInit(fmt) = o
    BY <1>5, <2>2, <2>3 DEF MediaInit, MpvInit
  <2>6. SequenceFits(o)
    BY <2>4 DEF SequenceFits, MpvHeader
  <2>7. QED BY <1>5, <2>5, <2>6 DEF Kept
<1>6. CASE fmt = "mpa"
  BY <1>6 DEF Kept
<1>7. QED BY <1>1, <1>2, <1>3, <1>4, <1>5, <1>6 DEF Formats

LEMMA FrameParsed ==
  ASSUME fmt \in Tracks, Kept(out), NEW f \in Frames[fmt], NEW n \in Nat \ {0},
         NEW r, r = MediaFrame(fmt, out, n, f)
  PROVE  Kept(r.out) /\ (r.ok => Ready(r.out, n))
<1>1. fmt \in Formats /\ Input(fmt, f)
  BY FramesAssumption
<1>2. CASE fmt = "h264"
  <2>1. r = H264Frame(out, f)
    BY <1>2 DEF MediaFrame
  <2>2. f.len \in Nat /\ (f.code \in {3, 4} => f.code <= f.len)
    BY <1>1, <1>2 DEF Input
  <2>3. ASSUME f.code \in {3, 4} PROVE r.out.len \in Nat
    <3>1. PICK len, code : len = f.len /\ code = f.code
      OBVIOUS
    <3>2. len \in Nat /\ code \in {3, 4} /\ code <= len
      BY <2>3, <2>2, <3>1
    <3>3. r.out = [len |-> len - code]
      BY <2>3, <2>1, <3>1 DEF H264Frame
    <3>4. r.out.len = len - code /\ len - code \in Nat
      BY ONLY <3>2, <3>3
    <3>5. QED BY <3>4
  <2>4. ASSUME r.ok PROVE f.code \in {3, 4}
    <3>1. CASE f.code \notin {3, 4}
      <4>1. r = [ok |-> FALSE, out |-> out]
        BY <2>1, <3>1 DEF H264Frame
      <4>2. QED BY <2>4, <4>1
    <3>2. QED BY <3>1
  <2>5. QED BY <1>2, <2>3, <2>4 DEF Kept, Ready
<1>3. CASE fmt = "mpeg4"
  <2>1. r = Mpeg4Frame(out, f)
    BY <1>3 DEF MediaFrame
  <2>2. /\ f.elements \in Seq(Elements("mpeg4"))
        /\ \A i \in DOMAIN f.elements : f.elements[i].len \in Nat
        /\ Mpeg4Input(f.elements)
    BY <1>1, <1>3 DEF Input
  <2>3. PICK o : o = r.out
    OBVIOUS
  <2>4. o \in Mpeg4Type /\ o.config_len = 0 /\ Announced(o.iov, o.fmtp)
    BY <1>3, <2>1, <2>2, <2>3, Mpeg4FrameParsed DEF Kept
  <2>5. QED BY <1>3, <2>3, <2>4 DEF Kept, Ready
<1>4. CASE fmt = "jpeg"
  <2>1. r = JpegFrame(out, n, f)
    BY <1>4 DEF MediaFrame
  <2>2. f.markers \in Seq(Markers) /\ JpegInput(f.markers)
    BY <1>1, <1>4 DEF Input
  <2>3. out \in JpegType
    BY <1>4 DEF Kept
  <2>4. r.out \in JpegType /\ (r.ok => r.out.scan > 0 /\ TablesOf(r.out, n))
    BY <2>1, <2>2, <2>3, JpegFrameParsed
  <2>5. QED BY <1>4, <2>4 DEF Kept, Ready
<1>5. CASE fmt = "audio"
  <2>1. r = [ok |-> TRUE, out |-> [out EXCEPT !.len = f.len]]
    BY <1>5 DEF MediaFrame, AudioFrame
  <2>2. f.len \in Nat \ {0} /\ out \in [len : Nat, unit : {2}]
    BY <1>1, <1>5 DEF Input, Kept
  <2>3. r.out \in [len : Nat, unit : {2}] /\ r.out.len = f.len
    BY <2>1, <2>2
  <2>4. QED BY <1>5, <2>2, <2>3 DEF Kept, Ready
<1>6. CASE fmt = "mpv"
  <2>1. r = MpvFrame(out, f)
    BY <1>6 DEF MediaFrame
  <2>2. /\ f.elements \in Seq(Elements("mpv"))
        /\ \A i \in DOMAIN f.elements : f.elements[i].len \in Nat
        /\ MpvInput(f.elements)
    BY <1>1, <1>6 DEF Input
  <2>3. PICK o : o = r.out
    OBVIOUS
  <2>4. SequenceFits(o)
    BY <1>6, <2>1, <2>2, <2>3, MpvFrameParsed DEF Kept
  <2>5. QED BY <1>6, <2>3, <2>4 DEF Kept, Ready
<1>7. CASE fmt = "mpa"
  <2>1. r = [ok |-> TRUE, out |-> [len |-> f.len]]
    BY <1>7 DEF MediaFrame, MpaFrame
  <2>2. f.len \in Nat \ {0}
    BY <1>1, <1>7 DEF Input
  <2>3. QED BY <1>7, <2>1, <2>2 DEF Kept, Ready
<1>8. QED BY <1>1, <1>2, <1>3, <1>4, <1>5, <1>6, <1>7 DEF Formats

\* Whatever has been parsed is sent in full.
LEMMA SendComplete ==
  ASSUME fmt \in Tracks, NEW n \in Nat, Kept(out), Ready(out, n), NEW max \in {1400, 8192}
  PROVE  /\ Complete(MediaSend(fmt, out, max), max)
         /\ fmt = "jpeg" => TablesAre(MediaSend(fmt, out, max), n, n)
<1>1. fmt \in Formats
  BY FramesAssumption
<1>2. max \in Nat \ {0} /\ max > 200 /\ max >= 1400
  OBVIOUS
<1>3. CASE fmt = "h264"
  <2>1. MediaSend(fmt, out, max) = H264Send(out, max)
    BY <1>3 DEF MediaSend
  <2>2. out.len \in Nat /\ max > 3
    BY <1>2, <1>3 DEF Ready
  <2>3. Complete(H264Send(out, max), max)
    BY <1>2, <1>3, <2>2, H264Complete
  <2>4. QED BY <1>3, <2>1, <2>3
<1>4. CASE fmt = "mpeg4"
  <2>1. MediaSend(fmt, out, max) = Mpeg4Send(out, max)
    BY <1>4 DEF MediaSend
  <2>2. out.iov \in Seq(Elements("mpeg4"))
    BY <1>4, Mpeg4Fields DEF Kept
  <2>3. \A i \in 1 .. Len(out.iov) : out.iov[i].len \in Nat
    <3>1. \A e \in Elements("mpeg4") : e.len \in Nat
      BY <1>4, ElementLengths
    <3>2. \A i \in 1 .. Len(out.iov) : out.iov[i] \in Elements("mpeg4")
      BY <2>2, ElementOfSeq
    <3>3. QED BY <3>1, <3>2
  <2>4. Complete(Mpeg4Send(out, max), max)
    BY <1>2, <1>4, <2>2, <2>3, Mpeg4Complete
  <2>5. QED BY <1>4, <2>1, <2>4
<1>5. CASE fmt = "jpeg"
  <2>1. MediaSend(fmt, out, max) = JpegSend(out, max)
    BY <1>5 DEF MediaSend
  <2>2. out \in JpegType /\ out.scan > 0 /\ TablesOf(out, n)
    BY <1>5 DEF Kept, Ready
  <2>3. out.scan \in Nat \ {0} /\ out.quant[out.luma] = n /\ out.quant[out.chroma] = n
    BY <2>2 DEF JpegType, TablesOf
  <2>4. /\ Complete(JpegSend(out, max), max)
        /\ TablesAre(JpegSend(out, max), out.quant[out.luma], out.quant[out.chroma])
    BY <1>2, <1>5, <2>3, JpegComplete
  <2>5. QED BY <1>5, <2>1, <2>3, <2>4
<1>6. CASE fmt = "audio"
  <2>1. MediaSend(fmt, out, max) = AudioSend(out, max)
    BY <1>6 DEF MediaSend
  <2>2. out.len \in Nat \ {0} /\ out.unit = 2 /\ max > 1
    BY <1>2, <1>6 DEF Ready, Kept
  <2>3. Complete(AudioSend(out, max), max)
    BY <1>2, <1>6, <2>2, AudioComplete
  <2>4. QED BY <1>6, <2>1, <2>3
<1>7. CASE fmt = "mpv"
  <2>1. MediaSend(fmt, out, max) = MpvSend(out, max)
    BY <1>7 DEF MediaSend
  <2>2. /\ out.blk \in Seq(Nat) /\ out.vsh \in Nat
        /\ max >= 8 /\ (out.type = 1 => out.vsh <= max - 4)
    BY <1>2, <1>7 DEF Kept, SequenceFits, MpvType, MpvHeader
  <2>3. Complete(MpvSend(out, max), max)
    BY <1>2, <1>7, <2>2, MpvComplete
  <2>4. QED BY <1>7, <2>1, <2>3
<1>8. CASE fmt = "mpa"
  <2>1. MediaSend(fmt, out, max) = MpaSend(out, max)
    BY <1>8 DEF MediaSend
  <2>2. out.len \in Nat \ {0}
    BY <1>8 DEF Ready
  <2>3. Complete(MpaSend(out, max), max)
    BY <1>2, <1>8, <2>2, MpaComplete
  <2>4. QED BY <1>8, <2>1, <2>3
<1>9. QED BY <1>1, <1>3, <1>4, <1>5, <1>6, <1>7, <1>8 DEF Formats

-----------------------------------------------------------------------------
(* What becomes of the packets                                             *)

EpType == [trans : {"none", "udp", "inter"}, playing : BOOLEAN, lost : BOOLEAN,
           force : BOOLEAN, step : 0 .. 2]

SendingType == [x : EpType, got : Seq(PacketType), steps : Seq(0 .. 2), ret : {-1, 0}]

SameEndpoint(x, y) == x.trans = y.trans /\ x.lost = y.lost

\* The packet goes on its way; a sending that ends with it may end the endpoint.
Moves(st, p, r) ==
  /\ r.got = Append(st.got, p) /\ r.steps = Append(st.steps, st.x.step)
  /\ \/ r.ret = st.ret /\ SameEndpoint(r.x, st.x) /\ r.x.step = 1
     \/ r.ret = -1 /\ SameEndpoint(r.x, st.x)
     \/ r.ret = -1 /\ r.x = NoEndpoint

\* It does not; only a full ring lets the sending go on after that.
Stays(st, r) ==
  /\ r.got = st.got /\ r.steps = st.steps /\ SameEndpoint(r.x, st.x)
  /\ \/ r.ret = -1
     \/ r.ret = st.ret /\ st.x.trans = "inter" /\ r.x.step = 2

LEMMA NoEndpointType == NoEndpoint \in EpType
BY DEF NoEndpoint, EpType

LEMMA StepSet ==
  ASSUME NEW y \in EpType, NEW v \in 0 .. 2, NEW z, z = [y EXCEPT !.step = v]
  PROVE  z \in EpType /\ SameEndpoint(z, y) /\ z.step = v
<1>1. z \in EpType
  BY DEF EpType
<1>2. z.trans = y.trans /\ z.step = v
  BY DEF EpType
<1>3. z.lost = y.lost
  BY DEF EpType
<1>4. QED BY <1>1, <1>2, <1>3 DEF SameEndpoint

LEMMA Forced ==
  ASSUME NEW y \in EpType, NEW z, z = [y EXCEPT !.force = FALSE]
  PROVE  z \in EpType /\ SameEndpoint(z, y) /\ z.step = y.step
<1>1. z \in EpType
  BY DEF EpType
<1>2. z.trans = y.trans /\ z.step = y.step
  BY DEF EpType
<1>3. z.lost = y.lost
  BY DEF EpType
<1>4. QED BY <1>1, <1>2, <1>3 DEF SameEndpoint

LEMMA PacketSent ==
  ASSUME NEW st \in SendingType, st.x.trans \in {"udp", "inter"}, NEW p \in PacketType,
         NEW o \in Outcomes(st.x), NEW r, r = SendRtpPacket(st, p, o)
  PROVE  r \in SendingType /\ (Moves(st, p, r) \/ Stays(st, r))
<1>1. PICK x, got, steps, ret : x = st.x /\ got = st.got /\ steps = st.steps /\ ret = st.ret
  OBVIOUS
<1>2. x \in EpType /\ got \in Seq(PacketType) /\ steps \in Seq(0 .. 2) /\ ret \in {-1, 0}
  BY <1>1 DEF SendingType
<1>3. x.step \in 0 .. 2
  BY <1>2 DEF EpType
<1>4. PICK more \in Seq(PacketType) : more = Append(got, p)
  BY <1>2, AppendProperties
<1>5. PICK on \in Seq(0 .. 2) : on = Append(steps, x.step)
  BY <1>2, <1>3, AppendProperties
<1>6. PICK fails \in {-1, 0} : fails = -1
  OBVIOUS
<1>7. PICK y : y = [x EXCEPT !.force = FALSE]
  OBVIOUS
<1>8. y \in EpType /\ SameEndpoint(y, x) /\ y.step = x.step
  BY <1>2, <1>7, Forced
<1>9. PICK s : s = [st EXCEPT !.got = more, !.steps = on, !.x.force = FALSE]
  OBVIOUS
<1>10. s.got = more /\ s.steps = on /\ s.ret = ret /\ s.x = y /\ s \in SendingType
  BY ONLY st \in SendingType, more \in Seq(PacketType), on \in Seq(0 .. 2), <1>1, <1>7, <1>8, <1>9
     DEF SendingType
<1>11. OnItsWay(st, p) = s
  BY <1>1, <1>4, <1>5, <1>9 DEF OnItsWay
<1>12. o \in {"ok", "refused", "ok_failed", "ended", "full", "full_failed"}
  <2>1. x.trans \in {"udp", "inter"} /\ x.force \in BOOLEAN
    BY <1>1, <1>2 DEF EpType
  <2>2. CASE x.force
    BY <1>1, <2>1, <2>2 DEF Outcomes
  <2>3. CASE ~x.force
    BY <1>1, <2>1, <2>3 DEF Outcomes
  <2>4. QED BY <2>2, <2>3
<1>13. CASE o = "ok"
  <2>1. r = [s EXCEPT !.x.step = 1]
    BY <1>11, <1>13 DEF SendRtpPacket
  <2>2. PICK one \in 0 .. 2 : one = 1
    OBVIOUS
  <2>3. PICK z : z = [y EXCEPT !.step = one]
    OBVIOUS
  <2>4. z \in EpType /\ SameEndpoint(z, y) /\ z.step = one
    BY <1>8, <2>3, StepSet
  <2>5. r = [s EXCEPT !.x.step = one]
    BY <2>1, <2>2
  <2>6. r \in SendingType /\ r.got = more /\ r.steps = on /\ r.ret = ret /\ r.x = z
    <3>1. s \in SendingType /\ s.x = y
      BY <1>10
    <3>2. r.x = z
      BY ONLY <3>1, <2>3, <2>5 DEF SendingType
    <3>3. r \in SendingType
      BY ONLY <3>1, <2>3, <2>4, <2>5 DEF SendingType
    <3>4. r.got = s.got /\ r.steps = s.steps /\ r.ret = s.ret
      BY ONLY <3>1, <2>5 DEF SendingType
    <3>5. QED BY <1>10, <3>2, <3>3, <3>4
  <2>7. SameEndpoint(r.x, st.x) /\ r.x.step = 1
    BY <1>1, <1>8, <2>2, <2>4, <2>6 DEF SameEndpoint
  <2>8. QED BY <1>1, <1>4, <1>5, <2>6, <2>7 DEF Moves
<1>14. CASE o = "ok_failed"
  <2>1. r = [s EXCEPT !.x.step = 0, !.ret = -1]
    BY <1>11, <1>14 DEF SendRtpPacket
  <2>2. PICK zero \in 0 .. 2 : zero = 0
    OBVIOUS
  <2>3. PICK z : z = [y EXCEPT !.step = zero]
    OBVIOUS
  <2>4. z \in EpType /\ SameEndpoint(z, y) /\ z.step = zero
    BY <1>8, <2>3, StepSet
  <2>5. r = [s EXCEPT !.x.step = zero, !.ret = fails]
    BY <1>6, <2>1, <2>2
  <2>6. r \in SendingType /\ r.got = more /\ r.steps = on /\ r.ret = fails /\ r.x = z
    <3>1. s \in SendingType /\ s.x = y
      BY <1>10
    <3>2. r.x = z
      BY ONLY <3>1, <2>3, <2>5 DEF SendingType
    <3>3. r \in SendingType
      BY ONLY <3>1, fails \in {-1, 0}, <2>3, <2>4, <2>5 DEF SendingType
    <3>4. r.got = s.got /\ r.steps = s.steps /\ r.ret = fails
      BY ONLY <3>1, <2>5 DEF SendingType
    <3>5. QED BY <1>10, <3>2, <3>3, <3>4
  <2>7. SameEndpoint(r.x, st.x) /\ r.ret = -1
    BY <1>1, <1>6, <1>8, <2>4, <2>6 DEF SameEndpoint
  <2>8. QED BY <1>1, <1>4, <1>5, <2>6, <2>7 DEF Moves
<1>15. CASE o = "ended"
  <2>1. r = [s EXCEPT !.x = NoEndpoint, !.ret = fails]
    BY <1>6, <1>11, <1>15 DEF SendRtpPacket
  <2>2. PICK z \in EpType : z = NoEndpoint
    BY NoEndpointType
  <2>3. r = [s EXCEPT !.x = z, !.ret = fails]
    BY <2>1, <2>2
  <2>4. r \in SendingType /\ r.got = more /\ r.steps = on /\ r.ret = fails /\ r.x = z
    <3>1. s \in SendingType
      BY <1>10
    <3>2. r \in SendingType
      BY ONLY <3>1, fails \in {-1, 0}, z \in EpType, <2>3 DEF SendingType
    <3>3. r.got = s.got /\ r.steps = s.steps /\ r.ret = fails /\ r.x = z
      BY ONLY <3>1, <2>3 DEF SendingType
    <3>4. QED BY <1>10, <3>2, <3>3
  <2>5. QED BY <1>1, <1>4, <1>5, <1>6, <2>2, <2>4 DEF Moves
<1>16. CASE o = "full"
  <2>1. st.x.trans = "inter"
    BY <1>16 DEF Outcomes
  <2>2. PICK two \in 0 .. 2 : two = 2
    OBVIOUS
  <2>3. PICK u : u = [x EXCEPT !.step = two]
    OBVIOUS
  <2>4. u \in EpType /\ SameEndpoint(u, x) /\ u.step = two
    BY <1>2, <2>3, StepSet
  <2>5. PICK z : z = [u EXCEPT !.force = FALSE]
    OBVIOUS
  <2>6. z \in EpType /\ SameEndpoint(z, u) /\ z.step = u.step
    BY <2>4, <2>5, Forced
  <2>7. r = [st EXCEPT !.x.step = two, !.x.force = FALSE]
    BY <1>16, <2>2 DEF SendRtpPacket, Skipped
  <2>8. r \in SendingType /\ r.got = got /\ r.steps = steps /\ r.ret = ret /\ r.x = z
    BY ONLY st \in SendingType, <1>1, <2>3, <2>4, <2>5, <2>6, <2>7 DEF SendingType
  <2>9. SameEndpoint(r.x, st.x) /\ r.x.step = 2
    BY <1>1, <2>2, <2>4, <2>6, <2>8 DEF SameEndpoint
  <2>10. QED BY <1>1, <2>1, <2>8, <2>9 DEF Stays
<1>17. CASE o = "full_failed"
  <2>1. r = [st EXCEPT !.x.force = FALSE, !.ret = fails]
    BY <1>6, <1>17 DEF SendRtpPacket
  <2>2. r \in SendingType /\ r.got = got /\ r.steps = steps /\ r.ret = fails /\ r.x = y
    BY ONLY st \in SendingType, fails \in {-1, 0}, <1>1, <1>7, <1>8, <2>1 DEF SendingType
  <2>3. QED BY <1>1, <1>6, <1>8, <2>2 DEF Stays
<1>18. CASE o = "refused"
  <2>1. r = [st EXCEPT !.ret = fails]
    BY <1>6, <1>18 DEF SendRtpPacket
  <2>2. r \in SendingType /\ r.got = got /\ r.steps = steps /\ r.ret = fails /\ r.x = x
    BY ONLY st \in SendingType, fails \in {-1, 0}, <1>1, <2>1 DEF SendingType
  <2>3. QED BY <1>1, <1>6, <2>2 DEF Stays, SameEndpoint
<1>19. QED BY <1>12, <1>13, <1>14, <1>15, <1>16, <1>17, <1>18

\* The packets the client got are the first ones of the frame.
InOrder(got, packets) ==
  Len(got) <= Len(packets) /\ \A i \in 1 .. Len(got) : got[i] = packets[i]

\* Where the sending of the first k packets to endpoint x0 can have led.
Way(st, x0, packets, k) ==
  /\ st \in SendingType /\ Len(st.steps) = Len(st.got)
  /\ SameEndpoint(st.x, x0) \/ (st.x = NoEndpoint /\ st.ret = -1)
  /\ \A i \in 1 .. Len(st.got) : \E j \in 1 .. Len(packets) : st.got[i] = packets[j]
  /\ (\A i \in 1 .. Len(st.got) : st.steps[i] = 1) =>
        InOrder(st.got, packets) /\ (st.ret = 0 /\ st.x.step = 1 => Len(st.got) = k)
  /\ x0.trans = "udp" => InOrder(st.got, packets) /\ (st.ret = 0 => Len(st.got) = k)

LEMMA WayOn ==
  ASSUME NEW packets \in Seq(PacketType), NEW x0, x0.trans \in {"udp", "inter"},
         NEW k \in Nat, k < Len(packets), NEW st, Way(st, x0, packets, k),
         NEW r, r \in SendingType,
         Moves(st, packets[k + 1], r) \/ Stays(st, r), st.ret = 0
  PROVE  Way(r, x0, packets, k + 1)
<1>1. PICK n \in Nat : n = Len(st.got) /\ n = Len(st.steps)
  BY LenProperties DEF Way, SendingType
<1>2. PICK len \in Nat : len = Len(packets)
  BY LenProperties
<1>3. k + 1 \in 1 .. len
  BY <1>2
<1>4. PICK p \in PacketType : p = packets[k + 1]
  BY <1>2, <1>3, ElementOfSeq
<1>5. st \in SendingType /\ SameEndpoint(st.x, x0)
  BY DEF Way
<1>6. st.got \in Seq(PacketType) /\ st.steps \in Seq(0 .. 2) /\ st.x \in EpType /\ st.x.step \in 0 .. 2
  BY <1>5 DEF SendingType, EpType
<1>7. SameEndpoint(r.x, x0) \/ (r.x = NoEndpoint /\ r.ret = -1)
  BY <1>5 DEF Moves, Stays, SameEndpoint
<1>8. CASE Moves(st, p, r)
  <2>1. r.got = Append(st.got, p) /\ r.steps = Append(st.steps, st.x.step)
    BY <1>8 DEF Moves
  <2>2. PICK got \in Seq(PacketType), steps \in Seq(0 .. 2), s \in 0 .. 2 :
          got = st.got /\ steps = st.steps /\ s = st.x.step
    BY <1>6
  <2>3. /\ Len(Append(got, p)) = n + 1 /\ Append(got, p)[n + 1] = p
        /\ \A i \in 1 .. n : Append(got, p)[i] = got[i]
    <3>1. Len(got) = n
      BY <1>1, <2>2
    <3>2. QED BY ONLY got \in Seq(PacketType), p \in PacketType, n \in Nat, <3>1, AppendProperties
  <2>4. /\ Len(Append(steps, s)) = n + 1 /\ Append(steps, s)[n + 1] = s
        /\ \A i \in 1 .. n : Append(steps, s)[i] = steps[i]
    <3>1. Len(steps) = n
      BY <1>1, <2>2
    <3>2. QED BY ONLY steps \in Seq(0 .. 2), s \in 0 .. 2, n \in Nat, <3>1, AppendProperties
  <2>5. Len(r.got) = n + 1 /\ Len(r.steps) = n + 1
    BY <2>1, <2>2, <2>3, <2>4
  <2>6. /\ \A i \in 1 .. n : r.got[i] = st.got[i] /\ r.steps[i] = st.steps[i]
        /\ r.got[n + 1] = p /\ r.steps[n + 1] = st.x.step
    BY <2>1, <2>2, <2>3, <2>4
  <2>7. \A i \in 1 .. n + 1 : i \in 1 .. n \/ i = n + 1
    OBVIOUS
  <2>8. \A i \in 1 .. Len(r.got) : \E j \in 1 .. Len(packets) : r.got[i] = packets[j]
    <3>1. \A i \in 1 .. n : \E j \in 1 .. Len(packets) : st.got[i] = packets[j]
      BY <1>1 DEF Way
    <3>2. QED BY <1>2, <1>3, <1>4, <2>5, <2>6, <2>7, <3>1
  <2>9. ASSUME InOrder(st.got, packets), n = k
        PROVE  InOrder(r.got, packets) /\ Len(r.got) = k + 1
    <3>1. \A i \in 1 .. n : st.got[i] = packets[i]
      BY <1>1, <2>9 DEF InOrder
    <3>2. \A i \in 1 .. n + 1 : r.got[i] = packets[i]
      BY <1>4, <2>6, <2>7, <2>9, <3>1
    <3>3. n + 1 <= Len(packets)
      BY <1>2, <2>9
    <3>4. QED BY <2>5, <2>9, <3>2, <3>3 DEF InOrder
  <2>10. ASSUME \A i \in 1 .. Len(r.got) : r.steps[i] = 1
         PROVE  InOrder(r.got, packets) /\ Len(r.got) = k + 1
    <3>1. \A i \in 1 .. n : r.steps[i] = 1
      BY <2>5, <2>10
    <3>2. n + 1 \in 1 .. n + 1
      OBVIOUS
    <3>3. r.steps[n + 1] = 1
      BY <2>5, <2>10, <3>2
    <3>4. InOrder(st.got, packets) /\ n = k
      BY <1>1, <2>6, <3>1, <3>3 DEF Way
    <3>5. QED BY <2>9, <3>4
  <2>11. x0.trans = "udp" => InOrder(r.got, packets) /\ Len(r.got) = k + 1
    BY <1>1, <2>9 DEF Way
  <2>12. Len(r.steps) = Len(r.got)
    BY <2>5
  <2>13. QED BY <1>7, <2>8, <2>10, <2>11, <2>12 DEF Way
<1>9. CASE Stays(st, r)
  <2>1. r.got = st.got /\ r.steps = st.steps /\ SameEndpoint(r.x, st.x)
    BY <1>9 DEF Stays
  <2>2. CASE r.ret = -1
    BY <1>7, <2>1, <2>2 DEF Way
  <2>3. CASE st.x.trans = "inter" /\ r.x.step = 2
    <3>1. x0.trans = "inter"
      BY <1>5, <2>3 DEF SameEndpoint
    <3>2. QED BY <1>7, <2>1, <2>3, <3>1 DEF Way
  <2>4. QED BY <1>9, <2>2, <2>3 DEF Stays
<1>10. QED BY <1>4, <1>8, <1>9

LEMMA WaySame ==
  ASSUME NEW packets, NEW x0, NEW k \in Nat, NEW st, Way(st, x0, packets, k), st.ret # 0
  PROVE  Way(st, x0, packets, k + 1)
BY DEF Way

LEMMA WayFirst ==
  ASSUME NEW packets \in Seq(PacketType), NEW e \in Endpoints, ep[e] \in EpType
  PROVE  Way(Unsent(e), ep[e], packets, 0)
<1>1. PICK x, got, steps, none : x = ep[e] /\ got = << >> /\ steps = << >> /\ none = 0
  OBVIOUS
<1>2. none \in {-1, 0}
  BY <1>1
<1>3. got \in Seq(PacketType) /\ steps \in Seq(0 .. 2) /\ Len(got) = 0 /\ Len(steps) = 0
  BY <1>1
<1>4. PICK st : st = [x |-> x, got |-> got, steps |-> steps, ret |-> none]
  OBVIOUS
<1>5. st \in SendingType /\ st.x = x /\ st.got = got /\ st.steps = steps /\ st.ret = none
  <2>1. x \in EpType
    BY <1>1
  <2>2. got \in Seq(PacketType) /\ steps \in Seq(0 .. 2)
    BY <1>3
  <2>3. QED BY ONLY <1>2, <1>4, <2>1, <2>2 DEF SendingType
<1>6. Unsent(e) = st
  BY <1>1, <1>4 DEF Unsent
<1>7. Len(packets) \in Nat
  BY LenProperties
<1>8. QED BY <1>1, <1>3, <1>5, <1>6, <1>7 DEF Way, SameEndpoint, InOrder

\* Whatever happens to the packets, a client that is told of no gap has the first
\* packets of the frame in order, and a UDP client of a frame that counts as sent
\* has all of them.
LEMMA SendingsAre ==
  ASSUME NEW e \in Endpoints, ep[e] \in EpType, ep[e].trans \in {"udp", "inter"},
         NEW packets \in Seq(PacketType), packets = MediaSend(fmt, out, MaxDataSize(e)),
         NEW st \in Sendings(e)
  PROVE  Way(st, ep[e], packets, Len(packets))
<1>1. PICK x0 : x0 = ep[e] /\ x0.trans \in {"udp", "inter"}
  OBVIOUS
<1>2. PICK n \in Nat : n = Len(packets)
  BY LenProperties
<1> DEFINE x == {Unsent(e)}
           Step(A, i) == UNION { IF v.ret < 0 THEN {v}
                                 ELSE { SendRtpPacket(v, packets[i], o) : o \in Outcomes(v.x) } : v \in A }
           Def(g) == [i \in 0 .. n |-> IF i = 0 THEN x ELSE Step(g[i - 1], i)]
           S == [i \in 0 .. n |-> SUBSET {v \in SendingType : Way(v, x0, packets, i)}]
           g0 == [i \in 1 .. n |-> [A \in S[i - 1] |-> Step(A, i)]]
<1>3. x \in S[0]
  <2>1. Way(Unsent(e), x0, packets, 0)
    BY <1>1, WayFirst
  <2>2. Unsent(e) \in SendingType
    BY <2>1 DEF Way
  <2>3. QED BY <2>1, <2>2
<1>4. ASSUME NEW i \in 0 .. n - 1, NEW A \in S[i] PROVE Step(A, i + 1) \in S[i + 1]
  <2>1. \A v \in A : v \in SendingType /\ Way(v, x0, packets, i)
    OBVIOUS
  <2> HIDE DEF S
  <2>2. i \in Nat /\ i < Len(packets) /\ i + 1 \in 0 .. n /\ i + 1 \in 1 .. n
    BY <1>2
  <2>3. PICK p \in PacketType : p = packets[i + 1]
    BY <1>2, <2>2, ElementOfSeq
  <2>4. ASSUME NEW w \in Step(A, i + 1) PROVE w \in SendingType /\ Way(w, x0, packets, i + 1)
    <3>1. PICK v \in A : w \in IF v.ret < 0 THEN {v}
                               ELSE { SendRtpPacket(v, packets[i + 1], o) : o \in Outcomes(v.x) }
      BY <2>4
    <3> HIDE DEF Step
    <3>2. v \in SendingType /\ Way(v, x0, packets, i) /\ v.ret \in {-1, 0}
      BY <2>1 DEF SendingType
    <3>3. CASE v.ret < 0
      <4>1. w = v /\ v.ret # 0
        BY <3>1, <3>3
      <4>2. Way(v, x0, packets, i + 1)
        BY <2>2, <3>2, <4>1, WaySame
      <4>3. QED BY <3>2, <4>1, <4>2
    <3>4. CASE ~(v.ret < 0)
      <4>1. v.ret = 0
        BY <3>2, <3>4
      <4>2. PICK o \in Outcomes(v.x) : w = SendRtpPacket(v, p, o)
        BY <2>3, <3>1, <3>4
      <4>3. v.x.trans \in {"udp", "inter"}
        <5>1. SameEndpoint(v.x, x0)
          BY <3>2, <4>1 DEF Way
        <5>2. QED BY <1>1, <5>1 DEF SameEndpoint
      <4>4. w \in SendingType /\ (Moves(v, p, w) \/ Stays(v, w))
        BY <3>2, <4>2, <4>3, PacketSent
      <4>5. Way(w, x0, packets, i + 1)
        BY <1>1, <2>2, <2>3, <3>2, <4>1, <4>4, WayOn
      <4>6. QED BY <4>4, <4>5
    <3>5. QED BY <3>3, <3>4
  <2> HIDE DEF Step
  <2>5. S[i + 1] = SUBSET {v \in SendingType : Way(v, x0, packets, i + 1)}
    BY <2>2 DEF S
  <2>6. QED BY <2>4, <2>5
<1> HIDE DEF Step
<1>5. Stages(n, S, x, g0)
  <2>1. ASSUME NEW i \in 1 .. n, NEW v \in S[i - 1] PROVE g0[i][v] \in S[i]
    <3>1. g0[i][v] = Step(v, i)
      BY <2>1
    <3>2. PICK j \in 0 .. n - 1 : j = i - 1 /\ j + 1 = i
      OBVIOUS
    <3> HIDE DEF S, g0
    <3>3. Step(v, j + 1) \in S[j + 1]
      BY <1>4, <3>2
    <3>4. QED BY <3>1, <3>2, <3>3
  <2> HIDE DEF S, g0, x
  <2>2. QED BY <1>3, <2>1 DEF Stages
<1>6. \A i \in 1 .. n : \A v \in S[i - 1] : g0[i][v] = Step(v, i)
  OBVIOUS
<1> HIDE DEF S, g0, x
<1>7. PICK g : Computes(g, n, S, x, g0)
  BY <1>5, InStages DEF Computed
<1>8. g = Def(g)
  <2>1. ASSUME NEW i \in 0 .. n PROVE g[i] = IF i = 0 THEN x ELSE Step(g[i - 1], i)
    <3>1. CASE i = 0
      BY <1>7, <3>1 DEF Computes
    <3>2. CASE i # 0
      <4>1. i \in 1 .. n /\ i - 1 \in 0 .. n
        BY <3>2
      <4>2. g[i] = g0[i][g[i - 1]] /\ g[i - 1] \in S[i - 1]
        BY <1>7, <4>1 DEF Computes
      <4>3. QED BY <1>6, <3>2, <4>1, <4>2
    <3>3. QED BY <3>1, <3>2
  <2>2. g = [i \in 0 .. n |-> g[i]]
    BY <1>7 DEF Computes
  <2>3. QED BY ONLY <2>1, <2>2
<1> DEFINE h == CHOOSE h : h = Def(h)
<1>9. Sendings(e) = h[n]
  BY <1>2 DEF Sendings, x, Step
<1> HIDE DEF Def
<1>10. h = Def(h)
  BY <1>8
<1> HIDE DEF h
<1>11. h[0] = x /\ \A i \in 0 .. n - 1 : h[i + 1] = Step(h[i], i + 1)
  <2>1. \A i \in 0 .. n : h[i] = IF i = 0 THEN x ELSE Step(h[i - 1], i)
    BY <1>10 DEF Def
  <2>2. ASSUME NEW i \in 0 .. n - 1 PROVE h[i + 1] = Step(h[i], i + 1)
    <3>1. i + 1 \in 0 .. n /\ i + 1 # 0 /\ (i + 1) - 1 = i
      OBVIOUS
    <3>2. QED BY ONLY <2>1, <3>1
  <2>3. QED BY <2>1, <2>2
<1>12. h[n] \in S[n]
  <2>1. \A i \in 0 .. n - 1 : h[i] \in S[i] => h[i + 1] \in S[i + 1]
    BY <1>4, <1>11
  <2>2. h[0] \in S[0]
    BY <1>3, <1>11
  <2>3. \A i \in 0 .. n : h[i] \in S[i]
    BY <2>1, <2>2, StagesHold
  <2>4. QED BY <2>3
<1>13. st \in h[n]
  BY <1>9
<1>14. QED
  <2>1. n \in 0 .. n
    OBVIOUS
  <2>2. S[n] = SUBSET {v \in SendingType : Way(v, x0, packets, n)}
    BY <2>1 DEF S
  <2>3. st \in {v \in SendingType : Way(v, x0, packets, n)}
    BY <1>12, <1>13, <2>2
  <2>4. Way(st, x0, packets, n)
    BY <2>3
  <2>5. QED BY <1>1, <1>2, <2>4

-----------------------------------------------------------------------------
(* The inductive invariant                                                 *)

WireType == [result : Results, key : BOOLEAN, packets : Seq(PacketType), steps : Seq(0 .. 2)]

TrackType ==
  /\ fmt \in Tracks
  /\ frame \in {"none", "key", "delta"}
  /\ todo \subseteq Endpoints
  /\ count \in 0 .. MaxFrames
  /\ ep \in [Endpoints -> EpType]
  /\ g_bStopSend \in BOOLEAN
  /\ wire \in [Endpoints -> WireType]
  /\ keyed \in [Endpoints -> BOOLEAN]

\* The packets of the last frame parsed, as endpoint e takes them.
PacketsFor(e) == MediaSend(fmt, out, MaxDataSize(e))

Told(w) == \A i \in 1 .. Len(w.packets) : w.steps[i] = 1

\* What a client has of the last frame: if it was told of no gap the first packets in
\* order, and if the frame counts as sent over UDP all of them.
Delivered(e) ==
  ep[e].trans # "none" =>
    /\ wire[e].packets # << >> /\ Told(wire[e]) => InOrder(wire[e].packets, PacketsFor(e))
    /\ ep[e].trans = "udp" /\ wire[e].result = "sent" => wire[e].packets = PacketsFor(e)

\* The tables it has are those of that frame.
TablesCurrent(e) == fmt = "jpeg" => TablesAre(wire[e].packets, count, count)

\* A UDP client that is not marked as having lost a key frame has all of the last one.
HasKey(e) == ep[e].trans = "udp" /\ ~ep[e].lost => keyed[e]

Orphan(e) == ep[e].trans = "udp" /\ wire[e].packets # << >> /\ ~wire[e].key /\ ~keyed[e]

EndpointInv(e) == Delivered(e) /\ TablesCurrent(e) /\ HasKey(e) /\ ~Orphan(e)

TrackInv ==
  /\ TrackType
  /\ Kept(out)
  /\ ~Idle => Ready(out, count)
  /\ \A e \in Endpoints : EndpointInv(e)

LEMMA NoWireType == NoWire \in WireType /\ NoWire.packets = << >> /\ NoWire.result = "none"
<1>1. << >> \in Seq(PacketType)
  OBVIOUS
<1>2. << >> \in Seq(0 .. 2)
  OBVIOUS
<1>3. PICK packets \in Seq(PacketType) : packets = << >>
  BY <1>1
<1>4. PICK steps \in Seq(0 .. 2) : steps = << >>
  BY <1>2
<1>5. PICK no \in BOOLEAN : no = FALSE
  OBVIOUS
<1>6. NoWire = [result |-> "none", key |-> no, packets |-> packets, steps |-> steps]
  BY <1>3, <1>4, <1>5 DEF NoWire
<1>7. QED BY <1>3, <1>6 DEF WireType, Results

\* An endpoint the client of which has got nothing of the frame.
LEMMA FreshEndpoint ==
  ASSUME NEW e \in Endpoints, wire'[e] = NoWire, HasKey(e)'
  PROVE  EndpointInv(e)'
<1>1. wire'[e].packets = << >> /\ wire'[e].result = "none"
  BY NoWireType
<1>2. Delivered(e)' /\ ~Orphan(e)'
  BY <1>1 DEF Delivered, Orphan
<1>3. Len(wire'[e].packets) = 0
  BY <1>1
<1>4. TablesCurrent(e)'
  BY <1>3 DEF TablesCurrent, TablesAre
<1>5. QED BY <1>2, <1>4 DEF EndpointInv

\* One that is left alone.
LEMMA SameEndpointInv ==
  ASSUME NEW e \in Endpoints, EndpointInv(e), UNCHANGED <<fmt, out, count>>,
         SameEndpoint(ep'[e], ep[e]), wire'[e] = wire[e], keyed'[e] = keyed[e]
  PROVE  EndpointInv(e)'
<1>1. PacketsFor(e)' = PacketsFor(e)
  BY DEF PacketsFor, MaxDataSize, SameEndpoint
<1>2. Delivered(e)'
  BY <1>1 DEF EndpointInv, Delivered, Told, SameEndpoint
<1>3. TablesCurrent(e)'
  BY DEF EndpointInv, TablesCurrent
<1>4. HasKey(e)' /\ ~Orphan(e)'
  BY DEF EndpointInv, HasKey, Orphan, SameEndpoint
<1>5. QED BY <1>2, <1>3, <1>4 DEF EndpointInv

LEMMA TrackInvFirst == Init => TrackInv
<1>1. HAVE Init
<1>2. fmt \in Formats /\ MaxFrames \in Nat
  BY <1>1, FramesAssumption DEF Init
<1>3. Kept(out)
  BY <1>1, <1>2, KeptFirst DEF Init
<1>4. ep \in [Endpoints -> EpType] /\ wire \in [Endpoints -> WireType]
  BY <1>1, NoEndpointType, NoWireType DEF Init
<1>5. TrackType
  <2>1. keyed \in [Endpoints -> BOOLEAN]
    BY <1>1 DEF Init
  <2>2. g_bStopSend \in BOOLEAN
    BY <1>1 DEF Init
  <2>3. fmt \in Tracks /\ frame = "none" /\ todo = {} /\ count \in 0 .. MaxFrames
    BY <1>1, <1>2 DEF Init
  <2>4. QED BY ONLY <1>4, <2>1, <2>2, <2>3 DEF TrackType
<1>6. ASSUME NEW e \in Endpoints PROVE EndpointInv(e)
  <2>1. ep[e] = NoEndpoint /\ wire[e] = NoWire
    BY <1>1 DEF Init
  <2>2. ep[e].trans = "none" /\ wire[e].packets = << >> /\ Len(wire[e].packets) = 0
    BY <2>1, NoWireType DEF NoEndpoint
  <2>3. TablesCurrent(e)
    BY <2>2 DEF TablesCurrent, TablesAre
  <2>4. QED BY <2>2, <2>3 DEF EndpointInv, Delivered, HasKey, Orphan
<1>7. Idle
  BY <1>1 DEF Init, Idle
<1>8. QED BY <1>3, <1>5, <1>6, <1>7 DEF TrackInv

\* The steps of the event thread between frames.
LEMMA SetupKeeps ==
  ASSUME TrackInv, NEW e \in Endpoints, Setup(e)
  PROVE  TrackInv'
<1>1. TrackType /\ Kept(out) /\ \A d \in Endpoints : EndpointInv(d)
  BY DEF TrackInv
<1>2. PICK t \in {"udp", "inter"} : ep' = [ep EXCEPT ![e] = [NoEndpoint EXCEPT !.trans = t]]
  BY DEF Setup
<1>3. PICK y : y = [NoEndpoint EXCEPT !.trans = t]
  OBVIOUS
<1>4. y \in EpType
  BY ONLY NoEndpointType, <1>3, t \in {"udp", "inter"} DEF EpType
<1>5. y.lost = TRUE
  BY <1>3 DEF NoEndpoint
<1>6. PICK no \in BOOLEAN : no = FALSE
  OBVIOUS
<1>7. ep' = [ep EXCEPT ![e] = y] /\ wire' = [wire EXCEPT ![e] = NoWire] /\ keyed' = [keyed EXCEPT ![e] = no]
  BY <1>2, <1>3, <1>6 DEF Setup
<1>8. ep \in [Endpoints -> EpType] /\ wire \in [Endpoints -> WireType] /\ keyed \in [Endpoints -> BOOLEAN]
  BY <1>1 DEF TrackType
<1>9. /\ ep' \in [Endpoints -> EpType] /\ wire' \in [Endpoints -> WireType] /\ keyed' \in [Endpoints -> BOOLEAN]
      /\ ep'[e] = y /\ wire'[e] = NoWire
      /\ \A d \in Endpoints \ {e} : ep'[d] = ep[d] /\ wire'[d] = wire[d] /\ keyed'[d] = keyed[d]
  BY <1>4, <1>7, <1>8, NoWireType
<1>10. UNCHANGED <<fmt, out, frame, todo, count, g_bStopSend>> /\ Idle
  BY DEF Setup
<1>11. TrackType'
  BY <1>1, <1>9, <1>10 DEF TrackType
<1>12. ASSUME NEW d \in Endpoints PROVE EndpointInv(d)'
  <2>1. CASE d = e
    <3>1. HasKey(e)'
      BY <1>5, <1>9 DEF HasKey
    <3>2. QED BY <1>9, <2>1, <3>1, FreshEndpoint
  <2>2. CASE d # e
    BY <1>1, <1>9, <1>10, <2>2, SameEndpointInv DEF SameEndpoint
  <2>3. QED BY <2>1, <2>2
<1>13. Kept(out)' /\ Idle'
  BY <1>1, <1>10 DEF Kept, Idle
<1>14. QED BY <1>11, <1>12, <1>13 DEF TrackInv

LEMMA PlayKeeps ==
  ASSUME TrackInv, NEW e \in Endpoints, Play(e)
  PROVE  TrackInv'
<1>1. TrackType /\ Kept(out) /\ \A d \in Endpoints : EndpointInv(d)
  BY DEF TrackInv
<1>2. ep \in [Endpoints -> EpType]
  BY <1>1 DEF TrackType
<1>3. PICK yes \in BOOLEAN : yes = TRUE
  OBVIOUS
<1>4. PICK x \in EpType : x = ep[e]
  BY <1>2
<1>5. PICK y : y = [x EXCEPT !.playing = yes]
  OBVIOUS
<1>6. y \in EpType
  BY ONLY x \in EpType, yes \in BOOLEAN, <1>5 DEF EpType
<1>7. y.trans = x.trans
  BY ONLY x \in EpType, yes \in BOOLEAN, <1>5 DEF EpType
<1>8. y.lost = x.lost
  BY ONLY x \in EpType, yes \in BOOLEAN, <1>5 DEF EpType
<1>9. ep' = [ep EXCEPT ![e].playing = yes]
  BY <1>3 DEF Play
<1>10. ep' \in [Endpoints -> EpType] /\ ep'[e] = y /\ \A d \in Endpoints \ {e} : ep'[d] = ep[d]
  BY <1>2, <1>4, <1>5, <1>6, <1>9
<1>11. UNCHANGED <<fmt, out, frame, todo, count, g_bStopSend, wire, keyed>> /\ Idle
  BY DEF Play
<1>12. TrackType'
  BY <1>1, <1>10, <1>11 DEF TrackType
<1>13. ASSUME NEW d \in Endpoints PROVE EndpointInv(d)'
  <2>1. SameEndpoint(ep'[d], ep[d])
    BY <1>4, <1>7, <1>8, <1>10 DEF SameEndpoint
  <2>2. QED BY <1>1, <1>11, <2>1, SameEndpointInv
<1>14. Kept(out)' /\ Idle'
  BY <1>1, <1>11 DEF Kept, Idle
<1>15. QED BY <1>12, <1>13, <1>14 DEF TrackInv

LEMMA TeardownKeeps ==
  ASSUME TrackInv, NEW e \in Endpoints, Teardown(e)
  PROVE  TrackInv'
<1>1. TrackType /\ Kept(out) /\ \A d \in Endpoints : EndpointInv(d)
  BY DEF TrackInv
<1>2. ep \in [Endpoints -> EpType] /\ wire \in [Endpoints -> WireType]
  BY <1>1 DEF TrackType
<1>3. ep' = [ep EXCEPT ![e] = NoEndpoint] /\ wire' = [wire EXCEPT ![e] = NoWire]
  BY DEF Teardown
<1>4. /\ ep' \in [Endpoints -> EpType] /\ wire' \in [Endpoints -> WireType]
      /\ ep'[e] = NoEndpoint /\ wire'[e] = NoWire
      /\ \A d \in Endpoints \ {e} : ep'[d] = ep[d] /\ wire'[d] = wire[d]
  BY <1>2, <1>3, NoWireType, NoEndpointType
<1>5. UNCHANGED <<fmt, out, frame, todo, count, g_bStopSend, keyed>> /\ Idle
  BY DEF Teardown
<1>6. TrackType'
  BY <1>1, <1>4, <1>5 DEF TrackType
<1>7. ASSUME NEW d \in Endpoints PROVE EndpointInv(d)'
  <2>1. CASE d = e
    <3>1. HasKey(e)'
      BY <1>4 DEF HasKey, NoEndpoint
    <3>2. QED BY <1>4, <2>1, <3>1, FreshEndpoint
  <2>2. CASE d # e
    BY <1>1, <1>4, <1>5, <2>2, SameEndpointInv DEF SameEndpoint
  <2>3. QED BY <2>1, <2>2
<1>8. Kept(out)' /\ Idle'
  BY <1>1, <1>5 DEF Kept, Idle
<1>9. QED BY <1>6, <1>7, <1>8 DEF TrackInv

LEMMA FrameArrivesKeeps ==
  ASSUME TrackInv, FrameArrives
  PROVE  TrackInv'
<1>1. TrackType /\ Kept(out) /\ \A d \in Endpoints : EndpointInv(d)
  BY DEF TrackInv
<1>2. PICK f \in Frames[fmt] :
        LET r == MediaFrame(fmt, out, count + 1, f)
        IN  /\ out' = r.out
            /\ IF r.ok THEN /\ frame' = IF f.key THEN "key" ELSE "delta"
                            /\ todo' = Endpoints
               ELSE UNCHANGED <<frame, todo>>
  BY DEF FrameArrives
<1>3. PICK r :
        /\ r = MediaFrame(fmt, out, count + 1, f) /\ out' = r.out
        /\ IF r.ok THEN /\ frame' = IF f.key THEN "key" ELSE "delta"
                        /\ todo' = Endpoints
           ELSE UNCHANGED <<frame, todo>>
  BY <1>2
<1>4. /\ Idle /\ count < MaxFrames /\ count' = count + 1 /\ wire' = [e \in Endpoints |-> NoWire]
      /\ UNCHANGED <<fmt, ep, g_bStopSend, keyed>>
  BY DEF FrameArrives
<1>5. fmt \in Tracks /\ count \in 0 .. MaxFrames /\ MaxFrames \in Nat
  BY <1>1, FramesAssumption DEF TrackType
<1>6. PICK n \in Nat \ {0} : n = count + 1 /\ n \in 0 .. MaxFrames
  BY <1>4, <1>5
<1>7. Kept(r.out) /\ (r.ok => Ready(r.out, n))
  BY <1>1, <1>3, <1>5, <1>6, FrameParsed
<1>8. Kept(out)' /\ (r.ok => Ready(out, count)')
  BY <1>3, <1>4, <1>6, <1>7 DEF Kept, Ready
<1>9. (~r.ok => Idle') /\ frame' \in {"none", "key", "delta"} /\ todo' \subseteq Endpoints
  BY <1>1, <1>3, <1>4 DEF Idle, TrackType
<1>10. wire' \in [Endpoints -> WireType] /\ \A d \in Endpoints : wire'[d] = NoWire
  BY <1>4, NoWireType
<1>11. TrackType'
  BY <1>1, <1>4, <1>6, <1>9, <1>10 DEF TrackType
<1>12. ASSUME NEW d \in Endpoints PROVE EndpointInv(d)'
  <2>1. HasKey(d)'
    BY <1>1, <1>4 DEF EndpointInv, HasKey
  <2>2. QED BY <1>10, <2>1, FreshEndpoint
<1>13. QED BY <1>8, <1>9, <1>11, <1>12 DEF TrackInv

\* The frame is parsed, so each of its endpoints is sent packets that hold all of it.
LEMMA PacketsAre ==
  ASSUME TrackInv, ~Idle, NEW e \in Endpoints, ep[e].trans # "none"
  PROVE  /\ MaxDataSize(e) \in {1400, 8192}
         /\ Complete(PacketsFor(e), MaxDataSize(e))
         /\ fmt = "jpeg" => TablesAre(PacketsFor(e), count, count)
<1>1. TrackType /\ Kept(out) /\ Ready(out, count)
  BY DEF TrackInv
<1>2. fmt \in Tracks /\ count \in Nat
  BY <1>1, FramesAssumption DEF TrackType
<1>3. MaxDataSize(e) \in {1400, 8192}
  BY DEF MaxDataSize
<1>4. QED BY <1>1, <1>2, <1>3, SendComplete DEF PacketsFor

LEMMA WithheldWay ==
  ASSUME NEW packets \in Seq(PacketType), NEW e \in Endpoints, ep[e] \in EpType
  PROVE  Way(Withheld(e), ep[e], packets, Len(packets))
<1>1. PICK st : st = Unsent(e)
  OBVIOUS
<1>2. Way(st, ep[e], packets, 0) /\ st.got = << >> /\ st \in SendingType
  <2>1. Way(st, ep[e], packets, 0)
    BY <1>1, WayFirst
  <2>2. QED BY <1>1, <2>1 DEF Unsent, Way
<1>3. PICK fails \in {-1, 0} : fails = -1
  OBVIOUS
<1>4. PICK w : w = [st EXCEPT !.ret = fails]
  OBVIOUS
<1>5. /\ w \in SendingType /\ w.x = st.x /\ w.got = st.got /\ w.steps = st.steps
      /\ w.ret = fails
  <2>1. st \in SendingType
    BY <1>2
  <2>2. QED BY ONLY <2>1, fails \in {-1, 0}, <1>4 DEF SendingType
<1>6. Withheld(e) = w
  BY <1>1, <1>3, <1>4 DEF Withheld
<1>7. Way(w, ep[e], packets, Len(packets))
  BY <1>2, <1>3, <1>5 DEF Way
<1>8. QED BY <1>6, <1>7

LEMMA SentSomeWay ==
  ASSUME TrackInv, ~Idle, NEW e \in Endpoints, ep[e].trans # "none",
         NEW st \in IF g_bStopSend THEN {Withheld(e)} ELSE Sendings(e)
  PROVE  Way(st, ep[e], PacketsFor(e), Len(PacketsFor(e)))
<1>1. ep[e] \in EpType /\ ep[e].trans \in {"udp", "inter"}
  BY DEF TrackInv, TrackType, EpType
<1>2. PICK packets \in Seq(PacketType) : packets = PacketsFor(e)
  BY PacketsAre DEF Complete
<1>3. CASE g_bStopSend
  <2>1. st = Withheld(e)
    BY <1>3
  <2>2. QED BY <1>1, <1>2, <2>1, WithheldWay
<1>4. CASE ~g_bStopSend
  <2>1. st \in Sendings(e)
    BY <1>4
  <2>2. packets = MediaSend(fmt, out, MaxDataSize(e))
    BY <1>2 DEF PacketsFor
  <2>3. Way(st, ep[e], packets, Len(packets))
    BY <1>1, <2>1, <2>2, SendingsAre
  <2>4. QED BY <1>2, <2>3
<1>5. QED BY <1>3, <1>4

\* What SendTo makes of the endpoint.
After(st) == IF frame = "key" /\ st.x.trans # "none" THEN [st.x EXCEPT !.lost = st.ret # 0] ELSE st.x

LEMMA AfterIs ==
  ASSUME NEW st \in SendingType, NEW y, y = After(st)
  PROVE  /\ y \in EpType /\ y.trans = st.x.trans
         /\ frame = "key" /\ y.trans # "none" /\ ~y.lost => st.ret = 0
         /\ frame # "key" => y.lost = st.x.lost
<1>1. PICK x \in EpType : x = st.x
  BY DEF SendingType
<1>2. st.ret \in {-1, 0}
  BY DEF SendingType
<1>3. CASE frame = "key" /\ x.trans # "none"
  <2>1. PICK b \in BOOLEAN : st.ret = 0 <=> ~b
    BY <1>2
  <2>2. y = [x EXCEPT !.lost = b]
    <3>1. CASE st.ret = 0
      <4>1. b = FALSE /\ (st.ret # 0) = FALSE
        BY <2>1, <3>1
      <4>2. QED BY <1>1, <1>3, <4>1 DEF After
    <3>2. CASE st.ret # 0
      <4>1. b = TRUE /\ (st.ret # 0) = TRUE
        BY <2>1, <3>2
      <4>2. QED BY <1>1, <1>3, <4>1 DEF After
    <3>3. QED BY <3>1, <3>2
  <2>3. y \in EpType
    BY ONLY x \in EpType, b \in BOOLEAN, <2>2 DEF EpType
  <2>4. y.trans = x.trans
    BY ONLY x \in EpType, b \in BOOLEAN, <2>2 DEF EpType
  <2>5. y.lost = b
    BY ONLY x \in EpType, b \in BOOLEAN, <2>2 DEF EpType
  <2>6. QED BY <1>1, <1>3, <2>1, <2>3, <2>4, <2>5
<1>4. CASE ~(frame = "key" /\ x.trans # "none")
  <2>1. y = x
    BY <1>1, <1>4 DEF After
  <2>2. QED BY <1>1, <1>4, <2>1
<1>5. QED BY <1>3, <1>4

LEMMA SentToEndpoint ==
  ASSUME TrackInv, NEW e \in Endpoints, SendTo(e), NEW st \in SendingType,
         Way(st, ep[e], PacketsFor(e), Len(PacketsFor(e))),
         UNCHANGED <<fmt, out, frame, count>>,
         ep'[e] = After(st),
         wire'[e].packets = st.got, wire'[e].steps = st.steps,
         wire'[e].key = (frame = "key"), wire'[e].result = "sent" => st.ret = 0,
         keyed'[e] = IF frame = "key" THEN Len(st.got) = Len(PacketsFor(e)) ELSE keyed[e]
  PROVE  EndpointInv(e)'
<1>1. ~Idle /\ ep[e].trans # "none" /\ (frame = "delta" => ~ep[e].lost)
  BY DEF SendTo, Watches, Gated
<1>2. frame \in {"key", "delta"}
  BY <1>1 DEF TrackInv, TrackType, Idle
<1>3. PICK ps \in Seq(PacketType) : ps = PacketsFor(e)
  BY <1>1, PacketsAre DEF Complete
<1>4. PICK y : /\ y = ep'[e] /\ y.trans = st.x.trans
               /\ frame = "key" /\ y.trans # "none" /\ ~y.lost => st.ret = 0
               /\ frame # "key" => y.lost = st.x.lost
  BY AfterIs
<1>5. y.trans # "none" => SameEndpoint(st.x, ep[e])
  BY <1>4 DEF Way, NoEndpoint
<1>6. y.trans # "none" => y.trans = ep[e].trans
  BY <1>4, <1>5 DEF SameEndpoint
<1>7. y.trans # "none" => PacketsFor(e)' = ps
  BY <1>3, <1>4, <1>6 DEF PacketsFor, MaxDataSize
<1>8. Delivered(e)'
  <2>1. SUFFICES ASSUME y.trans # "none"
                 PROVE  /\ st.got # << >> /\ Told(wire[e])' => InOrder(st.got, ps)
                        /\ y.trans = "udp" /\ wire'[e].result = "sent" => st.got = ps
    BY <1>4, <1>7 DEF Delivered
  <2>2. Told(wire[e])' => \A i \in 1 .. Len(st.got) : st.steps[i] = 1
    BY DEF Told
  <2>3. Told(wire[e])' => InOrder(st.got, ps)
    BY <1>3, <2>2 DEF Way
  <2>4. ASSUME y.trans = "udp", wire'[e].result = "sent" PROVE st.got = ps
    <3>1. ep[e].trans = "udp" /\ st.ret = 0
      BY <1>6, <2>4
    <3>2. InOrder(st.got, ps) /\ Len(st.got) = Len(ps)
      BY <1>3, <3>1 DEF Way
    <3>3. PICK got \in Seq(PacketType) : got = st.got
      BY DEF SendingType
    <3>4. Len(got) = Len(ps) /\ \A i \in 1 .. Len(got) : got[i] = ps[i]
      BY <3>2, <3>3 DEF InOrder
    <3>5. got = ps
      BY <3>4, SeqEqual
    <3>6. QED BY <3>3, <3>5
  <2>5. QED BY <2>3, <2>4
<1>9. TablesCurrent(e)'
  <2>1. SUFFICES ASSUME fmt = "jpeg" PROVE TablesAre(st.got, count, count)
    BY DEF TablesCurrent
  <2>2. TablesAre(ps, count, count)
    BY <1>1, <1>3, <2>1, PacketsAre
  <2>3. \A i \in 1 .. Len(st.got) : \E j \in 1 .. Len(ps) : st.got[i] = ps[j]
    BY <1>3 DEF Way
  <2>4. QED BY <2>2, <2>3 DEF TablesAre
<1>10. ASSUME y.trans = "udp"
       PROVE  ep[e].trans = "udp" /\ (frame # "key" => y.lost = ep[e].lost)
  BY <1>4, <1>5, <1>6, <1>10 DEF SameEndpoint
<1>11. HasKey(e) /\ keyed[e] \in BOOLEAN
  BY DEF TrackInv, EndpointInv, TrackType
<1>12. HasKey(e)'
  <2>1. SUFFICES ASSUME y.trans = "udp", ~y.lost PROVE keyed'[e]
    BY <1>4 DEF HasKey
  <2>2. CASE frame = "key"
    <3>1. st.ret = 0 /\ ep[e].trans = "udp"
      BY <1>4, <1>10, <2>1, <2>2
    <3>2. Len(st.got) = Len(PacketsFor(e))
      BY <3>1 DEF Way
    <3>3. QED BY <2>2, <3>2
  <2>3. CASE frame # "key"
    <3>1. keyed[e]
      BY <1>10, <1>11, <2>1, <2>3 DEF HasKey
    <3>2. QED BY <2>3, <3>1
  <2>4. QED BY <2>2, <2>3
<1>13. ~Orphan(e)'
  <2>1. SUFFICES ASSUME y.trans = "udp", frame # "key" PROVE keyed'[e]
    BY <1>4 DEF Orphan
  <2>2. ~ep[e].lost /\ ep[e].trans = "udp"
    BY <1>1, <1>2, <1>10, <2>1
  <2>3. keyed[e]
    BY <1>11, <2>2 DEF HasKey
  <2>4. QED BY <2>1, <2>3
<1>14. QED BY <1>8, <1>9, <1>12, <1>13 DEF EndpointInv

\* One endpoint of next_live_frame's loop is sent the frame.
LEMMA SendToKeeps ==
  ASSUME TrackInv, NEW e \in Endpoints, SendTo(e)
  PROVE  TrackInv'
<1>1. TrackType /\ Kept(out) /\ (~Idle => Ready(out, count)) /\ \A d \in Endpoints : EndpointInv(d)
  BY DEF TrackInv
<1>2. ~Idle /\ ep[e].trans # "none" /\ UNCHANGED <<fmt, out, frame, count, g_bStopSend>> /\ todo' = todo \ {e}
  BY DEF SendTo, Watches
<1>3. PICK st \in IF g_bStopSend THEN {Withheld(e)} ELSE Sendings(e) :
        /\ ep' = [ep EXCEPT ![e] = After(st)]
        /\ wire' = [wire EXCEPT ![e] =
                       [result |-> IF st.ret = 0 THEN "sent" ELSE "failed",
                        key |-> (frame = "key"), packets |-> st.got, steps |-> st.steps]]
        /\ keyed' = [keyed EXCEPT ![e] =
                       IF frame = "key" THEN Len(st.got) = Len(PacketsFor(e)) ELSE @]
  BY DEF SendTo, After, PacketsFor
<1>4. Way(st, ep[e], PacketsFor(e), Len(PacketsFor(e)))
  BY <1>2, SentSomeWay
<1>5. st \in SendingType
  BY <1>4 DEF Way
<1>6. PICK w : w = [result |-> IF st.ret = 0 THEN "sent" ELSE "failed",
                    key |-> (frame = "key"), packets |-> st.got, steps |-> st.steps]
  OBVIOUS
<1>7. PICK key \in BOOLEAN : key = (frame = "key")
  BY Zenon
<1>8. PICK result \in Results : result = (IF st.ret = 0 THEN "sent" ELSE "failed")
  BY DEF Results
<1>9. PICK got \in Seq(PacketType), steps \in Seq(0 .. 2) : got = st.got /\ steps = st.steps
  BY <1>5 DEF SendingType
<1>10. w = [result |-> result, key |-> key, packets |-> got, steps |-> steps]
  BY ONLY <1>6, <1>7, <1>8, <1>9, Zenon
<1>11. w \in WireType /\ w.result = result /\ w.key = key /\ w.packets = got /\ w.steps = steps
  BY ONLY result \in Results, key \in BOOLEAN, got \in Seq(PacketType), steps \in Seq(0 .. 2), <1>10
     DEF WireType
<1>12. PICK y \in EpType : y = After(st)
  BY <1>5, AfterIs
<1>13. PICK k \in BOOLEAN : k = (IF frame = "key" THEN Len(st.got) = Len(PacketsFor(e)) ELSE keyed[e])
  <2>1. keyed[e] \in BOOLEAN
    BY <1>1 DEF TrackType
  <2>2. CASE frame = "key"
    BY <2>2, Zenon
  <2>3. CASE frame # "key"
    BY <2>1, <2>3, Zenon
  <2>4. QED BY <2>2, <2>3
<1>14. /\ ep \in [Endpoints -> EpType] /\ wire \in [Endpoints -> WireType]
       /\ keyed \in [Endpoints -> BOOLEAN]
  BY <1>1 DEF TrackType
<1>15. ep' = [ep EXCEPT ![e] = y] /\ wire' = [wire EXCEPT ![e] = w]
  BY <1>3, <1>6, <1>12
<1>16. keyed' = [keyed EXCEPT ![e] = k]
  BY <1>3, <1>13, <1>14
<1>17. /\ ep' \in [Endpoints -> EpType] /\ wire' \in [Endpoints -> WireType]
       /\ keyed' \in [Endpoints -> BOOLEAN]
       /\ ep'[e] = y /\ wire'[e] = w /\ keyed'[e] = k
       /\ \A d \in Endpoints \ {e} : ep'[d] = ep[d] /\ wire'[d] = wire[d] /\ keyed'[d] = keyed[d]
  BY <1>11, <1>14, <1>15, <1>16
<1>18. TrackType'
  BY <1>1, <1>2, <1>17 DEF TrackType
<1>19. EndpointInv(e)'
  <2>1. wire'[e].packets = st.got /\ wire'[e].steps = st.steps /\ wire'[e].key = (frame = "key")
    BY <1>7, <1>9, <1>11, <1>17
  <2>2. wire'[e].result = "sent" => st.ret = 0
    BY <1>8, <1>11, <1>17
  <2>3. keyed'[e] = IF frame = "key" THEN Len(st.got) = Len(PacketsFor(e)) ELSE keyed[e]
    BY <1>13, <1>17
  <2>4. ep'[e] = After(st)
    BY <1>12, <1>17
  <2>5. QED BY <1>2, <1>4, <1>5, <2>1, <2>2, <2>3, <2>4, SentToEndpoint
<1>20. ASSUME NEW d \in Endpoints PROVE EndpointInv(d)'
  <2>1. CASE d = e
    BY <1>19, <2>1
  <2>2. CASE d # e
    BY <1>1, <1>2, <1>17, <2>2, SameEndpointInv DEF SameEndpoint
  <2>3. QED BY <2>1, <2>2
<1>21. Kept(out)' /\ Ready(out, count)'
  BY <1>1, <1>2 DEF Kept, Ready
<1>22. QED BY <1>18, <1>20, <1>21 DEF TrackInv

\* The steps that leave the endpoints alone.
LEMMA EndpointsKeep ==
  ASSUME TrackInv, UNCHANGED <<fmt, out, count, ep, wire, keyed>>,
         frame' = frame \/ frame' = "none", todo' \subseteq todo, g_bStopSend' \in BOOLEAN
  PROVE  TrackInv'
<1>1. TrackType /\ Kept(out) /\ (~Idle => Ready(out, count)) /\ \A d \in Endpoints : EndpointInv(d)
  BY DEF TrackInv
<1>2. TrackType'
  BY <1>1 DEF TrackType
<1>3. ASSUME NEW d \in Endpoints PROVE EndpointInv(d)'
  BY <1>1, SameEndpointInv DEF SameEndpoint
<1>4. Kept(out)' /\ (~Idle' => Ready(out, count)')
  BY <1>1 DEF Kept, Ready, Idle
<1>5. QED BY <1>2, <1>3, <1>4 DEF TrackInv

LEMMA TrackInvNext == TrackInv /\ [Next]_vars => TrackInv'
<1>1. SUFFICES ASSUME TrackInv, [Next]_vars PROVE TrackInv'
  OBVIOUS
<1>2. g_bStopSend \in BOOLEAN
  BY <1>1 DEF TrackInv, TrackType
<1>3. CASE UNCHANGED vars
  BY <1>1, <1>2, <1>3, EndpointsKeep DEF vars
<1>4. ASSUME NEW e \in Endpoints, Setup(e) PROVE TrackInv'
  BY <1>1, <1>4, SetupKeeps
<1>5. ASSUME NEW e \in Endpoints, Play(e) PROVE TrackInv'
  BY <1>1, <1>5, PlayKeeps
<1>6. ASSUME NEW e \in Endpoints, Teardown(e) PROVE TrackInv'
  BY <1>1, <1>6, TeardownKeeps
<1>7. ASSUME NEW e \in Endpoints, SendTo(e) PROVE TrackInv'
  BY <1>1, <1>7, SendToKeeps
<1>8. ASSUME NEW e \in Endpoints, PassOver(e) PROVE TrackInv'
  BY <1>1, <1>2, <1>8, EndpointsKeep DEF PassOver
<1>9. CASE FrameArrives
  BY <1>1, <1>9, FrameArrivesKeeps
<1>10. CASE FrameDone
  BY <1>1, <1>2, <1>10, EndpointsKeep DEF FrameDone
<1>11. CASE StopSend
  BY <1>1, <1>2, <1>11, EndpointsKeep DEF StopSend
<1>12. QED BY <1>1, <1>3, <1>4, <1>5, <1>6, <1>7, <1>8, <1>9, <1>10, <1>11 DEF Next

-----------------------------------------------------------------------------
(* The theorems                                                            *)

\* What SendTo, next_live_frame and the event thread do keeps the invariant of the
\* track, whatever the frames, the endpoints and the wireless thread do.
THEOREM TrackInvHolds == Spec => []TrackInv
<1>1. Init => TrackInv
  BY TrackInvFirst
<1>2. TrackInv /\ [Next]_vars => TrackInv'
  BY TrackInvNext
<1>3. QED BY <1>1, <1>2, PTL DEF Spec

\* The variables of the track have their types.
THEOREM TrackTypes == Spec => []TypeOK
<1>1. TrackInv => TypeOK
  <2>1. HAVE TrackInv
  <2>2. TrackType
    BY <2>1 DEF TrackInv
  <2>3. \A e \in Endpoints : wire[e].result \in Results
    BY <2>2 DEF TrackType, WireType
  <2>4. QED BY <2>2, <2>3 DEF TrackType, TypeOK, EpType
<1>2. QED BY <1>1, TrackInvHolds, PTL

\* What the send function of a packetizer has counted as sent over UDP (send_rtp_packet
\* returned no error for any packet) is the whole frame, for frames of every size: the
\* packets put end to end are its bytes, each fits, and the last one has the marker.
THEOREM SentFramesAreWhole == Spec => []SentIsWhole
<1>1. TrackInv => SentIsWhole
  <2>1. SUFFICES ASSUME TrackInv, NEW e \in Endpoints, ~Idle, ep[e].trans = "udp",
                        wire[e].result = "sent"
                 PROVE  /\ Reassembles(wire[e].packets, Pieces(fmt, out))
                        /\ Marked(wire[e].packets)
                        /\ \A i \in DOMAIN wire[e].packets : PacketBytes(wire[e].packets[i])
                              <= MaxDataSize(e) + Above
    BY DEF SentIsWhole, Above
  <2>2. PICK ps : ps = wire[e].packets /\ ps = PacketsFor(e)
    BY <2>1 DEF TrackInv, EndpointInv, Delivered
  <2>3. Complete(ps, MaxDataSize(e))
    BY <2>1, <2>2, PacketsAre
  <2>4. DOMAIN ps = 1 .. Len(ps)
    BY <2>3, LenProperties DEF Complete
  <2>5. QED BY <2>2, <2>3, <2>4 DEF Complete, Marked
<1>2. QED BY <1>1, TrackInvHolds, PTL

\* A client can trust the sequence numbers: a packet left out of the full ring of an
\* RTSP connection (rtp_send counts it) or refused by sendmsg never lets a frame of
\* which the client has the packet with the marker, and no number missing, be
\* incomplete.
THEOREM GaplessFramesAreWhole == Spec => []GaplessIsWhole
<1>1. TrackInv => GaplessIsWhole
  <2>1. SUFFICES ASSUME TrackInv, NEW e \in Endpoints, ~Idle, ep[e].trans # "none",
                        wire[e].packets # << >>, Last(wire[e].packets).marker,
                        \A i \in DOMAIN wire[e].packets : wire[e].steps[i] = 1
                 PROVE  Reassembles(wire[e].packets, Pieces(fmt, out))
    BY DEF GaplessIsWhole
  <2>2. PICK got \in Seq(PacketType) : got = wire[e].packets
    BY <2>1 DEF TrackInv, TrackType, WireType
  <2>3. PICK n \in Nat : n = Len(got) /\ DOMAIN got = 1 .. n /\ n > 0
    BY <2>1, <2>2, LenProperties, EmptySeq
  <2>4. Complete(PacketsFor(e), MaxDataSize(e))
    BY <2>1, PacketsAre
  <2>5. PICK ps \in Seq(PacketType) : ps = PacketsFor(e)
    BY <2>4 DEF Complete
  <2>6. Len(ps) \in Nat
    BY LenProperties
  <2>7. InOrder(got, ps)
    BY <2>1, <2>2, <2>3, <2>5 DEF TrackInv, EndpointInv, Delivered, Told
  <2>8. n <= Len(ps) /\ \A i \in 1 .. n : got[i] = ps[i]
    BY <2>3, <2>7 DEF InOrder
  <2>9. ps[n].marker
    <3>1. Last(got) = got[n]
      BY <2>3 DEF Last
    <3>2. n \in 1 .. n
      BY <2>3
    <3>3. QED BY <2>1, <2>2, <2>8, <3>1, <3>2
  <2>10. n = Len(ps)
    <3>1. n \in 1 .. Len(ps)
      BY <2>3, <2>6, <2>8
    <3>2. ps[n].marker = (fmt # "audio" /\ n = Len(ps))
      BY <2>4, <2>5, <3>1 DEF Complete
    <3>3. QED BY <2>9, <3>2
  <2>11. got = ps
    BY <2>3, <2>8, <2>10, SeqEqual
  <2>12. QED BY <2>2, <2>4, <2>5, <2>11 DEF Complete
<1>2. QED BY <1>1, TrackInvHolds, PTL

\* next_live_frame's lost mark does what it is for: no frame that needs the key frame
\* before it is sent to a UDP client that was not sent all of that one.
THEOREM NoOrphanIsSent == Spec => []NoOrphans
<1>1. TrackInv => NoOrphans
  BY DEF TrackInv, EndpointInv, Orphan, NoOrphans
<1>2. QED BY <1>1, TrackInvHolds, PTL

\* jpeg_process_frame forgets the tables of the frame before, so a frame is sent with its
\* own or not at all; and what mpeg4_get_sdp announces is the configuration at the head
\* of the frame being sent.
THEOREM SideDataIsCurrent == Spec => []SideDataCurrent
<1>1. TrackInv => SideDataCurrent
  <2>1. HAVE TrackInv
  <2>2. ASSUME fmt = "jpeg", NEW e \in Endpoints, NEW i \in DOMAIN wire[e].packets,
               NEW t \in ToSet(wire[e].packets[i].tables)
        PROVE  t = count
    <3>1. TablesAre(wire[e].packets, count, count)
      BY <2>1, <2>2 DEF TrackInv, EndpointInv, TablesCurrent
    <3>2. PICK got \in Seq(PacketType) : got = wire[e].packets
      BY <2>1 DEF TrackInv, TrackType, WireType
    <3>3. i \in 1 .. Len(got)
      BY <3>2, LenProperties
    <3>4. PICK tables : tables = got[i].tables
      OBVIOUS
    <3>5. tables = << >> \/ tables = <<count, count>>
      BY <3>1, <3>2, <3>3, <3>4 DEF TablesAre
    <3>6. PICK j \in DOMAIN tables : t = tables[j]
      BY <3>2, <3>4 DEF ToSet
    <3>7. QED BY <3>5, <3>6
  <2>3. ASSUME ~Idle, fmt = "mpeg4", NEW i \in DOMAIN out.iov, out.iov[i].code \in {"VO", "VOL"}
        PROVE  out.iov[i] \in ToSet(out.fmtp)
    <3>1. Announced(out.iov, out.fmtp) /\ out \in Mpeg4Type
      BY <2>1, <2>3 DEF TrackInv, Ready, Kept
    <3>2. out.iov \in Seq(Elements("mpeg4"))
      BY <3>1, Mpeg4Fields
    <3>3. i \in 1 .. Len(out.iov)
      BY <3>2, LenProperties
    <3>4. QED BY <2>3, <3>1, <3>3 DEF Announced
  <2>4. QED BY <2>2, <2>3 DEF SideDataCurrent
<1>2. QED BY <1>1, TrackInvHolds, PTL

=============================================================================
