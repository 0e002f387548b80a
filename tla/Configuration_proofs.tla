------------------------ MODULE Configuration_proofs ------------------------
(***************************************************************************)
(* Theorems about Configuration, for texts of every length: that the        *)
(* entries of the live source and its tracks agree, and that an input runs  *)
(* exactly while somebody waits for what is made of it.                     *)
(***************************************************************************)
EXTENDS Configuration, FiniteSetTheorems, SequenceTheorems, WellFoundedInduction, TLAPS

-----------------------------------------------------------------------------
(* What holds in every state                                               *)

\* A sequence, of whatever it holds: what a text may name is not bounded.
IsSeq(s) == s \in Seq({s[i] : i \in 1 .. Len(s)})

IsNet(n) == n = [stream |-> n.stream, order |-> n.order, dest |-> n.dest,
                 input |-> n.input, running |-> n.running]

IsDest(d) == d = [stream |-> d.stream, owner |-> d.owner, waiting |-> d.waiting]

\* Every place of stream_list holds a stream, every destination reads one.
NetInv(n) ==
  /\ IsNet(n) /\ IsSeq(n.stream) /\ IsSeq(n.dest)
  /\ n.order \in Seq(1 .. Len(n.stream))
  /\ \A d \in 1 .. Len(n.dest) : IsDest(n.dest[d]) /\ n.dest[d].stream \in 1 .. Len(n.stream)

IsBlock(b) == "kind" \in DOMAIN b /\ "out" \in DOMAIN b /\ b = [x \in DOMAIN b |-> b[x]]

BlockInv ==
  /\ IsSeq(blocks) /\ \A b \in 1 .. Len(blocks) : IsBlock(blocks[b])
  /\ cur \in 0 .. Len(blocks)

InLive == cur # None /\ blocks[cur].kind = "live"

TrackNames == {tracks[i].name : i \in 1 .. LIVE_MAX_TRACKS}

TrackTypes ==
  /\ tracks \in [1 .. LIVE_MAX_TRACKS ->
                   [name : TrackNames, dest : Nat, known : Seq(1 .. Len(entries))]]
  /\ entries \in Seq(Seq(1 .. LIVE_MAX_TRACKS))

Fed(n, d) == d \in 1 .. Len(n.dest) /\ n.stream[n.dest[d].stream].format \in LiveModule.accepts

\* A track that is in use is fed, one that is not has no name and is in no entry.
TracksInv ==
  \A i \in 1 .. LIVE_MAX_TRACKS :
    IF tracks[i].dest = None THEN tracks[i].known = <<>> /\ tracks[i].name = ""
    ELSE Fed(net, tracks[i].dest)

\* Only the entry of the block that is being read may have no track.
EntriesInv ==
  /\ InLive => entries # <<>>
  /\ \A e \in 1 .. Len(entries) :
       /\ entries[e] = <<>> => e = Len(entries) /\ InLive
       /\ \A i \in 1 .. LIVE_MAX_TRACKS :
            Occurrences(e, tracks[i].known) = Occurrences(i, entries[e])

ConfInv ==
  /\ text \in Texts /\ at \in Nat \ {0}
  /\ NetInv(net) /\ BlockInv /\ TrackTypes /\ TracksInv /\ EntriesInv

-----------------------------------------------------------------------------
(* Sequences of anything                                                   *)

LEMMA SeqIs ==
  ASSUME NEW T, NEW s \in Seq(T)
  PROVE  IsSeq(s)
BY DEF IsSeq

LEMMA LenIs ==
  ASSUME NEW s, IsSeq(s)
  PROVE  Len(s) \in Nat
BY DEF IsSeq

LEMMA AppendIs ==
  ASSUME NEW s, IsSeq(s), NEW e
  PROVE  /\ IsSeq(Append(s, e)) /\ Len(Append(s, e)) = Len(s) + 1
         /\ Append(s, e)[Len(s) + 1] = e
         /\ \A i \in 1 .. Len(s) : Append(s, e)[i] = s[i]
<1>1. PICK T : T = {s[i] : i \in 1 .. Len(s)} \cup {e}
  OBVIOUS
<1>2. s \in Seq(T) /\ e \in T
  BY <1>1 DEF IsSeq
<1>3. Append(s, e) \in Seq(T)
  BY ONLY <1>2
<1>4. IsSeq(Append(s, e))
  BY ONLY <1>3, SeqIs
<1>5. QED BY ONLY <1>2, <1>4, AppendProperties

Put(s, k, e) == [s EXCEPT ![k] = e]

LEMMA ExceptIs ==
  ASSUME NEW s, IsSeq(s), NEW k \in 1 .. Len(s), NEW e, NEW t, t = Put(s, k, e)
  PROVE  /\ IsSeq(t) /\ Len(t) = Len(s) /\ t[k] = e
         /\ \A i \in 1 .. Len(s) : i # k => t[i] = s[i]
<1>1. PICK T : T = {s[i] : i \in 1 .. Len(s)} \cup {e}
  OBVIOUS
<1>2. s \in Seq(T) /\ e \in T
  BY <1>1 DEF IsSeq
<1>3. t \in Seq(T)
  BY ONLY <1>2, k \in 1 .. Len(s), t = Put(s, k, e) DEF Put
<1>4. IsSeq(t)
  BY ONLY <1>3, SeqIs
<1>5. QED BY ONLY <1>2, <1>4, k \in 1 .. Len(s), t = Put(s, k, e) DEF Put

LEMMA MapIs ==
  ASSUME NEW s, IsSeq(s), NEW m, m = [i \in 1 .. Len(s) |-> m[i]]
  PROVE  IsSeq(m) /\ Len(m) = Len(s)
<1>1. PICK T : T = {m[i] : i \in 1 .. Len(s)}
  OBVIOUS
<1>2. PICK k \in Nat : k = Len(s)
  BY LenIs
<1>3. m \in [1 .. k -> T]
  BY <1>1, <1>2
<1>4. m \in Seq(T) /\ Len(m) = k
  BY ONLY <1>3, k \in Nat
<1>5. IsSeq(m)
  BY ONLY <1>4, SeqIs
<1>6. QED BY <1>2, <1>4, <1>5

\* The least of a set of numbers, and how often a sequence holds something.
Before == {p \in Nat \X Nat : p[1] < p[2]}

LEMMA LeastIs ==
  ASSUME NEW I \in SUBSET Nat, I # {}
  PROVE  Least(I) \in I
<1>1. IsWellFoundedOn(Before, Nat)
  BY NatLessThanWellFounded DEF OpToRel, Before
<1>2. PICK n \in I : \A m \in I : ~ (<<m, n>> \in Before)
  BY <1>1, WFMin, I \subseteq Nat
<1>3. ASSUME NEW m \in I PROVE n <= m
  <2>1. m \in Nat /\ n \in Nat
    OBVIOUS
  <2>2. m < n => <<m, n>> \in Before
    BY <2>1 DEF Before
  <2>3. QED BY <1>2, <2>1, <2>2
<1>4. \E i \in I : \A j \in I : i <= j
  BY <1>3
<1>5. QED BY <1>4 DEF Least

LEMMA NoOccurrence ==
  ASSUME NEW s, IsSeq(s), NEW x
  PROVE  /\ Occurrences(x, s) \in Nat
         /\ Occurrences(x, s) = 0 <=> \A i \in 1 .. Len(s) : s[i] # x
<1>1. PICK k \in Nat : k = Len(s)
  BY LenIs
<1>2. PICK I : I = {i \in 1 .. Len(s) : s[i] = x}
  OBVIOUS
<1>3. PICK a, b \in Int : a = 1 /\ b = k
  OBVIOUS
<1>4. IsFiniteSet(a .. b)
  BY ONLY FS_Interval, a \in Int, b \in Int
<1>5. I \subseteq a .. b
  BY ONLY <1>1, <1>2, <1>3
<1>6. IsFiniteSet(I)
  BY ONLY <1>4, <1>5, FS_Subset
<1>7. Cardinality(I) \in Nat /\ (Cardinality(I) = 0 <=> I = {})
  BY ONLY <1>6, FS_CardinalityType, FS_EmptySet
<1>8. I = {} <=> \A i \in 1 .. Len(s) : s[i] # x
  BY ONLY <1>2
<1>9. QED BY ONLY <1>2, <1>7, <1>8 DEF Occurrences

LEMMA OneOccurrence ==
  ASSUME NEW s, IsSeq(s), NEW e, NEW x
  PROVE  Occurrences(x, Append(s, e)) = Occurrences(x, s) + IF e = x THEN 1 ELSE 0
<1>1. PICK k \in Nat : k = Len(s)
  BY LenIs
<1>2. PICK I : I = {i \in 1 .. Len(s) : s[i] = x}
  OBVIOUS
<1>3. PICK J : J = {i \in 1 .. Len(Append(s, e)) : Append(s, e)[i] = x}
  OBVIOUS
<1>4. PICK a, b \in Int : a = 1 /\ b = k
  OBVIOUS
<1>5. IsFiniteSet(a .. b)
  BY ONLY FS_Interval, a \in Int, b \in Int
<1>6. I \subseteq a .. b
  BY ONLY <1>1, <1>2, <1>4
<1>7. IsFiniteSet(I)
  BY ONLY <1>5, <1>6, FS_Subset
<1>8. k + 1 \notin I
  BY <1>1, <1>2
<1>9. ASSUME NEW i PROVE i \in J <=> i \in IF e = x THEN I \cup {k + 1} ELSE I
  BY <1>1, <1>2, <1>3, AppendIs
<1>10. J = IF e = x THEN I \cup {k + 1} ELSE I
  BY ONLY <1>9
<1>11. Cardinality(I \cup {k + 1}) = Cardinality(I) + 1
  BY ONLY <1>7, <1>8, FS_AddElement
<1>12. Cardinality(I) \in Nat
  BY ONLY <1>7, FS_CardinalityType
<1>13. Cardinality(J) = Cardinality(I) + IF e = x THEN 1 ELSE 0
  BY ONLY <1>10, <1>11, <1>12
<1>14. QED BY ONLY <1>2, <1>3, <1>13 DEF Occurrences

-----------------------------------------------------------------------------
(* The graph of streams                                                    *)

\* Nothing of n is lost in m: streams and destinations are only added.
Keeps(n, m) ==
  /\ Len(n.stream) <= Len(m.stream)
  /\ \A s \in 1 .. Len(n.stream) : m.stream[s] = n.stream[s]
  /\ Len(n.dest) <= Len(m.dest)
  /\ \A d \in 1 .. Len(n.dest) : m.dest[d].stream = n.dest[d].stream

LEMMA NetLengths ==
  ASSUME NEW n, NetInv(n)
  PROVE  Len(n.stream) \in Nat /\ Len(n.dest) \in Nat
BY LenIs DEF NetInv

LEMMA KeepsItself ==
  ASSUME NEW n, NetInv(n)
  PROVE  Keeps(n, n)
BY NetLengths DEF Keeps

LEMMA KeepsOn ==
  ASSUME NEW l, NEW n, NEW m, NetInv(l), NetInv(n), NetInv(m), Keeps(l, n), Keeps(n, m)
  PROVE  Keeps(l, m)
<1>1. Len(l.stream) \in Nat /\ Len(n.stream) \in Nat /\ Len(m.stream) \in Nat
  BY NetLengths
<1>2. Len(l.dest) \in Nat /\ Len(n.dest) \in Nat /\ Len(m.dest) \in Nat
  BY NetLengths
<1>3. QED BY <1>1, <1>2 DEF Keeps

LEMMA FedOn ==
  ASSUME NEW n, NEW m, NetInv(n), NetInv(m), Keeps(n, m), NEW d, Fed(n, d)
  PROVE  Fed(m, d)
<1>1. Len(n.stream) \in Nat /\ Len(n.dest) \in Nat /\ Len(m.stream) \in Nat /\ Len(m.dest) \in Nat
  BY NetLengths
<1>2. d \in 1 .. Len(n.dest) /\ n.dest[d].stream \in 1 .. Len(n.stream)
  BY DEF Fed, NetInv
<1>3. d \in 1 .. Len(m.dest) /\ m.dest[d].stream = n.dest[d].stream
  BY <1>1, <1>2 DEF Keeps
<1>4. m.stream[n.dest[d].stream] = n.stream[n.dest[d].stream]
  BY <1>2 DEF Keeps
<1>5. QED BY <1>3, <1>4 DEF Fed

\* A net with one more stream in it, at a place of the list.
LEMMA StreamMore ==
  ASSUME NEW n, NetInv(n), NEW x, NEW m,
         m = [n EXCEPT !.stream = Append(n.stream, x), !.order = m.order],
         m.order \in Seq(1 .. Len(n.stream) + 1)
  PROVE  NetInv(m) /\ Keeps(n, m)
<1>1. n = [stream |-> n.stream, order |-> n.order, dest |-> n.dest,
           input |-> n.input, running |-> n.running]
  BY DEF NetInv, IsNet
<1>2. m.stream = Append(n.stream, x) /\ m.dest = n.dest /\ IsNet(m)
  BY <1>1 DEF IsNet
<1>3. IsSeq(n.stream) /\ IsSeq(n.dest)
  BY DEF NetInv
<1>4. /\ IsSeq(m.stream) /\ Len(m.stream) = Len(n.stream) + 1
      /\ \A s \in 1 .. Len(n.stream) : m.stream[s] = n.stream[s]
  BY ONLY <1>2, <1>3, AppendIs
<1>5. Len(n.stream) \in Nat /\ Len(n.dest) \in Nat
  BY NetLengths
<1>6. NetInv(m)
  BY <1>2, <1>3, <1>4, <1>5 DEF NetInv
<1>7. Keeps(n, m)
  BY ONLY <1>2, <1>4, <1>5 DEF Keeps
<1>8. QED BY <1>6, <1>7

LEMMA DestFields ==
  ASSUME NEW s, NEW o, NEW d, d = [stream |-> s, owner |-> o, waiting |-> FALSE]
  PROVE  IsDest(d) /\ d.stream = s
<1>1. PICK w : w = FALSE
  OBVIOUS
<1>2. d = [stream |-> s, owner |-> o, waiting |-> w]
  BY ONLY <1>1, d = [stream |-> s, owner |-> o, waiting |-> FALSE]
<1>3. d.stream = s /\ d.owner = o /\ d.waiting = w
  BY ONLY <1>2
<1>4. QED BY <1>2, <1>3 DEF IsDest

\* A net with one more destination.
LEMMA DestMore ==
  ASSUME NEW n, NetInv(n), NEW s \in 1 .. Len(n.stream), NEW o, NEW m,
         m = [n EXCEPT !.dest = Append(n.dest, [stream |-> s, owner |-> o, waiting |-> FALSE])]
  PROVE  /\ NetInv(m) /\ Keeps(n, m)
         /\ Len(m.dest) = Len(n.dest) + 1
         /\ m.dest[Len(m.dest)].stream = s
         /\ m.stream = n.stream
<1>1. n = [stream |-> n.stream, order |-> n.order, dest |-> n.dest,
           input |-> n.input, running |-> n.running]
  BY DEF NetInv, IsNet
<1>2. PICK d : d = [stream |-> s, owner |-> o, waiting |-> FALSE]
  OBVIOUS
<1>3. IsDest(d) /\ d.stream = s
  BY <1>2, DestFields
<1>4. m = [n EXCEPT !.dest = Append(n.dest, d)]
  BY <1>2
<1>5. m.dest = Append(n.dest, d) /\ m.stream = n.stream /\ m.order = n.order /\ IsNet(m)
  BY ONLY <1>1, <1>4 DEF IsNet
<1>6. IsSeq(n.stream) /\ IsSeq(n.dest)
  BY DEF NetInv
<1>7. /\ IsSeq(m.dest) /\ Len(m.dest) = Len(n.dest) + 1
      /\ m.dest[Len(n.dest) + 1] = d
      /\ \A i \in 1 .. Len(n.dest) : m.dest[i] = n.dest[i]
  BY ONLY <1>5, <1>6, AppendIs
<1>8. Len(n.stream) \in Nat /\ Len(n.dest) \in Nat
  BY NetLengths
<1>9. ASSUME NEW i \in 1 .. Len(m.dest)
      PROVE  IsDest(m.dest[i]) /\ m.dest[i].stream \in 1 .. Len(m.stream)
  <2>1. CASE i = Len(n.dest) + 1
    BY <2>1, <1>3, <1>5, <1>7
  <2>2. CASE i \in 1 .. Len(n.dest)
    BY <2>2, <1>5, <1>7 DEF NetInv
  <2>3. QED BY <2>1, <2>2, <1>7, <1>8
<1>10. n.order \in Seq(1 .. Len(n.stream))
  BY DEF NetInv
<1>11. NetInv(m)
  BY ONLY <1>5, <1>6, <1>7, <1>9, <1>10 DEF NetInv
<1>12. Keeps(n, m)
  BY ONLY <1>5, <1>7, <1>8 DEF Keeps
<1>13. QED BY <1>3, <1>5, <1>7, <1>11, <1>12

LEMMA WithStreamKeeps ==
  ASSUME NEW n, NetInv(n), NEW name, NEW format, NEW owner
  PROVE  /\ NetInv(WithStream(n, name, format, owner))
         /\ Keeps(n, WithStream(n, name, format, owner))
<1>1. PICK x : x = [name |-> name, format |-> format, owner |-> owner, feed |-> None]
  OBVIOUS
<1>2. PICK m : m = WithStream(n, name, format, owner)
  OBVIOUS
<1>3. PICK k \in Nat : k = Len(n.stream)
  BY NetLengths
<1>4. m = [n EXCEPT !.stream = Append(n.stream, x), !.order = <<k + 1>> \o n.order]
  BY ONLY <1>1, <1>2, <1>3 DEF WithStream
<1>5. n = [stream |-> n.stream, order |-> n.order, dest |-> n.dest,
           input |-> n.input, running |-> n.running]
  BY DEF NetInv, IsNet
<1>6. m.order = <<k + 1>> \o n.order
  BY ONLY <1>4, <1>5
<1>7. n.order \in Seq(1 .. k + 1)
  BY <1>3 DEF NetInv
<1>8. <<k + 1>> \in Seq(1 .. k + 1)
  BY <1>3
<1>9. m.order \in Seq(1 .. k + 1)
  BY ONLY <1>6, <1>7, <1>8
<1>10. NetInv(m) /\ Keeps(n, m)
  BY ONLY <1>3, <1>4, <1>6, <1>9, NetInv(n), StreamMore
<1>11. QED BY <1>2, <1>10

LEMMA WithDestKeeps ==
  ASSUME NEW n, NetInv(n), NEW s \in 1 .. Len(n.stream), NEW owner
  PROVE  /\ NetInv(WithDest(n, s, owner)) /\ Keeps(n, WithDest(n, s, owner))
         /\ Len(WithDest(n, s, owner).dest) = Len(n.dest) + 1
         /\ WithDest(n, s, owner).dest[Len(n.dest) + 1].stream = s
         /\ WithDest(n, s, owner).stream = n.stream
<1>1. PICK m : m = WithDest(n, s, owner)
  OBVIOUS
<1>2. m = [n EXCEPT !.dest = Append(n.dest, [stream |-> s, owner |-> owner, waiting |-> FALSE])]
  BY ONLY <1>1 DEF WithDest
<1>3. /\ NetInv(m) /\ Keeps(n, m) /\ Len(m.dest) = Len(n.dest) + 1
      /\ m.dest[Len(m.dest)].stream = s /\ m.stream = n.stream
  BY <1>2, DestMore
<1>4. QED BY <1>1, <1>3

\* The stream a conversion makes is the last one, and can be sent as it is asked for.
LEMMA WithConversionKeeps ==
  ASSUME NEW n, NetInv(n), NEW s \in 1 .. Len(n.stream),
         NEW i \in 1 .. Len(n.order), n.order[i] = s
  PROVE  /\ NetInv(WithConversion(n, s)) /\ Keeps(n, WithConversion(n, s))
         /\ Len(WithConversion(n, s).stream) = Len(n.stream) + 1
         /\ WithConversion(n, s).stream[Len(n.stream) + 1].format = "rgb24"
<1>1. PICK x : x = [name |-> n.stream[s].name, format |-> "rgb24",
                    owner |-> None, feed |-> Len(n.dest) + 1]
  OBVIOUS
<1>2. PICK k \in Nat : k = Len(n.stream)
  BY NetLengths
<1>3. PICK here : here = CHOOSE j \in 1 .. Len(n.order) : n.order[j] = s
  OBVIOUS
<1>4. here \in 1 .. Len(n.order)
  BY <1>3
<1>5. PICK o : o = SubSeq(n.order, 1, here) \o <<k + 1>> \o SubSeq(n.order, here + 1, Len(n.order))
  OBVIOUS
<1>6. n.order \in Seq(1 .. k + 1) /\ <<k + 1>> \in Seq(1 .. k + 1)
  BY <1>2 DEF NetInv
<1>7. /\ SubSeq(n.order, 1, here) \in Seq(1 .. k + 1)
      /\ SubSeq(n.order, here + 1, Len(n.order)) \in Seq(1 .. k + 1)
  <2>1. Len(n.order) \in Nat /\ here \in Nat /\ here >= 1 /\ here <= Len(n.order)
    BY <1>4, <1>6
  <2>2. PICK T : T = 1 .. k + 1
    OBVIOUS
  <2>3. n.order \in Seq(T)
    BY <1>6, <2>2
  <2>4. \A a, b \in 1 .. Len(n.order) : n.order[a] \in T
    BY ONLY <2>3, ElementOfSeq
  <2>5. SubSeq(n.order, 1, here) \in Seq(T)
    BY ONLY <2>1, <2>3, <2>4
  <2>6. SubSeq(n.order, here + 1, Len(n.order)) \in Seq(T)
    BY ONLY <2>1, <2>3, <2>4
  <2>7. QED BY <2>2, <2>5, <2>6
<1>8. o \in Seq(1 .. k + 1)
  BY ONLY <1>5, <1>6, <1>7
<1>9. PICK d : d = [stream |-> s, owner |-> None, waiting |-> FALSE]
  OBVIOUS
<1>10. PICK l : l = [n EXCEPT !.stream = Append(n.stream, x), !.order = o]
  OBVIOUS
<1>11. n = [stream |-> n.stream, order |-> n.order, dest |-> n.dest,
            input |-> n.input, running |-> n.running]
  BY DEF NetInv, IsNet
<1>12. l.order = o /\ l.stream = Append(n.stream, x) /\ l.dest = n.dest
  BY ONLY <1>10, <1>11
<1>13. NetInv(l) /\ Keeps(n, l)
  BY ONLY <1>2, <1>8, <1>10, <1>12, NetInv(n), StreamMore
<1>14. Len(l.stream) = Len(n.stream) + 1 /\ l.stream[Len(n.stream) + 1] = x
  <2>1. IsSeq(n.stream)
    BY DEF NetInv
  <2>2. QED BY ONLY <1>12, <2>1, AppendIs
<1>15. PICK m : m = WithConversion(n, s)
  OBVIOUS
<1>16. m = [n EXCEPT !.stream = Append(n.stream, x), !.order = o, !.dest = Append(n.dest, d)]
  BY ONLY <1>1, <1>2, <1>3, <1>5, <1>9, <1>15 DEF WithConversion
<1>17. m = [l EXCEPT !.dest = Append(l.dest, d)]
  BY ONLY <1>10, <1>11, <1>12, <1>16
<1>18. s \in 1 .. Len(l.stream)
  BY <1>2, <1>14
<1>19. PICK none : none = None
  OBVIOUS
<1>20. m = [l EXCEPT !.dest = Append(l.dest, [stream |-> s, owner |-> none, waiting |-> FALSE])]
  BY ONLY <1>9, <1>17, <1>19
<1>21. NetInv(m) /\ Keeps(l, m) /\ m.stream = l.stream
  BY ONLY <1>13, <1>18, <1>20, DestMore
<1>22. Keeps(n, m)
  BY ONLY <1>13, <1>21, NetInv(n), KeepsOn
<1>23. x.format = "rgb24"
  BY ONLY <1>1
<1>24. QED BY ONLY <1>14, <1>15, <1>21, <1>22, <1>23

LEMMA NamedPlaces ==
  ASSUME NEW n, NetInv(n), NEW name, NEW formats, Named(n, name, formats) # {}
  PROVE  \E i \in 1 .. Len(n.order) :
           /\ i = Least(Named(n, name, formats)) /\ n.order[i] \in 1 .. Len(n.stream)
           /\ n.stream[n.order[i]].format \in formats
<1>1. n.order \in Seq(1 .. Len(n.stream))
  BY DEF NetInv
<1>2. PICK I : I = Named(n, name, formats)
  OBVIOUS
<1>3. I \in SUBSET (1 .. Len(n.order)) /\ \A i \in I : n.stream[n.order[i]].format \in formats
  BY ONLY <1>2 DEF Named
<1>4. PICK k \in Nat : k = Len(n.order)
  BY <1>1
<1>5. I \in SUBSET Nat /\ I # {}
  BY <1>2, <1>3, <1>4
<1>6. PICK i : i = Least(I)
  OBVIOUS
<1>7. i \in I
  BY ONLY <1>5, <1>6, LeastIs
<1>8. i \in 1 .. Len(n.order) /\ n.stream[n.order[i]].format \in formats
  BY <1>3, <1>7
<1>9. n.order[i] \in 1 .. Len(n.stream)
  BY ONLY <1>1, <1>8, ElementOfSeq
<1>10. QED BY <1>2, <1>6, <1>8, <1>9

\* What connect_to_stream finds can be sent as it was asked for, by name or converted.
LEMMA ConnectKeeps ==
  ASSUME NEW n, NetInv(n), NEW name, NEW formats, NEW owner, CanConnect(n, name, formats)
  PROVE  \E m : /\ m = Connect(n, name, formats, owner)
                /\ NetInv(m) /\ Keeps(n, m) /\ Len(m.dest) \in 1 .. Len(m.dest)
                /\ m.stream[m.dest[Len(m.dest)].stream].format \in formats
<1>1. PICK m : m = Connect(n, name, formats, owner)
  OBVIOUS
<1>2. Len(n.stream) \in Nat /\ Len(n.dest) \in Nat
  BY NetLengths
<1>3. CASE Named(n, name, formats) # {}
  <2>1. PICK i \in 1 .. Len(n.order) :
           /\ i = Least(Named(n, name, formats)) /\ n.order[i] \in 1 .. Len(n.stream)
           /\ n.stream[n.order[i]].format \in formats
    BY <1>3, NamedPlaces
  <2>2. PICK s \in 1 .. Len(n.stream) : s = n.order[i]
    BY <2>1
  <2>3. m = WithDest(n, s, owner)
    BY <1>1, <1>3, <2>1, <2>2 DEF Connect
  <2>4. /\ NetInv(m) /\ Keeps(n, m) /\ Len(m.dest) = Len(n.dest) + 1
        /\ m.dest[Len(n.dest) + 1].stream = s /\ m.stream = n.stream
    BY ONLY <2>3, NetInv(n), s \in 1 .. Len(n.stream), WithDestKeeps
  <2>5. Len(m.dest) \in 1 .. Len(m.dest)
    BY <2>4, <1>2
  <2>6. QED BY <1>1, <2>1, <2>2, <2>4, <2>5
<1>4. CASE Named(n, name, formats) = {}
  <2>1. "rgb24" \in formats /\ Named(n, name, {"uyvy"}) # {}
    BY <1>4 DEF CanConnect, Raw
  <2>2. PICK i \in 1 .. Len(n.order) :
           i = Least(Named(n, name, {"uyvy"})) /\ n.order[i] \in 1 .. Len(n.stream)
    BY <2>1, NamedPlaces
  <2>3. PICK s \in 1 .. Len(n.stream) : s = n.order[i]
    BY <2>2
  <2>4. PICK l : l = WithConversion(n, s)
    OBVIOUS
  <2>5. /\ NetInv(l) /\ Keeps(n, l) /\ Len(l.stream) = Len(n.stream) + 1
        /\ l.stream[Len(n.stream) + 1].format = "rgb24"
    BY <2>3, <2>4, WithConversionKeeps
  <2>6. Raw(n, name, formats) = Named(n, name, {"uyvy"})
    BY <2>1 DEF Raw
  <2>7. m = WithDest(l, Len(n.stream) + 1, owner)
    BY <1>1, <1>4, <2>2, <2>3, <2>4, <2>6 DEF Connect
  <2>8. PICK t \in 1 .. Len(l.stream) : t = Len(n.stream) + 1
    BY <1>2, <2>5
  <2>9. /\ NetInv(m) /\ Keeps(l, m) /\ Len(m.dest) = Len(l.dest) + 1
        /\ m.dest[Len(l.dest) + 1].stream = t /\ m.stream = l.stream
    BY ONLY <2>5, <2>7, <2>8, t \in 1 .. Len(l.stream), WithDestKeeps
  <2>10. Keeps(n, m)
    BY ONLY <2>5, <2>9, NetInv(n), KeepsOn
  <2>11. Len(m.dest) \in 1 .. Len(m.dest)
    BY <2>5, <2>9, NetLengths
  <2>12. QED BY <1>1, <2>1, <2>5, <2>8, <2>9, <2>10, <2>11
<1>5. QED BY <1>3, <1>4

\* set_waiting moves no destination to another stream.
LEMMA SetWaitingKeeps ==
  ASSUME NEW n, NetInv(n), NEW d, NEW w
  PROVE  NetInv(SetWaiting(n, d, w)) /\ Keeps(n, SetWaiting(n, d, w))
<1>1. PICK m : m = SetWaiting(n, d, w)
  OBVIOUS
<1>2. PICK ch : ch = Changed(n, d, w)
  OBVIOUS
<1>3. PICK ds : ds = [x \in DOMAIN n.dest |->
                        IF x \in ch THEN [n.dest[x] EXCEPT !.waiting = w] ELSE n.dest[x]]
  OBVIOUS
<1>4. PICK told : told = {n.dest[x].stream : x \in {y \in ch : Upstream(n, y) = None
                                                     /\ (w \/ ~ OthersWait(n, y))}}
  OBVIOUS
<1>5. PICK r : r = IF w THEN n.running \cup told ELSE n.running \ told
  OBVIOUS
<1>6. n = [stream |-> n.stream, order |-> n.order, dest |-> n.dest,
           input |-> n.input, running |-> n.running]
  BY DEF NetInv, IsNet
<1>7. m = [n EXCEPT !.dest = ds, !.running = r]
  BY ONLY <1>1, <1>2, <1>3, <1>4, <1>5, <1>6 DEF SetWaiting
<1>8. m.stream = n.stream /\ m.order = n.order /\ m.dest = ds /\ IsNet(m)
  BY ONLY <1>6, <1>7 DEF IsNet
<1>9. IsSeq(n.stream) /\ IsSeq(n.dest) /\ n.order \in Seq(1 .. Len(n.stream))
  BY DEF NetInv
<1>10. DOMAIN n.dest = 1 .. Len(n.dest)
  BY <1>9 DEF IsSeq
<1>11. IsSeq(ds) /\ Len(ds) = Len(n.dest)
  BY <1>3, <1>9, <1>10, MapIs
<1>12. ASSUME NEW x \in 1 .. Len(n.dest)
       PROVE  IsDest(ds[x]) /\ ds[x].stream = n.dest[x].stream
  <2>1. IsDest(n.dest[x])
    BY DEF NetInv
  <2>2. PICK a, b, c : n.dest[x] = [stream |-> a, owner |-> b, waiting |-> c]
    BY <2>1 DEF IsDest
  <2>3. ds[x] = IF x \in ch THEN [n.dest[x] EXCEPT !.waiting = w] ELSE n.dest[x]
    BY <1>3, <1>10
  <2>4. CASE x \in ch
    <3>1. ds[x] = [stream |-> a, owner |-> b, waiting |-> w]
      BY ONLY <2>2, <2>3, <2>4
    <3>2. QED BY ONLY <2>2, <3>1 DEF IsDest
  <2>5. CASE x \notin ch
    BY <2>1, <2>3, <2>5
  <2>6. QED BY <2>4, <2>5
<1>13. \A x \in 1 .. Len(n.dest) : n.dest[x].stream \in 1 .. Len(n.stream)
  BY DEF NetInv
<1>14. NetInv(m)
  BY ONLY <1>8, <1>9, <1>11, <1>12, <1>13 DEF NetInv
<1>15. Keeps(n, m)
  BY <1>8, <1>11, <1>12, NetLengths DEF Keeps
<1>16. QED BY <1>1, <1>14, <1>15

-----------------------------------------------------------------------------
(* Steps that leave the tracks alone                                       *)

BlocksKept ==
  /\ IsSeq(blocks') /\ Len(blocks') = Len(blocks)
  /\ \A b \in 1 .. Len(blocks) : /\ IsBlock(blocks'[b]) /\ blocks'[b].kind = blocks[b].kind
                                 /\ blocks[b].out # None => blocks'[b].out # None

Quiet ==
  /\ text' = text /\ at' \in Nat \ {0}
  /\ NetInv(net') /\ Keeps(net, net')
  /\ BlocksKept /\ cur' = cur
  /\ UNCHANGED <<tracks, entries>>

LEMMA Settled ==
  ASSUME BlockInv, UNCHANGED blocks
  PROVE  BlocksKept
BY DEF BlockInv, BlocksKept

LEMMA OneBlock ==
  ASSUME BlockInv, cur # None, NEW b, IsBlock(b), b.kind = blocks[cur].kind,
         blocks[cur].out # None => b.out # None, blocks' = [blocks EXCEPT ![cur] = b]
  PROVE  BlocksKept
<1>1. IsSeq(blocks) /\ \A i \in 1 .. Len(blocks) : IsBlock(blocks[i])
  BY DEF BlockInv
<1>2. Len(blocks) \in Nat
  BY <1>1, LenIs
<1>3. cur \in 1 .. Len(blocks)
  BY <1>2 DEF BlockInv, None
<1>4. /\ IsSeq(blocks') /\ Len(blocks') = Len(blocks) /\ blocks'[cur] = b
      /\ \A i \in 1 .. Len(blocks) : i # cur => blocks'[i] = blocks[i]
  <2>1. PICK t : t = blocks'
    OBVIOUS
  <2>2. PICK k \in 1 .. Len(blocks) : k = cur
    BY <1>3
  <2>3. t = Put(blocks, k, b)
    BY <2>1, <2>2 DEF Put
  <2>4. /\ IsSeq(t) /\ Len(t) = Len(blocks) /\ t[k] = b
        /\ \A i \in 1 .. Len(blocks) : i # k => t[i] = blocks[i]
    BY ONLY <1>1, <2>3, k \in 1 .. Len(blocks), ExceptIs
  <2>5. QED BY ONLY <2>1, <2>2, <2>4
<1>5. ASSUME NEW i \in 1 .. Len(blocks)
      PROVE  /\ IsBlock(blocks'[i]) /\ blocks'[i].kind = blocks[i].kind
             /\ blocks[i].out # None => blocks'[i].out # None
  BY ONLY <1>1, <1>4, i \in 1 .. Len(blocks), IsBlock(b), b.kind = blocks[cur].kind,
          blocks[cur].out # None => b.out # None
<1>6. QED BY <1>4, <1>5 DEF BlocksKept

LEMMA FieldOfBlock ==
  ASSUME NEW b, IsBlock(b), NEW f, f # "kind", NEW v, f # "out" \/ v # None
  PROVE  /\ IsBlock([b EXCEPT ![f] = v]) /\ [b EXCEPT ![f] = v].kind = b.kind
         /\ b.out # None => [b EXCEPT ![f] = v].out # None
BY DEF IsBlock

\* One field of the block that is being read.
LEMMA OneField ==
  ASSUME BlockInv, cur # None, NEW f, f # "kind", NEW v, f # "out" \/ v # None,
         blocks' = [blocks EXCEPT ![cur][f] = v]
  PROVE  BlocksKept
<1>1. PICK b : b = [blocks[cur] EXCEPT ![f] = v]
  OBVIOUS
<1>2. Len(blocks) \in Nat
  BY LenIs DEF BlockInv
<1>3. cur \in 1 .. Len(blocks)
  BY <1>2 DEF BlockInv, None
<1>4. IsBlock(blocks[cur])
  BY <1>3 DEF BlockInv
<1>5. IsBlock(b) /\ b.kind = blocks[cur].kind /\ (blocks[cur].out # None => b.out # None)
  BY ONLY <1>1, <1>4, f # "kind", f # "out" \/ v # None, FieldOfBlock
<1>6. blocks' = [blocks EXCEPT ![cur] = b]
  BY <1>1
<1>7. QED BY <1>5, <1>6, OneBlock

LEMMA QuietKeeps ==
  ASSUME ConfInv, Quiet
  PROVE  ConfInv'
<1> USE DEF Quiet
<1>1. Len(blocks) \in Nat
  BY LenIs DEF ConfInv, BlockInv
<1>2. BlockInv' /\ InLive' = InLive
  BY <1>1 DEF ConfInv, BlockInv, BlocksKept, InLive, None
<1>3. TrackTypes'
  BY DEF ConfInv, TrackTypes, TrackNames
<1>4. TracksInv'
  <2>1. ASSUME NEW i \in 1 .. LIVE_MAX_TRACKS
        PROVE  IF tracks[i].dest = None THEN tracks[i].known = <<>> /\ tracks[i].name = ""
               ELSE Fed(net', tracks[i].dest)
    BY FedOn DEF ConfInv, TracksInv
  <2>2. QED BY <2>1 DEF TracksInv
<1>5. EntriesInv'
  BY <1>2 DEF ConfInv, EntriesInv
<1>6. QED BY <1>2, <1>3, <1>4, <1>5 DEF ConfInv

LEMMA ReadsOn ==
  ASSUME ConfInv, NEW st, Reads(st)
  PROVE  text' = text /\ at' \in Nat \ {0}
BY DEF ConfInv, Reads

LEMMA NetSettled ==
  ASSUME ConfInv, UNCHANGED net
  PROVE  NetInv(net') /\ Keeps(net, net')
BY KeepsItself DEF ConfInv

\* A step that changes neither the blocks nor the graph.
LEMMA QuietSettled ==
  ASSUME ConfInv, text' = text, at' \in Nat \ {0}, UNCHANGED <<blocks, cur, net, tracks, entries>>
  PROVE  Quiet
BY Settled, NetSettled DEF ConfInv, Quiet

LEMMA QuietGlobal ==
  ASSUME ConfInv, \/ \E n : FrameHeap(n)
                  \/ Port \/ RtpRange \/ Malformed \/ EndOfText \/ Deinit
  PROVE  Quiet
<1>1. ASSUME NEW n, FrameHeap(n) PROVE Quiet
  BY <1>1, ReadsOn, QuietSettled DEF FrameHeap
<1>2. ASSUME Port PROVE Quiet
  BY <1>2, ReadsOn, QuietSettled DEF Port
<1>3. ASSUME RtpRange PROVE Quiet
  BY <1>3, ReadsOn, QuietSettled DEF RtpRange, Unread
<1>4. ASSUME Malformed PROVE Quiet
  BY <1>4, ReadsOn, QuietSettled DEF Malformed, Unread
<1>5. ASSUME EndOfText PROVE Quiet
  BY <1>5, QuietSettled DEF EndOfText, Unread, ConfInv
<1>6. ASSUME Deinit PROVE Quiet
  BY <1>6, QuietSettled DEF Deinit, Unread, ConfInv
<1>7. QED BY <1>1, <1>2, <1>3, <1>4, <1>5, <1>6

LEMMA GiveKeeps ==
  ASSUME BlockInv, cur # None, NEW v, Give(v)
  PROVE  BlocksKept
<1>1. PICK g : g = blocks[cur].given \cup {v}
  OBVIOUS
<1>2. PICK f : f = "given"
  OBVIOUS
<1>3. blocks' = [blocks EXCEPT ![cur][f] = g]
  BY <1>1, <1>2 DEF Give
<1>4. f # "kind" /\ f # "out"
  BY <1>2
<1>5. QED BY <1>3, <1>4, OneField

LEMMA QuietSetting ==
  ASSUME ConfInv, \/ \E d : SetValue(d)
                  \/ \E r : SetRate(r)
                  \/ \E f : SetFormat(f)
                  \/ SetPath
  PROVE  Quiet
<1>1. BlockInv
  BY DEF ConfInv
<1>2. ASSUME text' = text, at' \in Nat \ {0}, BlocksKept, UNCHANGED <<cur, net, tracks, entries>>
      PROVE  Quiet
  BY <1>2, NetSettled DEF Quiet
<1>3. ASSUME NEW d, SetValue(d) PROVE Quiet
  <2>1. cur # None /\ (Give(d) \/ UNCHANGED blocks)
    BY <1>3 DEF SetValue
  <2>2. BlocksKept
    BY <1>1, <2>1, GiveKeeps, Settled
  <2>3. QED BY <1>2, <1>3, <2>2, ReadsOn DEF SetValue
<1>4. ASSUME NEW r, SetRate(r) PROVE Quiet
  <2>1. CASE Blk.rate >= 0
    BY <1>1, <1>2, <1>4, <2>1, ReadsOn, Settled DEF SetRate
  <2>2. CASE ~ (Blk.rate >= 0)
    <3>1. PICK g : g = blocks[cur].given \cup {"framerate"}
      OBVIOUS
    <3>2. PICK b : b = [blocks[cur] EXCEPT !["rate"] = r]
      OBVIOUS
    <3>3. PICK c : c = [b EXCEPT !["given"] = g]
      OBVIOUS
    <3>4. cur \in 1 .. Len(blocks) /\ IsSeq(blocks) /\ IsBlock(blocks[cur])
      BY <1>4, LenIs DEF ConfInv, BlockInv, SetRate, None
    <3>5. blocks' = [blocks EXCEPT ![cur].rate = r, ![cur].given = @ \cup {"framerate"}]
      BY <1>4, <2>2 DEF SetRate
    <3>6. blocks' = [blocks EXCEPT ![cur] = c]
      BY <3>1, <3>2, <3>3, <3>4, <3>5 DEF IsSeq, IsBlock
    <3>7. "rate" # "kind" /\ "rate" # "out" /\ "given" # "kind" /\ "given" # "out"
      OBVIOUS
    <3>8. /\ IsBlock(b) /\ b.kind = blocks[cur].kind
          /\ blocks[cur].out # None => b.out # None
      <4>1. PICK a, field : a = blocks[cur] /\ field = "rate"
        OBVIOUS
      <4>2. IsBlock(a) /\ field # "kind" /\ (field # "out" \/ r # None) /\ b = [a EXCEPT ![field] = r]
        BY <3>2, <3>4, <3>7, <4>1
      <4>3. /\ IsBlock([a EXCEPT ![field] = r]) /\ [a EXCEPT ![field] = r].kind = a.kind
            /\ a.out # None => [a EXCEPT ![field] = r].out # None
        BY ONLY <4>2, FieldOfBlock
      <4>4. QED BY ONLY <4>1, <4>2, <4>3
    <3>9. IsBlock(b)
      BY <3>8
    <3>10. IsBlock(c) /\ c.kind = b.kind /\ (b.out # None => c.out # None)
      BY ONLY <3>3, <3>9, <3>7, FieldOfBlock
    <3>11. BlocksKept
      BY <1>1, <1>4, <3>6, <3>8, <3>10, OneBlock DEF SetRate
    <3>12. QED BY <1>2, <1>4, <3>11, ReadsOn DEF SetRate
  <2>3. QED BY <2>1, <2>2
<1>5. ASSUME NEW f, SetFormat(f) PROVE Quiet
  <2>1. cur # None
    BY <1>5 DEF SetFormat, InBlock
  <2>2. PICK g : g = "format"
    OBVIOUS
  <2>3. blocks' = blocks \/ blocks' = [blocks EXCEPT ![cur][g] = f]
    BY <1>5, <2>2 DEF SetFormat
  <2>4. BlocksKept
    BY <1>1, <2>1, <2>2, <2>3, OneField, Settled
  <2>5. QED BY <1>2, <1>5, <2>4, ReadsOn DEF SetFormat
<1>6. ASSUME SetPath PROVE Quiet
  <2>1. cur # None /\ Give("path")
    BY <1>6 DEF SetPath, InBlock
  <2>2. BlocksKept
    BY <1>1, <2>1, GiveKeeps
  <2>3. QED BY <1>2, <1>6, <2>2, ReadsOn DEF SetPath
<1>7. QED BY <1>3, <1>4, <1>5, <1>6

\* Only the input of a block is set.
LEMMA InputKeeps ==
  ASSUME NEW n, NetInv(n), NEW i, NEW m, m = [n EXCEPT !.input = i]
  PROVE  NetInv(m) /\ Keeps(n, m)
<1>1. n = [stream |-> n.stream, order |-> n.order, dest |-> n.dest,
           input |-> n.input, running |-> n.running]
  BY DEF NetInv, IsNet
<1>2. IsNet(m) /\ m.stream = n.stream /\ m.dest = n.dest /\ m.order = n.order
  BY <1>1 DEF IsNet
<1>3. QED BY <1>2, NetLengths DEF NetInv, Keeps

LEMMA QuietGraph ==
  ASSUME ConfInv, \/ \E m : SetOutput(m) \/ SetInput(m) \/ SourceTrack(m)
                  \/ \E i \in 1 .. LIVE_MAX_TRACKS, w \in BOOLEAN : Listen(i, w)
  PROVE  Quiet
<1>1. BlockInv /\ NetInv(net)
  BY DEF ConfInv
<1>2. ASSUME text' = text, at' \in Nat \ {0}, BlocksKept, NetInv(net'), Keeps(net, net'),
             UNCHANGED <<cur, tracks, entries>>
      PROVE  Quiet
  BY <1>2 DEF Quiet
<1>3. ASSUME NEW name, SetOutput(name) PROVE Quiet
  <2>1. cur # None /\ text' = text /\ at' \in Nat \ {0} /\ UNCHANGED <<cur, tracks, entries>>
    BY <1>3, ReadsOn DEF SetOutput, InBlock
  <2>2. CASE UNCHANGED <<blocks, net>>
    BY <1>1, <1>2, <2>1, <2>2, NetSettled, Settled
  <2>3. CASE /\ net' = WithStream(net, name, OutputFormat, cur)
             /\ blocks' = [blocks EXCEPT ![cur].out = Len(net.stream) + 1]
    <3>1. PICK f, o : f = "out" /\ o = Len(net.stream) + 1
      OBVIOUS
    <3>2. blocks' = [blocks EXCEPT ![cur][f] = o]
      BY <2>3, <3>1
    <3>3. BlocksKept
      <4>1. Len(net.stream) \in Nat
        BY <1>1, NetLengths
      <4>2. o # None /\ f # "kind"
        BY <3>1, <4>1 DEF None
      <4>3. QED BY <1>1, <2>1, <3>2, <4>2, OneField
    <3>4. PICK g : g = OutputFormat
      OBVIOUS
    <3>5. net' = WithStream(net, name, g, cur)
      BY <2>3, <3>4
    <3>6. NetInv(net') /\ Keeps(net, net')
      BY <1>1, <3>5, WithStreamKeeps
    <3>7. QED BY <1>2, <2>1, <3>3, <3>6
  <2>4. QED BY <1>3, <2>2, <2>3 DEF SetOutput
<1>4. ASSUME NEW name, SetInput(name) PROVE Quiet
  <2>1. /\ text' = text /\ at' \in Nat \ {0} /\ BlocksKept
        /\ UNCHANGED <<cur, tracks, entries>>
    BY <1>1, <1>4, ReadsOn, Settled DEF SetInput
  <2>2. CASE CanConnect(net, name, Mod.accepts)
    <3>1. PICK a : a = Mod.accepts
      OBVIOUS
    <3>2. PICK n : /\ n = Connect(net, name, a, cur)
                   /\ NetInv(n) /\ Keeps(net, n)
      BY <1>1, <2>2, <3>1, ConnectKeeps
    <3>3. net' = [n EXCEPT !.input[cur] = Len(n.dest)]
      BY <1>4, <2>2, <3>1, <3>2 DEF SetInput
    <3>4. PICK i : i = [n.input EXCEPT ![cur] = Len(n.dest)]
      OBVIOUS
    <3>5. net' = [n EXCEPT !.input = i]
      BY <3>3, <3>4
    <3>6. NetInv(net') /\ Keeps(n, net')
      BY <3>2, <3>5, InputKeeps
    <3>7. Keeps(net, net')
      BY <1>1, <3>2, <3>6, KeepsOn
    <3>8. QED BY <1>2, <2>1, <3>6, <3>7
  <2>3. CASE ~ CanConnect(net, name, Mod.accepts)
    <3>1. PICK i : i = [net.input EXCEPT ![cur] = None]
      OBVIOUS
    <3>2. net' = [net EXCEPT !.input = i]
      BY <1>4, <2>3, <3>1 DEF SetInput
    <3>3. NetInv(net') /\ Keeps(net, net')
      BY <1>1, <3>2, InputKeeps
    <3>4. QED BY <1>2, <2>1, <3>3
  <2>4. QED BY <2>2, <2>3
<1>5. ASSUME NEW name, SourceTrack(name) PROVE Quiet
  <2>1. /\ text' = text /\ at' \in Nat \ {0} /\ BlocksKept
        /\ UNCHANGED <<cur, tracks, entries>>
    BY <1>1, <1>5, ReadsOn, Settled DEF SourceTrack
  <2>2. PICK f : f = "pcm"
    OBVIOUS
  <2>3. net' = net \/ net' = WithStream(net, name, f, cur)
    BY <1>5, <2>2 DEF SourceTrack
  <2>4. NetInv(net') /\ Keeps(net, net')
    BY <1>1, <2>3, WithStreamKeeps, NetSettled
  <2>5. QED BY <1>2, <2>1, <2>4
<1>6. ASSUME NEW i \in 1 .. LIVE_MAX_TRACKS, NEW w \in BOOLEAN, Listen(i, w) PROVE Quiet
  <2>1. PICK d : d = tracks[i].dest
    OBVIOUS
  <2>2. net' = SetWaiting(net, d, w)
    BY <1>6, <2>1 DEF Listen
  <2>3. NetInv(net') /\ Keeps(net, net')
    BY <1>1, <2>2, SetWaitingKeeps
  <2>4. text' = text /\ at' = at /\ BlocksKept /\ UNCHANGED <<cur, tracks, entries>>
    BY <1>1, <1>6, Settled DEF Listen
  <2>5. at \in Nat \ {0}
    BY DEF ConfInv
  <2>6. QED BY <1>2, <2>3, <2>4, <2>5
<1>7. QED BY <1>3, <1>4, <1>5, <1>6

-----------------------------------------------------------------------------
(* Blocks are opened and closed                                            *)

LEMMA EmptyEntry ==
  ASSUME TrackTypes, NEW e \in 1 .. Len(entries)
  PROVE  entries[e] \in Seq(1 .. LIVE_MAX_TRACKS) /\ Len(entries) \in Nat
BY DEF TrackTypes

LEMMA TracksKept ==
  ASSUME ConfInv, NetInv(net'), Keeps(net, net'), UNCHANGED tracks
  PROVE  TracksInv'
<1>1. ASSUME NEW i \in 1 .. LIVE_MAX_TRACKS
      PROVE  IF tracks[i].dest = None THEN tracks[i].known = <<>> /\ tracks[i].name = ""
             ELSE Fed(net', tracks[i].dest)
  BY FedOn DEF ConfInv, TracksInv
<1>2. QED BY <1>1 DEF TracksInv

LEMMA OpenKeeps ==
  ASSUME ConfInv, NEW kind, OpenBlock(kind)
  PROVE  ConfInv'
<1>1. cur = None /\ text' = text /\ at' \in Nat \ {0}
  BY ReadsOn DEF OpenBlock
<1>2. CASE UNCHANGED Unread
  <2>1. Quiet
    BY <1>1, <1>2, QuietSettled DEF Unread
  <2>2. QED BY <2>1, QuietKeeps
<1>3. CASE ~ UNCHANGED Unread
  <2>1. PICK u : u = Cardinality({b \in 1 .. Len(blocks) : blocks[b].kind = kind})
    OBVIOUS
  <2>2. PICK r : r = -1
    OBVIOUS
  <2>3. PICK b : b = [kind |-> kind, given |-> {}, format |-> "uyvy", rate |-> r, out |-> None,
                      channel |-> u + 1, ring |-> "none"]
    OBVIOUS
  <2>4. /\ blocks' = Append(blocks, b) /\ cur' = Len(blocks) + 1
        /\ net' = [net EXCEPT !.input = Append(@, IF Module[kind].wild THEN Wild ELSE None)]
        /\ entries' = IF kind = "live" THEN Append(entries, <<>>) ELSE entries
        /\ UNCHANGED tracks
    BY <1>3, <2>1, <2>2, <2>3 DEF OpenBlock
  <2>5. b.kind = kind /\ IsBlock(b)
    <3>1. PICK g, f, o, c, p : /\ g = {} /\ f = "uyvy" /\ o = None /\ c = u + 1 /\ p = "none"
      OBVIOUS
    <3>2. b = [kind |-> kind, given |-> g, format |-> f, rate |-> r, out |-> o,
               channel |-> c, ring |-> p]
      BY ONLY <2>3, <3>1
    <3>3. QED BY ONLY <3>2 DEF IsBlock
  <2>6. IsSeq(blocks) /\ Len(blocks) \in Nat /\ \A i \in 1 .. Len(blocks) : IsBlock(blocks[i])
    BY LenIs DEF ConfInv, BlockInv
  <2>7. /\ IsSeq(blocks') /\ Len(blocks') = Len(blocks) + 1
        /\ blocks'[Len(blocks) + 1] = b
        /\ \A i \in 1 .. Len(blocks) : blocks'[i] = blocks[i]
    BY ONLY <2>4, <2>6, AppendIs
  <2>8. BlockInv'
    BY ONLY <2>4, <2>5, <2>6, <2>7 DEF BlockInv
  <2>9. InLive' <=> kind = "live"
    BY <2>4, <2>5, <2>6, <2>7 DEF InLive, None
  <2>10. ~ InLive
    BY <1>1 DEF InLive
  <2>11. PICK inputs : inputs = Append(net.input, IF Module[kind].wild THEN Wild ELSE None)
    OBVIOUS
  <2>12. net' = [net EXCEPT !.input = inputs]
    BY <2>4, <2>11
  <2>13. NetInv(net') /\ Keeps(net, net')
    BY <2>12, InputKeeps DEF ConfInv
  <2>14. TracksInv'
    BY <2>4, <2>13, TracksKept
  <2>15. PICK n \in Nat : n = Len(entries)
    BY DEF ConfInv, TrackTypes
  <2>16. CASE kind # "live"
    <3>1. TrackTypes' /\ EntriesInv'
      BY <2>4, <2>9, <2>10, <2>16 DEF ConfInv, TrackTypes, TrackNames, EntriesInv
    <3>2. QED BY <1>1, <2>8, <2>13, <2>14, <3>1 DEF ConfInv
  <2>17. CASE kind = "live"
    <3>1. PICK T : T = Seq(1 .. LIVE_MAX_TRACKS)
      OBVIOUS
    <3>2. PICK none \in T : none = <<>>
      <4>1. << >> \in Seq(1 .. LIVE_MAX_TRACKS)
        OBVIOUS
      <4>2. QED BY ONLY <3>1, <4>1
    <3>3. entries \in Seq(T) /\ entries' = Append(entries, none)
      BY <2>4, <2>17, <3>1, <3>2 DEF ConfInv, TrackTypes
    <3>4. /\ entries' \in Seq(T) /\ Len(entries') = n + 1 /\ entries'[n + 1] = none
          /\ \A e \in 1 .. n : entries'[e] = entries[e]
      BY ONLY <2>15, <3>3, none \in T, AppendProperties
    <3>5. PICK K : K = Seq(1 .. n + 1)
      OBVIOUS
    <3>6. Seq(1 .. n) \subseteq K
      BY <3>5
    <3>7. tracks \in [1 .. LIVE_MAX_TRACKS -> [name : TrackNames, dest : Nat, known : K]]
      BY <2>15, <3>6 DEF ConfInv, TrackTypes
    <3>8. TrackTypes'
      BY <2>4, <3>1, <3>4, <3>5, <3>7 DEF TrackTypes, TrackNames
    <3>9. \A e \in 1 .. n : entries[e] # <<>>
      BY <2>10, <2>15 DEF ConfInv, EntriesInv
    <3>10. ASSUME NEW i \in 1 .. LIVE_MAX_TRACKS
           PROVE  Occurrences(n + 1, tracks[i].known) = Occurrences(i, none)
      <4>1. tracks[i].known \in Seq(1 .. n)
        BY <2>15 DEF ConfInv, TrackTypes
      <4>2. IsSeq(tracks[i].known) /\ IsSeq(none)
        BY <3>1, <3>2, <4>1, SeqIs
      <4>3. \A e \in 1 .. Len(tracks[i].known) : tracks[i].known[e] # n + 1
        BY ONLY <4>1, n \in Nat
      <4>4. \A e \in 1 .. Len(none) : none[e] # i
        BY <3>2
      <4>5. QED BY ONLY <4>2, <4>3, <4>4, NoOccurrence
    <3>11. ASSUME NEW e \in 1 .. n, NEW i \in 1 .. LIVE_MAX_TRACKS
           PROVE  Occurrences(e, tracks[i].known) = Occurrences(i, entries[e])
      BY <2>15 DEF ConfInv, EntriesInv
    <3>12. entries' # <<>>
      BY <3>4
    <3>13. tracks' = tracks
      BY <2>4
    <3>14. InLive'
      BY <2>9, <2>17
    <3>15. ASSUME NEW e \in 1 .. Len(entries')
           PROVE  /\ entries'[e] = <<>> => e = Len(entries')
                  /\ \A i \in 1 .. LIVE_MAX_TRACKS :
                       Occurrences(e, tracks'[i].known) = Occurrences(i, entries'[e])
      <4>1. e \in 1 .. n \/ e = n + 1
        BY <3>4
      <4>2. CASE e \in 1 .. n
        BY <3>4, <3>9, <3>11, <3>13, <4>2
      <4>3. CASE e = n + 1
        BY <3>4, <3>10, <3>13, <4>3
      <4>4. QED BY <4>1, <4>2, <4>3
    <3>16. EntriesInv'
      BY <3>12, <3>14, <3>15 DEF EntriesInv
    <3>17. QED BY <1>1, <2>8, <2>13, <2>14, <3>8, <3>16 DEF ConfInv
  <2>18. QED BY <2>16, <2>17
<1>4. QED BY <1>2, <1>3

LEMMA DoneKeeps ==
  ASSUME ConfInv, cur # None, Done
  PROVE  BlocksKept /\ NetInv(net') /\ Keeps(net, net') /\ cur' = None
<1>1. BlockInv /\ NetInv(net)
  BY DEF ConfInv
<1>2. cur' = None
  BY DEF Done
<1>3. CASE FramesFor(cur) > 0
  <2>1. PICK f : f = "ring"
    OBVIOUS
  <2>2. PICK r : blocks' = [blocks EXCEPT ![cur][f] = r] /\ UNCHANGED net
    BY <1>3, <2>1 DEF Done
  <2>3. BlocksKept
    BY ONLY <1>1, <2>1, <2>2, cur # None, OneField
  <2>4. QED BY <1>2, <2>2, <2>3, NetSettled
<1>4. CASE ~ (FramesFor(cur) > 0) /\ Blk.kind = "http"
  <2>1. PICK d, w : d = net.input[cur] /\ w = TRUE
    OBVIOUS
  <2>2. net' = SetWaiting(net, d, w) /\ UNCHANGED blocks
    BY <1>4, <2>1 DEF Done
  <2>3. QED BY <1>1, <1>2, <2>2, SetWaitingKeeps, Settled
<1>5. CASE ~ (FramesFor(cur) > 0) /\ Blk.kind # "http"
  <2>1. UNCHANGED <<blocks, net>>
    BY <1>5 DEF Done
  <2>2. QED BY <1>1, <1>2, <2>1, NetSettled, Settled
<1>6. QED BY <1>3, <1>4, <1>5

\* A block that ends well leaves no entry without a track.
LEMMA CloseKeeps ==
  ASSUME ConfInv, CloseBlock
  PROVE  ConfInv'
<1>1. cur # None /\ text' = text /\ at' \in Nat \ {0} /\ UNCHANGED <<tracks, entries>>
  BY ReadsOn DEF CloseBlock
<1>2. CASE UNCHANGED <<blocks, cur, net>>
  <2>1. Quiet
    BY <1>1, <1>2, QuietSettled
  <2>2. QED BY <2>1, QuietKeeps
<1>3. CASE ~ UNCHANGED <<blocks, cur, net>>
  <2>1. Done /\ ~ NoMediaSource
    BY <1>3 DEF CloseBlock
  <2>2. BlocksKept /\ NetInv(net') /\ Keeps(net, net') /\ cur' = None
    BY <1>1, <2>1, DoneKeeps
  <2>3. Len(blocks) \in Nat
    BY LenIs DEF ConfInv, BlockInv
  <2>4. BlockInv' /\ ~ InLive'
    BY <2>2, <2>3 DEF BlockInv, BlocksKept, InLive, None
  <2>5. TracksInv'
    BY <1>1, <2>2, TracksKept
  <2>6. TrackTypes'
    BY <1>1 DEF ConfInv, TrackTypes, TrackNames
  <2>7. ASSUME NEW e \in 1 .. Len(entries) PROVE entries[e] # <<>>
    BY <2>1 DEF ConfInv, EntriesInv, InLive, NoMediaSource, Entry, Blk
  <2>8. EntriesInv'
    BY <1>1, <2>4, <2>7 DEF ConfInv, EntriesInv
  <2>9. QED BY <1>1, <2>2, <2>4, <2>5, <2>6, <2>8 DEF ConfInv
<1>4. QED BY <1>2, <1>3

-----------------------------------------------------------------------------
(* A track of the live source                                              *)

\* The entry of the block that is being read is given the track i, and the track the
\* entry.
LEMMA ListsGrow ==
  ASSUME ConfInv, InLive, NEW i \in 1 .. LIVE_MAX_TRACKS,
         entries' = Put(entries, Entry, Append(entries[Entry], i)),
         NEW known, known = [j \in 1 .. LIVE_MAX_TRACKS |-> known[j]],
         known[i] = Append(tracks[i].known, Entry),
         \A j \in 1 .. LIVE_MAX_TRACKS : j # i => known[j] = tracks[j].known
  PROVE  /\ entries' \in Seq(Seq(1 .. LIVE_MAX_TRACKS)) /\ Len(entries') = Len(entries)
         /\ \A j \in 1 .. LIVE_MAX_TRACKS : known[j] \in Seq(1 .. Len(entries))
         /\ \A e \in 1 .. Len(entries) :
              /\ entries'[e] = <<>> => entries[e] = <<>>
              /\ \A j \in 1 .. LIVE_MAX_TRACKS :
                   Occurrences(e, known[j]) = Occurrences(j, entries'[e])
<1>1. PICK n \in Nat : n = Len(entries)
  BY ONLY ConfInv DEF ConfInv, TrackTypes
<1>2. n # 0
  BY <1>1 DEF ConfInv, EntriesInv, TrackTypes
<1>3. Entry = n /\ n \in 1 .. n
  BY <1>1, <1>2 DEF Entry
<1>4. PICK T : T = Seq(1 .. LIVE_MAX_TRACKS)
  OBVIOUS
<1>5. entries \in Seq(T) /\ entries[n] \in T
  BY <1>1, <1>3, <1>4 DEF ConfInv, TrackTypes
<1>6. PICK l : l = Append(entries[n], i)
  OBVIOUS
<1>7. l \in T
  BY <1>4, <1>5, <1>6
<1>8. entries' = [entries EXCEPT ![n] = l]
  BY <1>3, <1>6 DEF Put
<1>9. /\ entries' \in Seq(T) /\ Len(entries') = n /\ entries'[n] = l
      /\ \A e \in 1 .. n : e # n => entries'[e] = entries[e]
  BY ONLY <1>1, <1>3, <1>5, <1>7, <1>8
<1>10. l # <<>>
  <2>1. entries[n] \in Seq(1 .. LIVE_MAX_TRACKS)
    BY ONLY <1>4, <1>5
  <2>2. Len(l) = Len(entries[n]) + 1 /\ Len(entries[n]) \in Nat
    BY ONLY <1>6, <2>1, AppendProperties, i \in 1 .. LIVE_MAX_TRACKS
  <2>3. QED BY ONLY <2>2
<1>11. ASSUME NEW j \in 1 .. LIVE_MAX_TRACKS
       PROVE  tracks[j].known \in Seq(1 .. n) /\ known[j] \in Seq(1 .. n)
  <2>1. tracks[j].known \in Seq(1 .. n)
    BY <1>1 DEF ConfInv, TrackTypes
  <2>2. Append(tracks[j].known, n) \in Seq(1 .. n)
    BY ONLY <2>1, <1>3
  <2>3. QED BY <1>3, <2>1, <2>2
<1>12. ASSUME NEW e \in 1 .. n, NEW j \in 1 .. LIVE_MAX_TRACKS
       PROVE  Occurrences(e, known[j]) = Occurrences(j, entries'[e])
  <2>1. Occurrences(e, tracks[j].known) = Occurrences(j, entries[e])
    BY <1>1 DEF ConfInv, EntriesInv
  <2>2. IsSeq(tracks[j].known) /\ IsSeq(entries[n])
    BY <1>4, <1>5, <1>11, SeqIs
  <2>3. Occurrences(j, l) = Occurrences(j, entries[n]) + IF i = j THEN 1 ELSE 0
    BY ONLY <1>6, <2>2, OneOccurrence
  <2>4. Occurrences(e, Append(tracks[j].known, n))
          = Occurrences(e, tracks[j].known) + IF n = e THEN 1 ELSE 0
    BY ONLY <2>2, OneOccurrence
  <2>5. Occurrences(e, tracks[j].known) \in Nat /\ Occurrences(j, entries[n]) \in Nat
    BY ONLY <2>2, NoOccurrence
  <2>6. known[j] = IF j = i THEN Append(tracks[j].known, n) ELSE tracks[j].known
    BY <1>3
  <2>7. entries'[e] = IF e = n THEN l ELSE entries[e]
    BY ONLY <1>9, e \in 1 .. n
  <2>8. CASE j = i
    BY ONLY <2>1, <2>3, <2>4, <2>5, <2>6, <2>7, <2>8
  <2>9. CASE j # i
    BY ONLY <2>1, <2>3, <2>5, <2>6, <2>7, <2>9
  <2>10. QED BY <2>8, <2>9
<1>13. ASSUME NEW e \in 1 .. n, entries'[e] = <<>> PROVE entries[e] = <<>>
  BY <1>9, <1>10, <1>13
<1>14. QED BY <1>1, <1>4, <1>9, <1>11, <1>12, <1>13

LEMMA TrackHasName ==
  ASSUME ConfInv, NEW name \in Values(Names, "Track"), Track(name)
  PROVE  name # ""
<1>1. CASE text = Free
  BY <1>1, NamesAssumption DEF Values
<1>2. CASE text # Free
  <2>1. at <= Len(text) /\ text[at] = <<"Track", name>>
    BY <1>2 DEF Track, Reads
  <2>2. text \in Texts /\ at \in Nat \ {0}
    BY DEF ConfInv
  <2>3. Len(text) \in Nat /\ \A i \in 1 .. Len(text) : text[i] # <<"Track", "">>
    <3>1. \A t \in Texts : t = Free \/ /\ Len(t) \in Nat
                                       /\ \A i \in 1 .. Len(t) : t[i] # <<"Track", "">>
      BY ONLY NamesAssumption
    <3>2. text \in Texts /\ text # Free
      BY <1>2, <2>2
    <3>3. PICK t : t = text
      OBVIOUS
    <3>4. t \in Texts /\ t # Free
      BY ONLY <3>2, <3>3
    <3>5. Len(t) \in Nat /\ \A i \in 1 .. Len(t) : t[i] # <<"Track", "">>
      BY ONLY <3>1, <3>4, Zenon
    <3>6. QED BY ONLY <3>3, <3>5, Zenon
  <2>4. at \in 1 .. Len(text)
    <3>1. Len(text) \in Nat /\ at <= Len(text) /\ at \in Nat \ {0}
      BY <2>1, <2>2, <2>3
    <3>2. QED BY ONLY <3>1
  <2>5. text[at] # <<"Track", "">>
    BY <2>3, <2>4
  <2>6. QED BY ONLY <2>1, <2>5
<1>3. QED BY <1>1, <1>2

\* One more of the entry's tracks, in use before or from now on.
LEMMA GrownKeeps ==
  ASSUME ConfInv, InLive, text' = text, at' \in Nat \ {0}, UNCHANGED <<blocks, cur>>,
         NetInv(net'), Keeps(net, net'), NEW i \in 1 .. LIVE_MAX_TRACKS,
         entries' = [entries EXCEPT ![Entry] = Append(@, i)],
         NEW name, NEW d \in Nat, d # None, Fed(net', d),
         tracks' = [tracks EXCEPT ![i] = [name |-> name, dest |-> d,
                                          known |-> Append(tracks[i].known, Entry)]]
  PROVE  ConfInv'
<1>1. PICK N : N = TrackNames \cup {name}
  OBVIOUS
<1>2. PICK K : K = Seq(1 .. Len(entries))
  OBVIOUS
<1>3. PICK R : R = [name : N, dest : Nat, known : K]
  OBVIOUS
<1>4. tracks \in [1 .. LIVE_MAX_TRACKS -> R]
  <2>1. [name : TrackNames, dest : Nat, known : K] \subseteq R
    BY <1>1, <1>3
  <2>2. tracks \in [1 .. LIVE_MAX_TRACKS -> [name : TrackNames, dest : Nat, known : K]]
    BY <1>2 DEF ConfInv, TrackTypes
  <2>3. QED BY <2>1, <2>2
<1>5. PICK l : l = Append(tracks[i].known, Entry)
  OBVIOUS
<1>6. PICK x : x = [name |-> name, dest |-> d, known |-> l]
  OBVIOUS
<1>7. tracks' = [tracks EXCEPT ![i] = x]
  BY <1>5, <1>6
<1>8. tracks'[i] = x /\ \A j \in 1 .. LIVE_MAX_TRACKS : j # i => tracks'[j] = tracks[j]
  BY <1>4, <1>7
<1>9. x.name = name /\ x.dest = d /\ x.known = l
  BY <1>6
<1>10. PICK known : known = [j \in 1 .. LIVE_MAX_TRACKS |-> tracks'[j].known]
  OBVIOUS
<1>11. /\ known = [j \in 1 .. LIVE_MAX_TRACKS |-> known[j]]
       /\ known[i] = Append(tracks[i].known, Entry)
       /\ \A j \in 1 .. LIVE_MAX_TRACKS : j # i => known[j] = tracks[j].known
  BY <1>5, <1>8, <1>9, <1>10
<1>12. /\ entries' \in Seq(Seq(1 .. LIVE_MAX_TRACKS)) /\ Len(entries') = Len(entries)
       /\ \A j \in 1 .. LIVE_MAX_TRACKS : known[j] \in Seq(1 .. Len(entries))
       /\ \A e \in 1 .. Len(entries) :
            /\ entries'[e] = <<>> => entries[e] = <<>>
            /\ \A j \in 1 .. LIVE_MAX_TRACKS :
                 Occurrences(e, known[j]) = Occurrences(j, entries'[e])
  <2>1. entries' = Put(entries, Entry, Append(entries[Entry], i))
    BY DEF Put
  <2>2. QED BY ONLY ZenonT(30), <1>11, <2>1, ConfInv, InLive, i \in 1 .. LIVE_MAX_TRACKS, ListsGrow
<1>13. \A j \in 1 .. LIVE_MAX_TRACKS : known[j] = tracks'[j].known
  BY <1>10
<1>14. l \in K
  BY <1>2, <1>5, <1>11, <1>12
<1>15. x \in R
  BY <1>1, <1>3, <1>6, <1>14
<1>16. tracks' \in [1 .. LIVE_MAX_TRACKS -> R]
  BY ONLY <1>4, <1>7, <1>15
<1>17. PICK M : M = {tracks'[j].name : j \in 1 .. LIVE_MAX_TRACKS}
  OBVIOUS
<1>18. tracks' \in [1 .. LIVE_MAX_TRACKS -> [name : M, dest : Nat, known : K]]
  BY ONLY <1>3, <1>16, <1>17
<1>19. TrackTypes'
  BY <1>2, <1>12, <1>17, <1>18 DEF TrackTypes, TrackNames
<1>20. TracksInv'
  <2>1. ASSUME NEW j \in 1 .. LIVE_MAX_TRACKS
        PROVE  IF tracks'[j].dest = None THEN tracks'[j].known = <<>> /\ tracks'[j].name = ""
               ELSE Fed(net', tracks'[j].dest)
    <3>1. CASE j = i
      BY <1>8, <1>9, <3>1
    <3>2. CASE j # i
      BY <1>8, <3>2, FedOn DEF ConfInv, TracksInv
    <3>3. QED BY <3>1, <3>2
  <2>2. QED BY <2>1 DEF TracksInv
<1>21. BlockInv' /\ InLive'
  BY DEF ConfInv, BlockInv, InLive
<1>22. entries' # <<>>
  <2>1. entries \in Seq(Seq(1 .. LIVE_MAX_TRACKS)) /\ entries # <<>>
    BY DEF ConfInv, EntriesInv, TrackTypes
  <2>2. Len(entries) # 0
    BY ONLY <2>1
  <2>3. QED BY <1>12, <2>2
<1>23. ASSUME NEW e \in 1 .. Len(entries')
       PROVE  /\ entries'[e] = <<>> => e = Len(entries')
              /\ \A j \in 1 .. LIVE_MAX_TRACKS :
                   Occurrences(e, tracks'[j].known) = Occurrences(j, entries'[e])
  BY <1>12, <1>13 DEF ConfInv, EntriesInv
<1>24. EntriesInv'
  BY <1>21, <1>22, <1>23 DEF EntriesInv
<1>25. QED BY <1>19, <1>20, <1>21, <1>24 DEF ConfInv

LEMMA TrackKeeps ==
  ASSUME ConfInv, NEW name \in Values(Names, "Track"), Track(name)
  PROVE  ConfInv'
<1>1. name # ""
  BY TrackHasName
<1>2. InLive /\ text' = text /\ at' \in Nat \ {0} /\ UNCHANGED <<blocks, cur>>
  BY ReadsOn DEF Track, InBlock, InLive
<1>3. NetInv(net) /\ TracksInv
  BY DEF ConfInv
<1>4. CASE UNCHANGED <<net, tracks, entries>>
  <2>1. Quiet
    BY <1>2, <1>4, QuietSettled
  <2>2. QED BY <2>1, QuietKeeps
<1>5. ASSUME NEW i \in 1 .. LIVE_MAX_TRACKS, tracks[i].name = name, JoinTrack(i),
             UNCHANGED net, ~ UNCHANGED <<tracks, entries>>
      PROVE  ConfInv'
  <2>1. /\ entries' = [entries EXCEPT ![Entry] = Append(@, i)]
        /\ tracks' = [tracks EXCEPT ![i].known = Append(@, Entry)]
    BY <1>5 DEF JoinTrack
  <2>2. tracks[i].dest # None /\ Fed(net, tracks[i].dest)
    BY <1>1, <1>3, <1>5 DEF TracksInv
  <2>3. PICK d \in Nat : d = tracks[i].dest
    BY DEF ConfInv, TrackTypes
  <2>4. PICK l : l = Append(tracks[i].known, Entry)
    OBVIOUS
  <2>5. tracks[i] = [name |-> tracks[i].name, dest |-> tracks[i].dest, known |-> tracks[i].known]
    BY DEF ConfInv, TrackTypes
  <2>6. [tracks[i] EXCEPT !.known = l] = [name |-> name, dest |-> d, known |-> l]
    BY ONLY <2>3, <2>5, tracks[i].name = name, <1>5
  <2>7. tracks' = [tracks EXCEPT ![i] = [name |-> name, dest |-> d, known |-> l]]
    BY <2>1, <2>4, <2>6
  <2>8. NetInv(net') /\ Keeps(net, net')
    BY <1>5, NetSettled
  <2>9. Fed(net', d) /\ d # None
    BY <1>5, <2>2, <2>3
  <2>10. QED BY <1>2, <2>1, <2>4, <2>7, <2>8, <2>9, GrownKeeps
<1>6. ASSUME NewTrack(name), ~ UNCHANGED <<net, tracks, entries>> PROVE ConfInv'
  <2>1. PICK a : a = LiveModule.accepts
    OBVIOUS
  <2>2. FreeTracks # {} /\ CanConnect(net, name, a)
    BY <1>6, <2>1 DEF NewTrack
  <2>3. PICK n : /\ n = Connect(net, name, a, cur)
                 /\ NetInv(n) /\ Keeps(net, n) /\ Len(n.dest) \in 1 .. Len(n.dest)
                 /\ n.stream[n.dest[Len(n.dest)].stream].format \in a
    BY <1>3, <2>2, ConnectKeeps
  <2>4. PICK d \in Nat : d = Len(n.dest)
    BY <2>3, NetLengths
  <2>5. d # None /\ Fed(n, d)
    BY <2>1, <2>3, <2>4 DEF Fed, None
  <2>6. PICK i : i = Least(FreeTracks)
    OBVIOUS
  <2>7. i \in FreeTracks
    <3>1. FreeTracks \in SUBSET Nat
      BY DEF FreeTracks, LIVE_MAX_TRACKS
    <3>2. QED BY ONLY <2>2, <2>6, <3>1, LeastIs
  <2>8. i \in 1 .. LIVE_MAX_TRACKS /\ tracks[i].known = <<>>
    BY <1>3, <2>7 DEF FreeTracks, TracksInv
  <2>9. /\ net' = SetWaiting(n, d, TRUE)
        /\ tracks' = [tracks EXCEPT ![i] = [name |-> name, dest |-> d, known |-> <<Entry>>]]
        /\ entries' = [entries EXCEPT ![Entry] = Append(@, i)]
    BY <1>6, <2>1, <2>2, <2>3, <2>4, <2>6 DEF NewTrack
  <2>10. PICK w : w = TRUE
    OBVIOUS
  <2>11. net' = SetWaiting(n, d, w)
    BY <2>9, <2>10
  <2>12. NetInv(net') /\ Keeps(n, net')
    BY <2>3, <2>11, SetWaitingKeeps
  <2>13. Keeps(net, net') /\ Fed(net', d)
    BY <1>3, <2>3, <2>5, <2>12, KeepsOn, FedOn
  <2>14. <<Entry>> = Append(tracks[i].known, Entry)
    BY <2>8
  <2>15. tracks' = [tracks EXCEPT ![i] = [name |-> name, dest |-> d,
                                          known |-> Append(tracks[i].known, Entry)]]
    BY <2>9, <2>14
  <2>16. QED BY <1>2, <2>5, <2>8, <2>9, <2>12, <2>13, <2>15, GrownKeeps
<1>7. QED BY <1>4, <1>5, <1>6 DEF Track

-----------------------------------------------------------------------------
(* The theorems                                                            *)

LEMMA ConfInit == Init => ConfInv
<1> SUFFICES ASSUME Init PROVE ConfInv
  OBVIOUS
<1>1. text \in Texts /\ at \in Nat \ {0}
  <2>1. text \in Texts /\ at = 1
    BY Zenon DEF Init
  <2>2. QED BY ONLY <2>1
<1>2. PICK none : none = << >>
  OBVIOUS
<1>3. blocks = none /\ entries = none /\ cur = None
  BY <1>2 DEF Init
<1>4. \A T : none \in Seq(T)
  BY <1>2
<1>5. IsSeq(none) /\ Len(none) = 0
  BY <1>2, <1>4, SeqIs
<1>6. PICK run : run = {}
  OBVIOUS
<1>7. net = [stream |-> none, order |-> none, dest |-> none, input |-> none, running |-> run]
  BY <1>2, <1>6 DEF Init
<1>8. IsNet(net) /\ net.stream = none /\ net.order = none /\ net.dest = none
  BY ONLY <1>7 DEF IsNet
<1>9. NetInv(net)
  BY ONLY <1>4, <1>5, <1>8 DEF NetInv
<1>10. BlockInv /\ ~ InLive
  BY <1>3, <1>5 DEF BlockInv, InLive, None
<1>11. PICK x : x = [name |-> "", dest |-> None, known |-> none]
  OBVIOUS
<1>12. \A i \in 1 .. LIVE_MAX_TRACKS : tracks[i] = x
  BY <1>2, <1>11 DEF Init
<1>13. x.name = "" /\ x.dest = None /\ x.known = none
  BY <1>11
<1>14. x \in [name : TrackNames, dest : Nat, known : Seq(1 .. Len(entries))]
  <2>1. 1 \in 1 .. LIVE_MAX_TRACKS
    BY DEF LIVE_MAX_TRACKS
  <2>2. x.name \in TrackNames
    BY <1>12, <2>1 DEF TrackNames
  <2>3. None \in Nat
    BY DEF None
  <2>4. QED BY <1>4, <1>11, <1>13, <2>2, <2>3
<1>15. tracks = [i \in 1 .. LIVE_MAX_TRACKS |-> x]
  BY <1>2, <1>11 DEF Init
<1>16. TrackTypes
  BY ONLY <1>3, <1>4, <1>14, <1>15 DEF TrackTypes
<1>17. TracksInv
  BY <1>2, <1>12, <1>13 DEF TracksInv
<1>18. EntriesInv
  BY <1>3, <1>5, <1>10 DEF EntriesInv
<1>19. QED BY <1>1, <1>9, <1>10, <1>16, <1>17, <1>18 DEF ConfInv

LEMMA ConfStep == ConfInv /\ [Next]_vars => ConfInv'
<1> SUFFICES ASSUME ConfInv, [Next]_vars PROVE ConfInv'
  OBVIOUS
<1>1. CASE UNCHANGED vars
  <2>1. Quiet
    BY <1>1, QuietSettled DEF vars, ConfInv
  <2>2. QED BY <2>1, QuietKeeps
<1>2. ASSUME \/ \E n : FrameHeap(n)
             \/ Port \/ RtpRange \/ Malformed \/ EndOfText \/ Deinit
      PROVE  ConfInv'
  BY <1>2, QuietGlobal, QuietKeeps
<1>3. ASSUME \/ \E d : SetValue(d)
             \/ \E r : SetRate(r)
             \/ \E f : SetFormat(f)
             \/ SetPath
      PROVE  ConfInv'
  BY <1>3, QuietSetting, QuietKeeps
<1>4. ASSUME \/ \E m : SetOutput(m) \/ SetInput(m) \/ SourceTrack(m)
             \/ \E i \in 1 .. LIVE_MAX_TRACKS, w \in BOOLEAN : Listen(i, w)
      PROVE  ConfInv'
  BY <1>4, QuietGraph, QuietKeeps
<1>5. ASSUME NEW k, OpenBlock(k) PROVE ConfInv'
  BY <1>5, OpenKeeps
<1>6. ASSUME CloseBlock PROVE ConfInv'
  BY <1>6, CloseKeeps
<1>7. ASSUME NEW m \in Values(Names, "Track"), Track(m) PROVE ConfInv'
  BY <1>7, TrackKeeps
<1>8. QED BY <1>1, <1>2, <1>3, <1>4, <1>5, <1>6, <1>7 DEF Next

\* However long a text is, and whatever it names: stream_list and the destinations name
\* streams there are, a track of the program is in use exactly as long as entries list it,
\* and the entries and the tracks count each other alike.
THEOREM ConfInvHolds == Spec => []ConfInv
<1>1. Init => ConfInv
  BY ConfInit
<1>2. ConfInv /\ [Next]_vars => ConfInv'
  BY ConfStep
<1>3. QED BY <1>1, <1>2, PTL DEF Spec

\* Once a text is accepted every closed live block has a track, and each of its tracks is
\* fed by a stream of a format RTP can carry and lists the entry as often as the entry
\* lists the track: set_track leaves nothing half done, whether it joins a track, takes a
\* free one, or finds neither.
THEOREM AcceptedTextsAreServed == Spec => []EntriesServed
<1>1. ConfInv => EntriesServed
  <2>1. HAVE ConfInv
  <2>2. ASSUME NEW e \in 1 .. Len(entries), cur = None PROVE entries[e] # <<>>
    BY <2>1, <2>2 DEF ConfInv, EntriesInv, InLive
  <2>3. ASSUME NEW e \in 1 .. Len(entries), NEW i \in 1 .. LIVE_MAX_TRACKS
        PROVE  /\ Occurrences(e, tracks[i].known) = Occurrences(i, entries[e])
               /\ Occurrences(i, entries[e]) > 0 =>
                    net.stream[net.dest[tracks[i].dest].stream].format \in LiveModule.accepts
    <3>1. Occurrences(e, tracks[i].known) = Occurrences(i, entries[e])
      BY <2>1 DEF ConfInv, EntriesInv
    <3>2. IsSeq(tracks[i].known)
      BY <2>1, SeqIs DEF ConfInv, TrackTypes
    <3>3. ASSUME Occurrences(i, entries[e]) > 0 PROVE tracks[i].known # <<>>
      <4>1. PICK s : s = tracks[i].known
        OBVIOUS
      <4>2. IsSeq(s) /\ Occurrences(e, s) # 0
        BY <3>1, <3>2, <3>3, <4>1
      <4>3. ~ \A j \in 1 .. Len(s) : s[j] # e
        BY ONLY <4>2, NoOccurrence
      <4>4. s # <<>>
        BY ONLY <4>3
      <4>5. QED BY <4>1, <4>4
    <3>4. ASSUME Occurrences(i, entries[e]) > 0 PROVE Fed(net, tracks[i].dest)
      BY <2>1, <3>3, <3>4 DEF ConfInv, TracksInv
    <3>5. QED BY <3>1, <3>4 DEF Fed
  <2>4. QED BY <2>2, <2>3 DEF EntriesServed
<1>2. QED BY <1>1, ConfInvHolds, PTL

-----------------------------------------------------------------------------
(* Chains: what a walk upwards from x goes over, while it is in A and until *)
(* it is in T; up[x] is what is next above x.                              *)

LEMMA UpTo ==
  ASSUME NEW k \in Nat, NEW S \in SUBSET (0 .. k), 0 \in S,
         \A n \in 0 .. k - 1 : n \in S => n + 1 \in S
  PROVE  k \in S
<1>1. SUFFICES ASSUME (0 .. k) \ S # {} PROVE FALSE
  OBVIOUS
<1>2. PICK I : I = (0 .. k) \ S
  OBVIOUS
<1>3. I \in SUBSET Nat
  BY <1>2
<1>4. IsWellFoundedOn(Before, Nat)
  BY NatLessThanWellFounded DEF OpToRel, Before
<1>5. PICK n \in I : \A m \in I : ~ (<<m, n>> \in Before)
  BY <1>1, <1>2, <1>4, <1>3, WFMin, I \subseteq Nat
<1>6. n \in 0 .. k /\ n \notin S /\ n # 0
  BY <1>2
<1>7. n - 1 \in 0 .. k - 1 /\ n - 1 \in Nat
  BY <1>6
<1>8. <<n - 1, n>> \in Before
  BY <1>6, <1>7 DEF Before
<1>9. n - 1 \in S
  BY <1>2, <1>5, <1>7, <1>8
<1>10. n - 1 + 1 \in S
  BY <1>7, <1>9
<1>11. QED BY <1>6, <1>10

Walked(A, T, up, g, x) == IF x \notin A THEN {}
                          ELSE {x} \cup IF x \in T THEN {} ELSE g[up[x]]

\* The walks from everything up to k.
Walks(A, T, up, g, k) == g = [x \in Wild .. k |-> Walked(A, T, up, g, x)]

LEMMA WalksExist ==
  ASSUME NEW k \in Nat, NEW A \in SUBSET (1 .. k), NEW T, NEW up,
         \A x \in 1 .. k : up[x] \in Wild .. x - 1
  PROVE  \E g : Walks(A, T, up, g, k)
<1> DEFINE S == {m \in 0 .. k : \E g : Walks(A, T, up, g, m)}
<1>1. 0 \in S
  <2>1. PICK g : g = [x \in Wild .. 0 |-> {}]
    OBVIOUS
  <2>2. \A x \in Wild .. 0 : Walked(A, T, up, g, x) = {}
    BY DEF Walked, Wild
  <2>3. Walks(A, T, up, g, 0)
    BY <2>1, <2>2 DEF Walks
  <2>4. QED BY <2>3
<1>2. ASSUME NEW m \in 0 .. k - 1, m \in S PROVE m + 1 \in S
  <2>1. PICK g : Walks(A, T, up, g, m)
    BY <1>2
  <2>2. PICK h : h = [x \in Wild .. m + 1 |-> Walked(A, T, up, g, x)]
    OBVIOUS
  <2>3. ASSUME NEW x \in Wild .. m PROVE h[x] = g[x]
    BY <2>1, <2>2 DEF Walks, Wild
  <2>4. ASSUME NEW x \in Wild .. m + 1
        PROVE  Walked(A, T, up, h, x) = Walked(A, T, up, g, x)
    <3>1. CASE x \in A
      <4>1. x \in 1 .. k /\ up[x] \in Wild .. x - 1
        BY <3>1
      <4>2. up[x] \in Wild .. m
        BY <4>1 DEF Wild
      <4>3. h[up[x]] = g[up[x]]
        BY <4>2, <2>3
      <4>4. QED BY <4>3 DEF Walked
    <3>2. CASE x \notin A
      BY <3>2 DEF Walked
    <3>3. QED BY <3>1, <3>2
  <2>5. Walks(A, T, up, h, m + 1)
    BY <2>2, <2>4 DEF Walks
  <2>6. QED BY <2>5
<1> HIDE DEF S
<1>3. S \in SUBSET (0 .. k)
  BY DEF S
<1>4. k \in S
  BY <1>1, <1>2, <1>3, UpTo
<1>5. QED BY <1>4 DEF S

\* What is gone over from x: x first, if it is in A, and behind everything that is not in
\* T what is next above it; so at most one of it is in T.
Chain(A, T, up, C, x) ==
  /\ C \subseteq A /\ (x \in A <=> x \in C)
  /\ \A z \in C : z \notin T /\ up[z] \in A => up[z] \in C
  /\ \A y \in C : y = x \/ \E z \in C : z \notin T /\ up[z] = y
  /\ \A e, f \in C : e \in T /\ f \in T => e = f

LEMMA WalksAreChains ==
  ASSUME NEW k \in Nat, NEW A \in SUBSET (1 .. k), NEW T, NEW up,
         \A x \in 1 .. k : up[x] \in Wild .. x - 1,
         NEW g, Walks(A, T, up, g, k)
  PROVE  \A x \in Wild .. k : Chain(A, T, up, g[x], x)
<1> DEFINE S == {m \in 0 .. k : \A x \in Wild .. m : Chain(A, T, up, g[x], x)}
<1>1. ASSUME NEW x \in Wild .. k PROVE g[x] = Walked(A, T, up, g, x)
  BY DEF Walks
<1>2. ASSUME NEW x \in Wild .. k, x \notin A PROVE Chain(A, T, up, g[x], x)
  <2>1. g[x] = {}
    BY <1>1, <1>2 DEF Walked
  <2>2. QED BY <1>2, <2>1 DEF Chain
<1>3. 0 \in S
  BY <1>2 DEF Wild
<1>4. ASSUME NEW m \in 0 .. k - 1, m \in S PROVE m + 1 \in S
  <2>1. ASSUME NEW x \in Wild .. m + 1 PROVE Chain(A, T, up, g[x], x)
    <3>1. CASE x \in Wild .. m
      BY <1>4, <3>1
    <3>2. CASE x = m + 1 /\ x \notin A
      BY <1>2, <3>2 DEF Wild
    <3>3. CASE x = m + 1 /\ x \in A
      <4>1. x \in Wild .. k /\ up[x] \in Wild .. m
        BY <3>3 DEF Wild
      <4>2. g[x] = {x} \cup IF x \in T THEN {} ELSE g[up[x]]
        BY <1>1, <3>3, <4>1 DEF Walked
      <4>3. PICK y, C : y = up[x] /\ C = g[y]
        OBVIOUS
      <4>4. Chain(A, T, up, C, y)
        BY <1>4, <4>1, <4>3
      <4>5. CASE x \in T
        BY <3>3, <4>2, <4>5 DEF Chain
      <4>6. CASE x \notin T
        <5>1. g[x] = {x} \cup C
          BY <4>2, <4>3, <4>6
        <5>2. QED BY ONLY <3>3, <4>3, <4>4, <4>6, <5>1 DEF Chain
      <4>7. QED BY <4>5, <4>6
    <3>4. QED BY <3>1, <3>2, <3>3 DEF Wild
  <2>2. QED BY <2>1
<1> HIDE DEF S
<1>5. S \in SUBSET (0 .. k)
  BY DEF S
<1>6. k \in S
  BY <1>3, <1>4, <1>5, UpTo
<1>7. QED BY <1>6 DEF S

-----------------------------------------------------------------------------
(* Who waits for what                                                      *)

\* The destination that the maker of stream s reads: Upstream, by the stream.
Up(n, s) == IF n.stream[s].owner = None THEN n.stream[s].feed ELSE n.input[n.stream[s].owner]

WaitedIn(n, s) == \E d \in 1 .. Len(n.dest) : n.dest[d].stream = s /\ n.dest[d].waiting

\* A destination reads what was made of destinations before it.
Downwards(n) ==
  /\ \A s \in 1 .. Len(n.stream) : Up(n, s) \in Wild .. Len(n.dest)
  /\ \A d \in 1 .. Len(n.dest) : /\ n.dest[d].waiting \in BOOLEAN
                                 /\ Up(n, n.dest[d].stream) \in Wild .. d - 1

\* No two streams are made of one destination.
Single(n) ==
  \A s, t \in 1 .. Len(n.stream) : Up(n, s) = Up(n, t) /\ Up(n, s) > None => s = t

\* What makes a stream reads as long as the stream is waited for.
Runs(n) ==
  /\ n.running \subseteq 1 .. Len(n.stream)
  /\ \A s \in 1 .. Len(n.stream) :
       IF Up(n, s) > None THEN n.dest[Up(n, s)].waiting <=> WaitedIn(n, s)
       ELSE s \in n.running <=> WaitedIn(n, s)

Leaf(n, d) == \A s \in 1 .. Len(n.stream) : Up(n, s) > None => Up(n, s) # d

\* The destinations where w is news, those where the news stops, and what is next.
Against(n, w) == {x \in 1 .. Len(n.dest) : n.dest[x].waiting # w}
Kept(n, w)    == {x \in 1 .. Len(n.dest) : ~w /\ OthersWait(n, x)}
Above(n)      == [x \in 1 .. Len(n.dest) |-> Upstream(n, x)]

LEMMA UpstreamIsUp ==
  ASSUME NEW n, NEW d
  PROVE  Upstream(n, d) = Up(n, n.dest[d].stream)
BY DEF Upstream, Up

LEMMA ChangedChain ==
  ASSUME NEW n, NetInv(n), Downwards(n), NEW d \in Wild .. Len(n.dest), NEW w \in BOOLEAN
  PROVE  Chain(Against(n, w), Kept(n, w), Above(n), Changed(n, d, w), d)
<1>1. PICK k \in Nat : k = Len(n.dest)
  BY NetLengths
<1>2. PICK A, T, up : A = Against(n, w) /\ T = Kept(n, w) /\ up = Above(n)
  OBVIOUS
<1>3. A \in SUBSET (1 .. k)
  BY <1>1, <1>2 DEF Against
<1>4. \A x \in 1 .. k : up[x] = Upstream(n, x) /\ up[x] \in Wild .. x - 1
  BY <1>1, <1>2, UpstreamIsUp DEF Above, Downwards
<1> DEFINE Def(g) == [x \in Wild .. Len(n.dest) |->
                        IF x \in {Wild, None} THEN {}
                        ELSE IF n.dest[x].waiting = w THEN {}
                        ELSE {x} \cup IF ~w /\ OthersWait(n, x) THEN {} ELSE g[Upstream(n, x)]]
           h == CHOOSE h : h = Def(h)
<1>5. ASSUME NEW g PROVE Def(g) = [x \in Wild .. k |-> Walked(A, T, up, g, x)]
  <2>1. ASSUME NEW x \in Wild .. k PROVE Def(g)[x] = Walked(A, T, up, g, x)
    <3>1. CASE x \in {Wild, None}
      <4>1. x \notin A
        BY <1>3, <3>1 DEF Wild, None
      <4>2. QED BY <1>1, <3>1, <4>1 DEF Walked
    <3>2. CASE x \in 1 .. k
      <4>1. x \notin {Wild, None}
        BY <3>2 DEF Wild, None
      <4>2. x \in A <=> n.dest[x].waiting # w
        BY <1>1, <1>2, <3>2 DEF Against
      <4>3. x \in T <=> ~w /\ OthersWait(n, x)
        BY <1>1, <1>2, <3>2 DEF Kept
      <4>4. up[x] = Upstream(n, x)
        BY <1>4, <3>2
      <4>5. x \in Wild .. Len(n.dest)
        BY <1>1
      <4>6. Def(g)[x] = IF n.dest[x].waiting = w THEN {}
                        ELSE {x} \cup IF ~w /\ OthersWait(n, x) THEN {} ELSE g[Upstream(n, x)]
        BY ONLY <4>1, <4>5
      <4>7. QED BY ONLY <4>2, <4>3, <4>4, <4>6 DEF Walked
    <3>3. QED BY <3>1, <3>2 DEF Wild, None
  <2>2. QED BY <1>1, <2>1
<1>6. Changed(n, d, w) = h[d]
  BY DEF Changed
<1> HIDE DEF Def, h
<1>7. PICK g : Walks(A, T, up, g, k)
  BY <1>3, <1>4, WalksExist
<1>8. g = Def(g)
  BY <1>5, <1>7 DEF Walks
<1>9. h = Def(h)
  BY <1>8 DEF h
<1>10. Walks(A, T, up, h, k)
  BY <1>5, <1>9 DEF Walks
<1>11. Chain(A, T, up, h[d], d)
  BY <1>1, <1>3, <1>4, <1>10, WalksAreChains
<1>12. QED BY <1>2, <1>6, <1>11

\* The streams whose makers are told, if they read a device.
Told(n, d, w) == {n.dest[x].stream : x \in {y \in Changed(n, d, w) : Upstream(n, y) = None
                                                     /\ (w \/ ~ OthersWait(n, y))}}

LEMMA SetWaitingFields ==
  ASSUME NEW n, NetInv(n), NEW d, NEW w \in BOOLEAN
  PROVE  \E m : /\ m = SetWaiting(n, d, w)
                /\ m.stream = n.stream /\ m.input = n.input /\ Len(m.dest) = Len(n.dest)
                /\ m.running = IF w THEN n.running \cup Told(n, d, w) ELSE n.running \ Told(n, d, w)
                /\ \A x \in 1 .. Len(n.dest) :
                     /\ m.dest[x].stream = n.dest[x].stream /\ m.dest[x].owner = n.dest[x].owner
                     /\ m.dest[x].waiting = IF x \in Changed(n, d, w) THEN w
                                            ELSE n.dest[x].waiting
<1>1. PICK m : m = SetWaiting(n, d, w)
  OBVIOUS
<1>2. PICK ch : ch = Changed(n, d, w)
  OBVIOUS
<1>3. PICK ds : ds = [x \in DOMAIN n.dest |->
                        IF x \in ch THEN [n.dest[x] EXCEPT !.waiting = w] ELSE n.dest[x]]
  OBVIOUS
<1>4. PICK told : told = {n.dest[x].stream : x \in {y \in ch : Upstream(n, y) = None
                                                     /\ (w \/ ~ OthersWait(n, y))}}
  OBVIOUS
<1>5. PICK r : r = IF w THEN n.running \cup told ELSE n.running \ told
  OBVIOUS
<1>6. n = [stream |-> n.stream, order |-> n.order, dest |-> n.dest,
           input |-> n.input, running |-> n.running]
  BY DEF NetInv, IsNet
<1>7. m = [n EXCEPT !.dest = ds, !.running = r]
  BY ONLY <1>1, <1>2, <1>3, <1>4, <1>5, <1>6 DEF SetWaiting
<1>8. m.stream = n.stream /\ m.input = n.input /\ m.dest = ds /\ m.running = r
  BY ONLY <1>6, <1>7
<1>9. told = Told(n, d, w)
  BY ONLY <1>2, <1>4 DEF Told
<1>10. DOMAIN n.dest = 1 .. Len(n.dest)
  BY DEF NetInv, IsSeq
<1>11. Len(ds) = Len(n.dest)
  BY <1>3, <1>10, MapIs DEF NetInv
<1>12. ASSUME NEW x \in 1 .. Len(n.dest)
       PROVE  /\ ds[x].stream = n.dest[x].stream /\ ds[x].owner = n.dest[x].owner
              /\ ds[x].waiting = IF x \in ch THEN w ELSE n.dest[x].waiting
  <2>1. IsDest(n.dest[x])
    BY DEF NetInv
  <2>2. PICK a, b, c : n.dest[x] = [stream |-> a, owner |-> b, waiting |-> c]
    BY <2>1 DEF IsDest
  <2>3. ds[x] = IF x \in ch THEN [n.dest[x] EXCEPT !.waiting = w] ELSE n.dest[x]
    BY <1>3, <1>10
  <2>4. CASE x \in ch
    BY ONLY <2>2, <2>3, <2>4
  <2>5. CASE x \notin ch
    BY <2>3, <2>5
  <2>6. QED BY <2>4, <2>5
<1>13. QED BY <1>1, <1>2, <1>5, <1>8, <1>9, <1>11, <1>12

\* Up and whatever rests on it is the same where streams, inputs and their owners are.
LEMMA UpSame ==
  ASSUME NEW n, NEW m, m.stream = n.stream, m.input = n.input
  PROVE  \A s : Up(m, s) = Up(n, s)
BY DEF Up

LEMMA SetWaitingGoesUp ==
  ASSUME NEW n, NetInv(n), Downwards(n), Single(n), NEW d, NEW w \in BOOLEAN
  PROVE  Downwards(SetWaiting(n, d, w)) /\ Single(SetWaiting(n, d, w))
<1>1. PICK m : /\ m = SetWaiting(n, d, w)
               /\ m.stream = n.stream /\ m.input = n.input /\ Len(m.dest) = Len(n.dest)
               /\ m.running = IF w THEN n.running \cup Told(n, d, w) ELSE n.running \ Told(n, d, w)
               /\ \A x \in 1 .. Len(n.dest) :
                    /\ m.dest[x].stream = n.dest[x].stream /\ m.dest[x].owner = n.dest[x].owner
                    /\ m.dest[x].waiting = IF x \in Changed(n, d, w) THEN w
                                           ELSE n.dest[x].waiting
  BY SetWaitingFields
<1>2. \A s : Up(m, s) = Up(n, s)
  BY <1>1, UpSame
<1>3. Downwards(m)
  BY <1>1, <1>2 DEF Downwards
<1>4. Single(m)
  BY <1>1, <1>2 DEF Single
<1>5. QED BY <1>1, <1>3, <1>4

LEMMA SetWaitingRuns ==
  ASSUME NEW n, NetInv(n), Downwards(n), Single(n), Runs(n),
         NEW d \in Wild .. Len(n.dest), Leaf(n, d), NEW w \in BOOLEAN, ~ MeetsWild(n, d, w)
  PROVE  Runs(SetWaiting(n, d, w))
<1>1. PICK m : /\ m = SetWaiting(n, d, w)
               /\ m.stream = n.stream /\ m.input = n.input /\ Len(m.dest) = Len(n.dest)
               /\ m.running = IF w THEN n.running \cup Told(n, d, w) ELSE n.running \ Told(n, d, w)
               /\ \A x \in 1 .. Len(n.dest) :
                    /\ m.dest[x].stream = n.dest[x].stream /\ m.dest[x].owner = n.dest[x].owner
                    /\ m.dest[x].waiting = IF x \in Changed(n, d, w) THEN w
                                           ELSE n.dest[x].waiting
  BY SetWaitingFields
<1>2. PICK k \in Nat : k = Len(n.dest)
  BY NetLengths
<1>3. PICK ch : ch = Changed(n, d, w)
  OBVIOUS
<1>4. \A x \in 1 .. k : n.dest[x].waiting \in BOOLEAN /\ n.dest[x].stream \in 1 .. Len(n.stream)
  BY <1>2 DEF Downwards, NetInv
<1>5. Chain(Against(n, w), Kept(n, w), Above(n), ch, d)
  BY <1>3, ChangedChain
<1>6. \A x \in ch : x \in 1 .. k /\ n.dest[x].waiting # w
  BY <1>2, <1>5 DEF Chain, Against
<1>7. \A x \in 1 .. k : Above(n)[x] = Up(n, n.dest[x].stream)
  BY <1>2, UpstreamIsUp DEF Above
\* a source that is not told of the news has it, or has it kept from it
<1>8. ASSUME NEW x \in ch, w \/ ~ OthersWait(n, x), NEW y \in 1 .. k,
             y = Up(n, n.dest[x].stream), n.dest[y].waiting # w
      PROVE  y \in ch
  BY <1>2, <1>5, <1>6, <1>7, <1>8 DEF Chain, Against, Kept
\* what is reached from below is reached from the stream it feeds
<1>9. ASSUME NEW s \in 1 .. Len(n.stream), NEW y \in ch, Up(n, s) = y
      PROVE  \E x \in ch : n.dest[x].stream = s /\ (w \/ ~ OthersWait(n, x))
  <2>1. y > None
    BY <1>6, <1>9 DEF None
  <2>2. y # d
    BY <1>9, <2>1 DEF Leaf
  <2>3. PICK x \in ch : x \notin Kept(n, w) /\ Above(n)[x] = y
    BY <1>5, <2>2 DEF Chain
  <2>4. x \in 1 .. k /\ Up(n, n.dest[x].stream) = y
    BY <1>6, <1>7, <2>3
  <2>5. n.dest[x].stream = s
    BY <1>4, <1>9, <2>1, <2>4 DEF Single
  <2>6. w \/ ~ OthersWait(n, x)
    BY <1>2, <2>3, <2>4 DEF Kept
  <2>7. QED BY <2>5, <2>6
\* two of one stream are not both reached, when the news is that nobody waits
<1>10. ASSUME ~ w, NEW x \in ch, OthersWait(n, x), NEW e \in ch, n.dest[e].stream = n.dest[x].stream
       PROVE  e = x
  <2>1. SUFFICES ASSUME e # x PROVE FALSE
    OBVIOUS
  <2>2. x \in 1 .. k /\ e \in 1 .. k /\ n.dest[x].waiting
    BY <1>4, <1>6, <1>10
  <2>3. OthersWait(n, e)
    BY <1>2, <1>10, <2>1, <2>2 DEF OthersWait
  <2>4. x \in Kept(n, w) /\ e \in Kept(n, w)
    BY <1>2, <1>10, <2>2, <2>3 DEF Kept
  <2>5. QED BY <1>5, <2>1, <2>4 DEF Chain
<1>11. \A s : s \in Told(n, d, w) <=>
             \E x \in ch : n.dest[x].stream = s /\ Up(n, s) = None /\ (w \/ ~ OthersWait(n, x))
  BY <1>3, UpstreamIsUp DEF Told
<1>12. \A s : Up(m, s) = Up(n, s)
  BY <1>1, UpSame
<1>13. \A s : WaitedIn(m, s) <=> \E x \in 1 .. k : /\ n.dest[x].stream = s
                                                  /\ IF x \in ch THEN w ELSE n.dest[x].waiting
  BY <1>1, <1>2, <1>3 DEF WaitedIn
<1>14. \A s : WaitedIn(n, s) <=> \E x \in 1 .. k : n.dest[x].stream = s /\ n.dest[x].waiting
  BY <1>2 DEF WaitedIn
<1>15. \A x \in ch : Up(n, n.dest[x].stream) # Wild
  BY <1>3, UpstreamIsUp DEF MeetsWild
<1>16. ASSUME NEW s \in 1 .. Len(n.stream), NEW x \in ch, n.dest[x].stream = s
       PROVE  Up(n, s) \in 0 .. k
  <2>1. x \in 1 .. k /\ Up(n, s) \in Wild .. x - 1 /\ Up(n, s) # Wild
    BY <1>2, <1>6, <1>15, <1>16 DEF Downwards
  <2>2. QED BY <2>1 DEF Wild
<1>17. ASSUME NEW s \in 1 .. Len(n.stream)
       PROVE  IF Up(n, s) > None THEN m.dest[Up(n, s)].waiting <=> WaitedIn(m, s)
              ELSE s \in m.running <=> WaitedIn(m, s)
  <2>1. PICK u : u = Up(n, s)
    OBVIOUS
  <2>2. CASE \A x \in ch : n.dest[x].stream # s
    <3>1. WaitedIn(m, s) <=> WaitedIn(n, s)
      BY <1>13, <1>14, <2>2
    <3>2. s \notin Told(n, d, w)
      BY <1>11, <2>2
    <3>3. u \notin ch
      BY <1>9, <2>1, <2>2
    <3>4. CASE u > None
      <4>1. u \in 1 .. k
        BY <1>2, <2>1, <3>4 DEF Downwards, None
      <4>2. m.dest[u].waiting = n.dest[u].waiting
        BY <1>1, <1>2, <1>3, <3>3, <4>1
      <4>3. QED BY <2>1, <3>1, <3>4, <4>2 DEF Runs
    <3>5. CASE ~ (u > None)
      BY <2>1, <3>1, <3>2, <3>5, <1>1 DEF Runs
    <3>6. QED BY <2>1, <3>4, <3>5
  <2>3. CASE \E x \in ch : n.dest[x].stream = s
    <3>1. PICK x \in ch : n.dest[x].stream = s /\ u \in 0 .. k
      BY <1>16, <2>1, <2>3
    <3>2. x \in 1 .. k /\ n.dest[x].waiting = ~ w
      BY <1>4, <1>6, <3>1
    <3>3. \A e \in ch : e \in 1 .. k
      BY <1>6
    <3>4. CASE w
      <4>1. WaitedIn(m, s)
        BY <1>13, <3>1, <3>2, <3>4
      <4>2. CASE u > None
        <5>1. u \in 1 .. k
          BY <3>1, <4>2 DEF None
        <5>2. n.dest[u].waiting \/ u \in ch
          BY <1>4, <1>8, <2>1, <3>1, <3>4, <5>1
        <5>3. m.dest[u].waiting
          BY <1>1, <1>2, <1>3, <3>4, <5>1, <5>2
        <5>4. QED BY <2>1, <4>1, <4>2, <5>3
      <4>3. CASE ~ (u > None)
        <5>1. u = None
          BY <3>1, <4>3 DEF None
        <5>2. s \in Told(n, d, w)
          BY <1>11, <2>1, <3>1, <3>4, <5>1
        <5>3. QED BY <1>1, <2>1, <3>4, <4>1, <4>3, <5>2
      <4>4. QED BY <4>2, <4>3
    <3>5. CASE ~ w /\ OthersWait(n, x)
      <4>1. PICK e \in 1 .. k : e # x /\ n.dest[e].stream = s /\ n.dest[e].waiting
        BY <1>2, <3>1, <3>5 DEF OthersWait
      <4>2. e \notin ch
        BY <1>10, <3>1, <3>5, <4>1
      <4>3. WaitedIn(m, s) /\ WaitedIn(n, s)
        BY <1>13, <1>14, <4>1, <4>2
      <4>4. ASSUME NEW f \in ch, n.dest[f].stream = s PROVE OthersWait(n, f)
        BY <1>10, <3>1, <3>5, <4>4
      <4>5. CASE u > None
        <5>1. u \in 1 .. k /\ u \notin ch
          BY <1>9, <2>1, <3>1, <3>5, <4>4, <4>5 DEF None
        <5>2. m.dest[u].waiting = n.dest[u].waiting
          BY <1>1, <1>2, <1>3, <5>1
        <5>3. QED BY <2>1, <4>3, <4>5, <5>2 DEF Runs
      <4>6. CASE ~ (u > None)
        <5>1. s \notin Told(n, d, w)
          BY <1>11, <3>5, <4>4
        <5>2. QED BY <1>1, <2>1, <3>5, <4>3, <4>6, <5>1 DEF Runs
      <4>7. QED BY <4>5, <4>6
    <3>6. CASE ~ w /\ ~ OthersWait(n, x)
      <4>1. ~ WaitedIn(m, s)
        BY <1>2, <1>13, <3>1, <3>6 DEF OthersWait
      <4>2. WaitedIn(n, s)
        BY <1>14, <3>1, <3>2, <3>6
      <4>3. CASE u > None
        <5>1. u \in 1 .. k
          BY <3>1, <4>3 DEF None
        <5>2. n.dest[u].waiting
          BY <2>1, <4>2, <4>3 DEF Runs
        <5>3. u \in ch
          BY <1>8, <2>1, <3>1, <3>6, <5>1, <5>2
        <5>4. ~ m.dest[u].waiting
          BY <1>1, <1>2, <1>3, <3>6, <5>1, <5>3
        <5>5. QED BY <2>1, <4>1, <4>3, <5>4
      <4>4. CASE ~ (u > None)
        <5>1. u = None
          BY <3>1, <4>4 DEF None
        <5>2. s \in Told(n, d, w)
          BY <1>11, <2>1, <3>1, <3>6, <5>1
        <5>3. QED BY <1>1, <2>1, <3>6, <4>1, <4>4, <5>2
      <4>5. QED BY <4>3, <4>4
    <3>7. QED BY <3>4, <3>5, <3>6
  <2>4. QED BY <2>2, <2>3
<1>18. m.running \subseteq 1 .. Len(m.stream)
  <2>1. Told(n, d, w) \subseteq 1 .. Len(n.stream)
    BY <1>3, <1>4, <1>6 DEF Told
  <2>2. QED BY <1>1, <2>1 DEF Runs
<1>19. QED BY <1>1, <1>12, <1>17, <1>18 DEF Runs

-----------------------------------------------------------------------------
(* Whose the streams, destinations and inputs are                          *)

Made == Sources \cup Filters

\* A stream belongs to a conversion, which has a destination of its own, or to a block
\* that can make one; a filter makes one only.  The input of a block is its destination.
Belongs(n, bs, s) ==
  IF n.stream[s].owner = None
    THEN n.stream[s].feed \in 1 .. Len(n.dest) /\ n.dest[n.stream[s].feed].owner = None
    ELSE /\ n.stream[s].owner \in 1 .. Len(bs) /\ bs[n.stream[s].owner].kind \in Made
         /\ bs[n.stream[s].owner].kind \in Filters => bs[n.stream[s].owner].out # None

Plugs(n, bs, b) ==
  /\ n.input[b] \in Wild .. Len(n.dest)
  /\ n.input[b] > None => /\ n.dest[n.input[b]].owner = b
                          /\ bs[b].kind \in Filters \cup {"http"}

Owned(n, bs) ==
  /\ IsSeq(n.input) /\ Len(n.input) = Len(bs)
  /\ \A s \in 1 .. Len(n.stream) : Belongs(n, bs, s)
  /\ \A s, t \in 1 .. Len(n.stream) :
       /\ n.stream[s].owner = n.stream[t].owner
       /\ IF n.stream[s].owner = None THEN n.stream[s].feed = n.stream[t].feed
          ELSE bs[n.stream[s].owner].kind \in Filters
       => s = t
  /\ \A b \in 1 .. Len(bs) : Plugs(n, bs, b)

LEMMA Kinds ==
  /\ "live" \notin Made /\ "http" \notin Made /\ "live" \notin Filters
  /\ \A k \in Sources : k \notin Filters /\ k # "http"
<1>1. Module["live"] = LiveModule /\ Module["http"] = HttpModule
  BY DEF Module
<1>2. LiveModule.role = "other" /\ HttpModule.role = "other"
  BY DEF LiveModule, HttpModule, Plain
<1>3. QED BY <1>1, <1>2 DEF Made, Sources, Filters

\* The destination that a stream is made from is its owner's.
LEMMA UpIsOwned ==
  ASSUME NEW n, NEW bs, NetInv(n), Owned(n, bs), Len(bs) \in Nat, NEW s \in 1 .. Len(n.stream)
  PROVE  /\ Up(n, s) \in Wild .. Len(n.dest)
         /\ Up(n, s) > None => n.dest[Up(n, s)].owner = n.stream[s].owner
<1>1. PICK k \in Nat : k = Len(n.dest)
  BY NetLengths
<1>2. CASE n.stream[s].owner = None
  BY <1>1, <1>2 DEF Owned, Belongs, Up, Wild
<1>3. CASE n.stream[s].owner # None
  <2>1. PICK b \in 1 .. Len(bs) : b = n.stream[s].owner
    BY <1>3 DEF Owned, Belongs
  <2>2. Up(n, s) = n.input[b]
    BY <1>3, <2>1 DEF Up
  <2>3. QED BY <2>1, <2>2 DEF Owned, Plugs
<1>4. QED BY <1>2, <1>3

LEMMA OwnedSingle ==
  ASSUME NEW n, NEW bs, NetInv(n), Owned(n, bs), Len(bs) \in Nat
  PROVE  Single(n)
<1>1. ASSUME NEW s \in 1 .. Len(n.stream), NEW t \in 1 .. Len(n.stream),
             Up(n, s) = Up(n, t), Up(n, s) > None
      PROVE  s = t
  <2>1. n.stream[s].owner = n.stream[t].owner
    BY <1>1, UpIsOwned
  <2>2. CASE n.stream[s].owner = None
    <3>1. n.stream[s].feed = n.stream[t].feed
      BY <1>1, <2>1, <2>2 DEF Up
    <3>2. QED BY <2>1, <2>2, <3>1 DEF Owned
  <2>3. CASE n.stream[s].owner # None
    <3>1. PICK b \in 1 .. Len(bs) : b = n.stream[s].owner /\ bs[b].kind \in Made
      BY <2>3 DEF Owned, Belongs
    <3>2. bs[b].kind \in Filters \cup {"http"}
      BY <1>1, <2>3, <3>1 DEF Owned, Plugs, Up
    <3>3. bs[b].kind \in Filters
      BY <3>1, <3>2, Kinds
    <3>4. QED BY <2>1, <2>3, <3>1, <3>3 DEF Owned
  <2>4. QED BY <2>2, <2>3
<1>2. QED BY <1>1 DEF Single

\* What a block reads that makes no stream, nobody reads on.
LEMMA OwnedLeaf ==
  ASSUME NEW n, NEW bs, NetInv(n), Owned(n, bs), Len(bs) \in Nat, NEW d,
         NEW o \in 1 .. Len(bs), n.dest[d].owner = o, bs[o].kind \notin Made
  PROVE  Leaf(n, d)
<1>1. ASSUME NEW s \in 1 .. Len(n.stream), Up(n, s) > None, Up(n, s) = d
      PROVE  FALSE
  <2>1. n.stream[s].owner = o
    BY <1>1, UpIsOwned
  <2>2. o # None
    BY DEF None
  <2>3. QED BY <2>1, <2>2 DEF Owned, Belongs
<1>2. QED BY <1>1 DEF Leaf

\* The blocks may change, as long as kinds stay and outputs are not lost.
LEMMA OwnedKept ==
  ASSUME NEW n, NEW bs, NEW cs, Owned(n, bs), Len(cs) = Len(bs),
         \A b \in 1 .. Len(bs) : cs[b].kind = bs[b].kind /\ (bs[b].out # None => cs[b].out # None)
  PROVE  Owned(n, cs)
<1>1. ASSUME NEW s \in 1 .. Len(n.stream) PROVE Belongs(n, cs, s)
  BY DEF Owned, Belongs
<1>2. \A b \in 1 .. Len(bs) : Plugs(n, cs, b)
  BY DEF Owned, Plugs
<1>3. ASSUME NEW s \in 1 .. Len(n.stream), NEW t \in 1 .. Len(n.stream),
             n.stream[s].owner = n.stream[t].owner,
             IF n.stream[s].owner = None THEN n.stream[s].feed = n.stream[t].feed
             ELSE cs[n.stream[s].owner].kind \in Filters
      PROVE  s = t
  BY <1>3 DEF Owned, Belongs
<1>4. QED BY <1>1, <1>2, <1>3 DEF Owned

\* What is there stays where it belongs, when there is more.
LEMMA OwnedOn ==
  ASSUME NEW n, NEW m, NEW bs, NEW k \in Nat, k = Len(n.dest), NEW l \in Nat, l = Len(m.dest),
         k <= l, \A d \in 1 .. k : m.dest[d] = n.dest[d]
  PROVE  /\ \A s : Belongs(n, bs, s) /\ m.stream[s] = n.stream[s] => Belongs(m, bs, s)
         /\ \A b : Plugs(n, bs, b) /\ m.input[b] = n.input[b] => Plugs(m, bs, b)
<1>1. ASSUME NEW s, Belongs(n, bs, s), m.stream[s] = n.stream[s] PROVE Belongs(m, bs, s)
  <2>1. CASE n.stream[s].owner = None
    <3>1. PICK f \in 1 .. k : f = n.stream[s].feed /\ n.dest[f].owner = None
      BY <1>1, <2>1 DEF Belongs
    <3>2. f \in 1 .. l /\ m.dest[f] = n.dest[f]
      OBVIOUS
    <3>3. QED BY <1>1, <2>1, <3>1, <3>2 DEF Belongs
  <2>2. CASE n.stream[s].owner # None
    BY <1>1, <2>2 DEF Belongs
  <2>3. QED BY <2>1, <2>2
<1>2. ASSUME NEW b, Plugs(n, bs, b), m.input[b] = n.input[b] PROVE Plugs(m, bs, b)
  <2>1. PICK i : i = n.input[b]
    OBVIOUS
  <2>2. i \in Wild .. k
    BY <1>2, <2>1 DEF Plugs
  <2>3. i > None => i \in 1 .. k
    BY <2>2 DEF None
  <2>4. i \in Wild .. l
    BY <2>2 DEF Wild
  <2>5. QED BY <1>2, <2>1, <2>3, <2>4 DEF Plugs
<1>3. QED BY <1>1, <1>2

-----------------------------------------------------------------------------
(* The graph grows by what nobody waits for                                *)

\* Nobody waits for stream s, and what makes it does not wait.
Idle(n, s) ==
  /\ Up(n, s) \in Wild .. Len(n.dest) /\ (Up(n, s) > None => n.dest[Up(n, s)].waiting = FALSE)
  /\ s \notin n.running /\ ~ WaitedIn(n, s)

Grown(n, m) ==
  /\ m.running = n.running
  /\ Len(n.stream) <= Len(m.stream) /\ Len(n.dest) <= Len(m.dest)
  /\ \A s \in 1 .. Len(m.stream) :
       Idle(m, s) \/ (s \in 1 .. Len(n.stream) /\ Up(m, s) = Up(n, s))
  /\ \A d \in 1 .. Len(n.dest) :
       m.dest[d] = n.dest[d] /\ Up(m, n.dest[d].stream) = Up(n, n.dest[d].stream)
  /\ \A d \in Len(n.dest) + 1 .. Len(m.dest) :
       m.dest[d].waiting = FALSE /\ Up(m, m.dest[d].stream) \in Wild .. d - 1

LEMMA GrownRuns ==
  ASSUME NEW n, NEW m, NetInv(n), NetInv(m), Downwards(n), Runs(n), Grown(n, m)
  PROVE  Downwards(m) /\ Runs(m)
<1>1. PICK j, k \in Nat : j = Len(n.dest) /\ k = Len(m.dest)
  BY NetLengths
<1>2. j <= k
  BY <1>1 DEF Grown
<1>3. \A d \in 1 .. k : d \in 1 .. j \/ d \in j + 1 .. k
  BY <1>1
<1>4. \A d \in 1 .. j : d \in 1 .. k
  BY <1>1, <1>2
<1>5. ASSUME NEW d \in 1 .. k
      PROVE  m.dest[d].waiting \in BOOLEAN /\ Up(m, m.dest[d].stream) \in Wild .. d - 1
  <2>1. CASE d \in 1 .. j
    BY <1>1, <2>1 DEF Grown, Downwards
  <2>2. CASE d \in j + 1 .. k
    BY <1>1, <2>2 DEF Grown
  <2>3. QED BY <1>3, <2>1, <2>2
<1>6. ASSUME NEW s \in 1 .. Len(m.stream) PROVE Up(m, s) \in Wild .. k
  <2>1. CASE Idle(m, s)
    BY <1>1, <2>1 DEF Idle
  <2>2. CASE s \in 1 .. Len(n.stream) /\ Up(m, s) = Up(n, s)
    <3>1. Up(n, s) \in Wild .. j
      BY <1>1, <2>2 DEF Downwards
    <3>2. QED BY <1>1, <1>2, <2>2, <3>1 DEF Wild
  <2>3. QED BY <2>1, <2>2 DEF Grown
<1>7. Downwards(m)
  BY <1>1, <1>5, <1>6 DEF Downwards
<1>8. ASSUME NEW s PROVE WaitedIn(m, s) <=> WaitedIn(n, s)
  <2>1. \A d \in j + 1 .. k : ~ m.dest[d].waiting
    BY <1>1 DEF Grown
  <2>2. \A d \in 1 .. j : m.dest[d] = n.dest[d]
    BY <1>1 DEF Grown
  <2>3. QED BY <1>1, <1>3, <1>4, <2>1, <2>2 DEF WaitedIn
<1>9. ASSUME NEW s \in 1 .. Len(m.stream)
      PROVE  IF Up(m, s) > None THEN m.dest[Up(m, s)].waiting <=> WaitedIn(m, s)
             ELSE s \in m.running <=> WaitedIn(m, s)
  <2>1. CASE Idle(m, s)
    BY <2>1 DEF Idle
  <2>2. CASE s \in 1 .. Len(n.stream) /\ Up(m, s) = Up(n, s)
    <3>1. PICK u : u = Up(n, s)
      OBVIOUS
    <3>2. CASE u > None
      <4>1. u \in 1 .. j
        BY <1>1, <2>2, <3>1, <3>2 DEF Downwards, None
      <4>2. m.dest[u] = n.dest[u]
        BY <1>1, <4>1 DEF Grown
      <4>3. QED BY <1>8, <2>2, <3>1, <3>2, <4>2 DEF Runs
    <3>3. CASE ~ (u > None)
      BY <1>8, <2>2, <3>1, <3>3 DEF Runs, Grown
    <3>4. QED BY <3>2, <3>3
  <2>3. QED BY <2>1, <2>2 DEF Grown
<1>10. m.running \subseteq 1 .. Len(m.stream)
  <2>1. n.running \subseteq 1 .. Len(n.stream) /\ m.running = n.running
    BY DEF Runs, Grown
  <2>2. \A s \in 1 .. Len(n.stream) : s \in 1 .. Len(m.stream)
    BY NetLengths DEF Grown
  <2>3. QED BY <2>1, <2>2
<1>11. QED BY <1>7, <1>9, <1>10 DEF Runs

\* A stream that is not there yet, or that nobody reads, is not waited for.
LEMMA NobodyWaits ==
  ASSUME NEW n, NetInv(n), Downwards(n), Runs(n), NEW s,
         \/ s \notin 1 .. Len(n.stream)
         \/ Up(n, s) <= None /\ \A d \in 1 .. Len(n.dest) : n.dest[d].stream # s
  PROVE  s \notin n.running /\ ~ WaitedIn(n, s)
<1>1. CASE s \notin 1 .. Len(n.stream)
  BY <1>1 DEF Runs, WaitedIn, NetInv
<1>2. CASE s \in 1 .. Len(n.stream) /\ Up(n, s) <= None
                                    /\ \A d \in 1 .. Len(n.dest) : n.dest[d].stream # s
  <2>1. ~ WaitedIn(n, s)
    BY <1>2 DEF WaitedIn
  <2>2. ~ (Up(n, s) > None)
    BY <1>2 DEF Downwards, None
  <2>3. QED BY <1>2, <2>1, <2>2 DEF Runs
<1>3. QED BY <1>1, <1>2

-----------------------------------------------------------------------------
(* What is new in the net                                                  *)

LEMMA WithStreamFields ==
  ASSUME NEW n, NetInv(n), NEW name, NEW format, NEW owner
  PROVE  \E m : /\ m = WithStream(n, name, format, owner) /\ NetInv(m)
                /\ m.dest = n.dest /\ m.input = n.input /\ m.running = n.running
                /\ Len(m.stream) = Len(n.stream) + 1
                /\ \A s \in 1 .. Len(n.stream) : m.stream[s] = n.stream[s]
                /\ m.stream[Len(m.stream)].owner = owner
                /\ m.stream[Len(m.stream)].format = format
<1>1. PICK x, none : none = None /\ x = [name |-> name, format |-> format, owner |-> owner,
                                         feed |-> none]
  OBVIOUS
<1>2. PICK m : m = WithStream(n, name, format, owner)
  OBVIOUS
<1>3. PICK o : o = <<Len(n.stream) + 1>> \o n.order
  OBVIOUS
<1>4. m = [n EXCEPT !.stream = Append(n.stream, x), !.order = o]
  BY ONLY <1>1, <1>2, <1>3 DEF WithStream
<1>5. n = [stream |-> n.stream, order |-> n.order, dest |-> n.dest,
           input |-> n.input, running |-> n.running]
  BY DEF NetInv, IsNet
<1>6. /\ m.stream = Append(n.stream, x) /\ m.dest = n.dest
      /\ m.input = n.input /\ m.running = n.running
  BY ONLY <1>4, <1>5
<1>7. IsSeq(n.stream)
  BY DEF NetInv
<1>8. /\ Len(m.stream) = Len(n.stream) + 1 /\ m.stream[Len(n.stream) + 1] = x
      /\ \A s \in 1 .. Len(n.stream) : m.stream[s] = n.stream[s]
  BY ONLY <1>6, <1>7, AppendIs
<1>9. x.owner = owner /\ x.format = format
  BY ONLY <1>1
<1>10. NetInv(m)
  BY <1>2, WithStreamKeeps
<1>11. QED BY ONLY <1>2, <1>6, <1>8, <1>9, <1>10

LEMMA NewDestFields ==
  ASSUME NEW s, NEW o, NEW d, d = [stream |-> s, owner |-> o, waiting |-> FALSE]
  PROVE  d.stream = s /\ d.owner = o /\ d.waiting = FALSE
<1>1. PICK w : w = FALSE
  OBVIOUS
<1>2. d = [stream |-> s, owner |-> o, waiting |-> w]
  BY ONLY <1>1, d = [stream |-> s, owner |-> o, waiting |-> FALSE]
<1>3. d.stream = s /\ d.owner = o /\ d.waiting = w
  BY ONLY <1>2
<1>4. QED BY <1>1, <1>3

\* m has one more destination than n: it is of that owner, and reads s.
OneMoreDest(n, m, s, owner) ==
  /\ m.input = n.input /\ m.running = n.running
  /\ Len(m.dest) = Len(n.dest) + 1
  /\ \A d \in 1 .. Len(n.dest) : m.dest[d] = n.dest[d]
  /\ m.dest[Len(m.dest)].stream = s /\ m.dest[Len(m.dest)].owner = owner
  /\ m.dest[Len(m.dest)].waiting = FALSE

LEMMA WithDestFields ==
  ASSUME NEW n, NetInv(n), NEW s \in 1 .. Len(n.stream), NEW owner
  PROVE  \E m : /\ m = WithDest(n, s, owner) /\ NetInv(m) /\ m.stream = n.stream
                /\ OneMoreDest(n, m, s, owner)
<1>1. PICK m : m = WithDest(n, s, owner)
  OBVIOUS
<1>2. PICK d : d = [stream |-> s, owner |-> owner, waiting |-> FALSE]
  OBVIOUS
<1>3. m = [n EXCEPT !.dest = Append(n.dest, d)]
  BY ONLY <1>1, <1>2 DEF WithDest
<1>4. n = [stream |-> n.stream, order |-> n.order, dest |-> n.dest,
           input |-> n.input, running |-> n.running]
  BY DEF NetInv, IsNet
<1>5. /\ m.dest = Append(n.dest, d) /\ m.stream = n.stream
      /\ m.input = n.input /\ m.running = n.running
  BY ONLY <1>3, <1>4
<1>6. IsSeq(n.dest)
  BY DEF NetInv
<1>7. /\ Len(m.dest) = Len(n.dest) + 1 /\ m.dest[Len(n.dest) + 1] = d
      /\ \A e \in 1 .. Len(n.dest) : m.dest[e] = n.dest[e]
  BY ONLY <1>5, <1>6, AppendIs
<1>8. d.stream = s /\ d.owner = owner /\ d.waiting = FALSE
  BY ONLY <1>2, NewDestFields
<1>9. NetInv(m)
  BY <1>1, WithDestKeeps
<1>10. OneMoreDest(n, m, s, owner)
  BY ONLY <1>5, <1>7, <1>8 DEF OneMoreDest
<1>11. QED BY ONLY <1>1, <1>5, <1>9, <1>10

LEMMA WithConversionFields ==
  ASSUME NEW n, NetInv(n), NEW s \in 1 .. Len(n.stream),
         NEW i \in 1 .. Len(n.order), n.order[i] = s
  PROVE  \E m : /\ m = WithConversion(n, s) /\ NetInv(m)
                /\ Len(m.stream) = Len(n.stream) + 1
                /\ \A t \in 1 .. Len(n.stream) : m.stream[t] = n.stream[t]
                /\ m.stream[Len(m.stream)].owner = None
                /\ m.stream[Len(m.stream)].feed = Len(m.dest)
                /\ OneMoreDest(n, m, s, None)
<1>1. PICK x, none : none = None /\ x = [name |-> n.stream[s].name, format |-> "rgb24",
                                         owner |-> none, feed |-> Len(n.dest) + 1]
  OBVIOUS
<1>2. PICK d : d = [stream |-> s, owner |-> none, waiting |-> FALSE]
  OBVIOUS
<1>3. PICK here : here = CHOOSE j \in 1 .. Len(n.order) : n.order[j] = s
  OBVIOUS
<1>4. PICK o : o = SubSeq(n.order, 1, here) \o <<Len(n.stream) + 1>>
                     \o SubSeq(n.order, here + 1, Len(n.order))
  OBVIOUS
<1>5. PICK m : m = WithConversion(n, s)
  OBVIOUS
<1>6. m = [n EXCEPT !.stream = Append(n.stream, x), !.order = o, !.dest = Append(n.dest, d)]
  BY ONLY <1>1, <1>2, <1>3, <1>4, <1>5 DEF WithConversion
<1>7. n = [stream |-> n.stream, order |-> n.order, dest |-> n.dest,
           input |-> n.input, running |-> n.running]
  BY DEF NetInv, IsNet
<1>8. /\ m.stream = Append(n.stream, x) /\ m.dest = Append(n.dest, d)
      /\ m.input = n.input /\ m.running = n.running
  BY ONLY <1>6, <1>7
<1>9. IsSeq(n.stream) /\ IsSeq(n.dest)
  BY DEF NetInv
<1>10. /\ Len(m.stream) = Len(n.stream) + 1 /\ m.stream[Len(n.stream) + 1] = x
       /\ \A t \in 1 .. Len(n.stream) : m.stream[t] = n.stream[t]
  BY ONLY <1>8, <1>9, AppendIs
<1>11. /\ Len(m.dest) = Len(n.dest) + 1 /\ m.dest[Len(n.dest) + 1] = d
       /\ \A e \in 1 .. Len(n.dest) : m.dest[e] = n.dest[e]
  BY ONLY <1>8, <1>9, AppendIs
<1>12. x.owner = none /\ x.feed = Len(n.dest) + 1
  BY ONLY <1>1
<1>13. d.stream = s /\ d.owner = none /\ d.waiting = FALSE
  BY ONLY <1>2, NewDestFields
<1>14. NetInv(m)
  BY <1>5, WithConversionKeeps
<1>15. none = None
  BY <1>1
<1>16. OneMoreDest(n, m, s, none)
  BY ONLY <1>8, <1>11, <1>13 DEF OneMoreDest
<1>17. QED BY ONLY <1>5, <1>10, <1>11, <1>12, <1>14, <1>15, <1>16

Graph(n, bs) == Owned(n, bs) /\ Downwards(n) /\ Runs(n)

\* A block makes a stream: a filter its only one, from what does not wait.
LEMMA WithStreamGraph ==
  ASSUME NEW n, NetInv(n), NEW bs, Len(bs) \in Nat, Graph(n, bs), NEW c \in 1 .. Len(bs),
         bs[c].kind \in Made, bs[c].kind \in Filters => bs[c].out = None,
         n.input[c] > None => n.dest[n.input[c]].waiting = FALSE,
         NEW cs, Len(cs) = Len(bs), bs[c].kind \in Filters => cs[c].out # None,
         \A b \in 1 .. Len(bs) : cs[b].kind = bs[b].kind /\ (bs[b].out # None => cs[b].out # None),
         NEW name, NEW format
  PROVE  Graph(WithStream(n, name, format, c), cs)
<1>1. PICK m : /\ m = WithStream(n, name, format, c) /\ NetInv(m)
               /\ m.dest = n.dest /\ m.input = n.input /\ m.running = n.running
               /\ Len(m.stream) = Len(n.stream) + 1
               /\ \A s \in 1 .. Len(n.stream) : m.stream[s] = n.stream[s]
               /\ m.stream[Len(m.stream)].owner = c
               /\ m.stream[Len(m.stream)].format = format
  BY WithStreamFields
<1>2. PICK k \in Nat : k = Len(n.stream)
  BY NetLengths
<1>3. \A s \in 1 .. Len(m.stream) : s \in 1 .. k \/ s = k + 1
  BY <1>1, <1>2
<1>4. Owned(n, cs)
  BY OwnedKept DEF Graph
<1>5. c # None
  BY DEF None
<1>6. ASSUME NEW s \in 1 .. Len(m.stream) PROVE Belongs(m, cs, s)
  <2>1. CASE s \in 1 .. k
    <3>1. Belongs(n, cs, s) /\ m.stream[s] = n.stream[s] /\ m.dest = n.dest
      BY <1>1, <1>2, <1>4, <2>1 DEF Owned
    <3>2. QED BY ONLY <3>1 DEF Belongs
  <2>2. CASE s = k + 1
    BY <1>1, <1>2, <1>5, <2>2 DEF Belongs
  <2>3. QED BY <1>3, <2>1, <2>2
<1>7. ASSUME NEW s \in 1 .. Len(n.stream), n.stream[s].owner = c, cs[c].kind \in Filters
      PROVE  FALSE
  BY <1>5, <1>7 DEF Graph, Owned, Belongs
<1>8. ASSUME NEW s \in 1 .. Len(m.stream), NEW t \in 1 .. Len(m.stream),
             m.stream[s].owner = m.stream[t].owner,
             IF m.stream[s].owner = None THEN m.stream[s].feed = m.stream[t].feed
             ELSE cs[m.stream[s].owner].kind \in Filters
      PROVE  s = t
  <2>1. CASE s \in 1 .. k /\ t \in 1 .. k
    BY <1>1, <1>2, <1>4, <1>8, <2>1 DEF Owned
  <2>2. CASE s \in 1 .. k /\ t = k + 1
    BY <1>1, <1>2, <1>5, <1>7, <1>8, <2>2
  <2>3. CASE s = k + 1 /\ t \in 1 .. k
    BY <1>1, <1>2, <1>5, <1>7, <1>8, <2>3
  <2>4. QED BY <1>3, <2>1, <2>2, <2>3
<1>9. Owned(m, cs)
  <2>1. \A b \in 1 .. Len(cs) : Plugs(m, cs, b)
    BY <1>1, <1>4 DEF Owned, Plugs
  <2>2. IsSeq(m.input) /\ Len(m.input) = Len(cs)
    BY <1>1, <1>4 DEF Owned
  <2>3. QED BY ONLY <1>6, <1>8, <2>1, <2>2 DEF Owned
<1>10. \A s \in 1 .. k : Up(m, s) = Up(n, s)
  BY <1>1, <1>2 DEF Up
<1>11. PICK j : j = k + 1
  OBVIOUS
<1>12. Idle(m, j)
  <2>1. j \notin 1 .. Len(n.stream)
    BY <1>2, <1>11
  <2>2. j \notin n.running /\ ~ WaitedIn(n, j)
    BY <2>1, NobodyWaits DEF Graph
  <2>3. ~ WaitedIn(m, j)
    BY <1>1, <2>2 DEF WaitedIn
  <2>4. Up(m, j) = n.input[c]
    BY <1>1, <1>2, <1>11, <1>5 DEF Up
  <2>5. n.input[c] \in Wild .. Len(n.dest)
    BY DEF Graph, Owned, Plugs
  <2>6. QED BY <1>1, <2>2, <2>3, <2>4, <2>5 DEF Idle
<1>13. \A d \in 1 .. Len(n.dest) : n.dest[d].stream \in 1 .. k
  BY <1>2 DEF NetInv
<1>14. Grown(n, m)
  <2>1. Len(n.dest) \in Nat
    BY NetLengths
  <2>2. ASSUME NEW s \in 1 .. Len(m.stream)
        PROVE  Idle(m, s) \/ (s \in 1 .. Len(n.stream) /\ Up(m, s) = Up(n, s))
    <3>1. s \in 1 .. k \/ s = j
      BY <1>3, <1>11
    <3>2. CASE s = j
      BY <1>12, <3>2
    <3>3. CASE s \in 1 .. k
      BY <1>2, <1>10, <3>3
    <3>4. QED BY <3>1, <3>2, <3>3
  <2>3. \A d \in 1 .. Len(n.dest) :
          m.dest[d] = n.dest[d] /\ Up(m, n.dest[d].stream) = Up(n, n.dest[d].stream)
    BY <1>1, <1>10, <1>13
  <2>4. \A d \in Len(n.dest) + 1 .. Len(m.dest) : FALSE
    BY <1>1, <2>1
  <2>5. m.running = n.running /\ Len(n.stream) <= Len(m.stream) /\ Len(n.dest) <= Len(m.dest)
    BY <1>1, <1>2, <2>1
  <2>6. QED BY <2>2, <2>3, <2>4, <2>5 DEF Grown
<1>15. Downwards(m) /\ Runs(m)
  BY <1>1, <1>14, GrownRuns DEF Graph
<1>16. QED BY <1>1, <1>9, <1>15 DEF Graph

LEMMA WithDestGraph ==
  ASSUME NEW n, NetInv(n), NEW bs, Len(bs) \in Nat, Graph(n, bs), NEW s \in 1 .. Len(n.stream),
         NEW owner
  PROVE  Graph(WithDest(n, s, owner), bs)
<1>1. PICK m : /\ m = WithDest(n, s, owner) /\ NetInv(m) /\ m.stream = n.stream
               /\ OneMoreDest(n, m, s, owner)
  BY WithDestFields
<1>2. /\ m = WithDest(n, s, owner) /\ NetInv(m)
      /\ m.stream = n.stream /\ m.input = n.input /\ m.running = n.running
      /\ Len(m.dest) = Len(n.dest) + 1
      /\ \A d \in 1 .. Len(n.dest) : m.dest[d] = n.dest[d]
      /\ m.dest[Len(m.dest)].stream = s /\ m.dest[Len(m.dest)].owner = owner
      /\ m.dest[Len(m.dest)].waiting = FALSE
  BY <1>1 DEF OneMoreDest
<1>3. PICK k \in Nat : k = Len(n.dest)
  BY NetLengths
<1>4. Owned(n, bs) /\ Downwards(n)
  BY DEF Graph
<1>5. PICK l \in Nat : l = k + 1
  BY <1>3
<1>6. l = Len(m.dest) /\ k <= l
  BY <1>2, <1>3, <1>5
<1>7. \A d \in 1 .. k : m.dest[d] = n.dest[d]
  BY <1>2, <1>3
<1>8. /\ \A t : Belongs(n, bs, t) /\ m.stream[t] = n.stream[t] => Belongs(m, bs, t)
      /\ \A b : Plugs(n, bs, b) /\ m.input[b] = n.input[b] => Plugs(m, bs, b)
  BY ONLY <1>7, <1>3, <1>6, k \in Nat, l \in Nat, OwnedOn
<1>9. \A t \in 1 .. Len(m.stream) : Belongs(m, bs, t)
  BY <1>2, <1>4, <1>8 DEF Owned
<1>10. \A b \in 1 .. Len(bs) : Plugs(m, bs, b)
  BY <1>2, <1>4, <1>8 DEF Owned
<1>11. Owned(m, bs)
  BY <1>2, <1>4, <1>9, <1>10 DEF Owned
<1>12. \A t : Up(m, t) = Up(n, t)
  BY <1>2, UpSame
<1>13. Up(n, s) \in Wild .. k
  BY <1>3, <1>4 DEF Downwards
<1>14. \A d \in k + 1 .. Len(m.dest) : d = k + 1 /\ d = Len(m.dest) /\ d - 1 = k
  BY <1>2, <1>3
<1>15. Grown(n, m)
  <2>1. Len(n.stream) \in Nat
    BY NetLengths
  <2>2. ASSUME NEW d \in k + 1 .. Len(m.dest)
        PROVE  m.dest[d].waiting = FALSE /\ Up(m, m.dest[d].stream) \in Wild .. d - 1
    BY <1>2, <1>12, <1>13, <1>14
  <2>3. QED BY <1>2, <1>3, <1>12, <2>1, <2>2 DEF Grown
<1>16. Downwards(m) /\ Runs(m)
  BY <1>2, <1>15, GrownRuns DEF Graph
<1>17. QED BY <1>2, <1>11, <1>16 DEF Graph

LEMMA WithConversionGraph ==
  ASSUME NEW n, NetInv(n), NEW bs, Len(bs) \in Nat, Graph(n, bs), NEW s \in 1 .. Len(n.stream),
         NEW i \in 1 .. Len(n.order), n.order[i] = s
  PROVE  Graph(WithConversion(n, s), bs)
<1>1. PICK m : /\ m = WithConversion(n, s) /\ NetInv(m)
               /\ Len(m.stream) = Len(n.stream) + 1
               /\ \A t \in 1 .. Len(n.stream) : m.stream[t] = n.stream[t]
               /\ m.stream[Len(m.stream)].owner = None
               /\ m.stream[Len(m.stream)].feed = Len(m.dest)
               /\ OneMoreDest(n, m, s, None)
  BY WithConversionFields
<1>2. /\ m.input = n.input /\ m.running = n.running
      /\ Len(m.dest) = Len(n.dest) + 1
      /\ \A d \in 1 .. Len(n.dest) : m.dest[d] = n.dest[d]
      /\ m.dest[Len(m.dest)].stream = s /\ m.dest[Len(m.dest)].owner = None
      /\ m.dest[Len(m.dest)].waiting = FALSE
  BY <1>1 DEF OneMoreDest
<1>3. PICK h, k \in Nat : h = Len(n.stream) /\ k = Len(n.dest)
  BY NetLengths
<1>4. PICK j, l \in Nat : j = h + 1 /\ l = k + 1
  OBVIOUS
<1>5. Len(m.stream) = j /\ Len(m.dest) = l
  BY <1>1, <1>2, <1>3, <1>4
<1>6. Owned(n, bs) /\ Downwards(n) /\ Runs(n)
  BY DEF Graph
<1>7. \A t \in 1 .. j : t \in 1 .. h \/ t = j
  BY <1>4
<1>8. \A d \in 1 .. k : m.dest[d] = n.dest[d]
  BY <1>2, <1>3
<1>9. /\ \A t : Belongs(n, bs, t) /\ m.stream[t] = n.stream[t] => Belongs(m, bs, t)
      /\ \A b : Plugs(n, bs, b) /\ m.input[b] = n.input[b] => Plugs(m, bs, b)
  <2>1. k <= l
    BY <1>4
  <2>2. k = Len(n.dest) /\ l = Len(m.dest)
    BY <1>3, <1>5
  <2>3. QED BY ONLY <1>8, <2>1, <2>2, k \in Nat, l \in Nat, OwnedOn
<1>10. \A t \in 1 .. h : Belongs(n, bs, t) /\ m.stream[t] = n.stream[t]
  BY <1>1, <1>3, <1>6 DEF Owned
<1>11. Belongs(m, bs, j)
  <2>1. l \in 1 .. l
    BY <1>4
  <2>2. QED BY <1>1, <1>2, <1>5, <2>1 DEF Belongs
<1>12. ASSUME NEW t \in 1 .. j PROVE Belongs(m, bs, t)
  BY <1>7, <1>9, <1>10, <1>11
<1>13. \A b \in 1 .. Len(bs) : Plugs(m, bs, b)
  BY <1>2, <1>6, <1>9 DEF Owned
\* the new feed is nobody else's
<1>14. ASSUME NEW t \in 1 .. h, n.stream[t].owner = None PROVE n.stream[t].feed # l
  <2>1. n.stream[t].feed \in 1 .. k
    BY <1>3, <1>10, <1>14 DEF Belongs
  <2>2. QED BY <1>4, <2>1
<1>15. ASSUME NEW t \in 1 .. j, NEW u \in 1 .. j, m.stream[t].owner = m.stream[u].owner,
              IF m.stream[t].owner = None THEN m.stream[t].feed = m.stream[u].feed
              ELSE bs[m.stream[t].owner].kind \in Filters
       PROVE  t = u
  <2>1. CASE t \in 1 .. h /\ u \in 1 .. h
    <3>1. m.stream[t] = n.stream[t] /\ m.stream[u] = n.stream[u]
      BY <1>10, <2>1
    <3>2. QED BY <1>3, <1>6, <1>15, <2>1, <3>1 DEF Owned
  <2>2. CASE t \in 1 .. h /\ u = j
    BY <1>1, <1>5, <1>10, <1>14, <1>15, <2>2
  <2>3. CASE t = j /\ u \in 1 .. h
    BY <1>1, <1>5, <1>10, <1>14, <1>15, <2>3
  <2>4. QED BY <1>7, <2>1, <2>2, <2>3
<1>16. Owned(m, bs)
  BY <1>2, <1>5, <1>6, <1>12, <1>13, <1>15 DEF Owned
<1>17. ASSUME NEW t \in 1 .. h PROVE Up(m, t) = Up(n, t)
  BY <1>2, <1>10 DEF Up
<1>18. Idle(m, j)
  <2>1. j \notin 1 .. Len(n.stream)
    BY <1>3, <1>4
  <2>2. j \notin n.running /\ ~ WaitedIn(n, j)
    BY <1>6, <2>1, NobodyWaits
  <2>3. \A d \in 1 .. l : d \in 1 .. k \/ d = l
    BY <1>4
  <2>4. m.dest[l].waiting = FALSE
    BY <1>2, <1>5
  <2>5. ~ WaitedIn(m, j)
    BY <1>3, <1>5, <1>8, <2>2, <2>3, <2>4 DEF WaitedIn
  <2>6. Up(m, j) = l
    BY <1>1, <1>5 DEF Up
  <2>7. l \in Wild .. l
    BY <1>4 DEF Wild
  <2>8. QED BY <1>2, <1>5, <2>2, <2>4, <2>5, <2>6, <2>7 DEF Idle
<1>19. Grown(n, m)
  <2>1. ASSUME NEW t \in 1 .. Len(m.stream)
        PROVE  Idle(m, t) \/ (t \in 1 .. Len(n.stream) /\ Up(m, t) = Up(n, t))
    <3>1. t \in 1 .. h \/ t = j
      BY <1>5, <1>7
    <3>2. CASE t = j
      BY <1>18, <3>2
    <3>3. CASE t \in 1 .. h
      BY <1>3, <1>17, <3>3
    <3>4. QED BY <3>1, <3>2, <3>3
  <2>2. ASSUME NEW d \in 1 .. Len(n.dest)
        PROVE  m.dest[d] = n.dest[d] /\ Up(m, n.dest[d].stream) = Up(n, n.dest[d].stream)
    BY <1>2, <1>3, <1>17 DEF NetInv
  <2>3. ASSUME NEW d \in Len(n.dest) + 1 .. Len(m.dest)
        PROVE  m.dest[d].waiting = FALSE /\ Up(m, m.dest[d].stream) \in Wild .. d - 1
    <3>1. d = l /\ d - 1 = k
      BY <1>3, <1>4, <1>5
    <3>2. m.dest[d].waiting = FALSE /\ m.dest[d].stream = s
      BY <1>2, <1>5, <3>1
    <3>3. Up(m, s) = Up(n, s) /\ Up(n, s) \in Wild .. k
      BY <1>3, <1>6, <1>17 DEF Downwards
    <3>4. QED BY <3>1, <3>2, <3>3
  <2>4. m.running = n.running /\ Len(n.stream) <= Len(m.stream) /\ Len(n.dest) <= Len(m.dest)
    BY <1>2, <1>3, <1>4, <1>5
  <2>5. QED BY <2>1, <2>2, <2>3, <2>4 DEF Grown
<1>20. Downwards(m) /\ Runs(m)
  BY <1>1, <1>6, <1>19, GrownRuns
<1>21. QED BY <1>1, <1>16, <1>20 DEF Graph

\* Nobody reads what block c makes, and nothing it makes can be asked for in one of the
\* formats, by name or converted.
Unheard(n, c) == \A d \in 1 .. Len(n.dest) : n.stream[n.dest[d].stream].owner # c

Unlike(n, c, formats) ==
  \A s \in 1 .. Len(n.stream) :
    n.stream[s].owner = c => /\ n.stream[s].format \notin formats
                             /\ "rgb24" \in formats => n.stream[s].format # "uyvy"

\* m has a last destination that n has not, of that owner, which does not wait; what else
\* is new belongs to a conversion.
Joined(n, m, owner) ==
  /\ m.input = n.input
  /\ Len(n.dest) < Len(m.dest) /\ \A d \in 1 .. Len(n.dest) : m.dest[d] = n.dest[d]
  /\ m.dest[Len(m.dest)].owner = owner /\ m.dest[Len(m.dest)].waiting = FALSE
  /\ \A s \in 1 .. Len(m.stream) :
       (s \in 1 .. Len(n.stream) /\ m.stream[s] = n.stream[s]) \/ m.stream[s].owner = None

LEMMA ConnectGraph ==
  ASSUME NEW n, NetInv(n), NEW bs, Len(bs) \in Nat, Graph(n, bs),
         NEW name, NEW formats, NEW owner, CanConnect(n, name, formats)
  PROVE  \E m : /\ m = Connect(n, name, formats, owner) /\ NetInv(m)
                /\ Graph(m, bs) /\ Joined(n, m, owner)
                /\ \A c : c # None /\ Unheard(n, c) /\ Unlike(n, c, formats) => Unheard(m, c)
<1>1. PICK m : m = Connect(n, name, formats, owner)
  OBVIOUS
<1>2. PICK h, k \in Nat : h = Len(n.stream) /\ k = Len(n.dest)
  BY NetLengths
<1>3. CASE Named(n, name, formats) # {}
  <2>1. PICK i \in 1 .. Len(n.order) :
           /\ i = Least(Named(n, name, formats)) /\ n.order[i] \in 1 .. Len(n.stream)
           /\ n.stream[n.order[i]].format \in formats
    BY <1>3, NamedPlaces
  <2>2. PICK s \in 1 .. Len(n.stream) : s = n.order[i]
    BY <2>1
  <2>3. m = WithDest(n, s, owner)
    BY <1>1, <1>3, <2>1, <2>2 DEF Connect
  <2>4. NetInv(m) /\ m.stream = n.stream /\ OneMoreDest(n, m, s, owner)
    BY <2>3, WithDestFields
  <2>5. Graph(m, bs)
    BY <2>3, WithDestGraph
  <2>6. Joined(n, m, owner)
    BY <1>2, <2>4 DEF Joined, OneMoreDest
  <2>7. ASSUME NEW c, c # None, Unheard(n, c), Unlike(n, c, formats) PROVE Unheard(m, c)
    <3>1. n.stream[s].owner # c
      BY <2>1, <2>2, <2>7 DEF Unlike
    <3>2. ASSUME NEW d \in 1 .. Len(m.dest) PROVE m.stream[m.dest[d].stream].owner # c
      <4>1. d \in 1 .. k \/ d = Len(m.dest)
        BY <1>2, <2>4 DEF OneMoreDest
      <4>2. CASE d \in 1 .. k
        BY <1>2, <2>4, <2>7, <4>2 DEF Unheard, OneMoreDest
      <4>3. CASE d = Len(m.dest)
        BY <2>4, <3>1, <4>3 DEF OneMoreDest
      <4>4. QED BY <4>1, <4>2, <4>3
    <3>3. QED BY <3>2 DEF Unheard
  <2>8. QED BY <1>1, <2>4, <2>5, <2>6, <2>7
<1>4. CASE Named(n, name, formats) = {}
  <2>1. "rgb24" \in formats /\ Named(n, name, {"uyvy"}) # {}
    BY <1>4 DEF CanConnect, Raw
  <2>2. PICK i \in 1 .. Len(n.order) :
           /\ i = Least(Named(n, name, {"uyvy"})) /\ n.order[i] \in 1 .. Len(n.stream)
           /\ n.stream[n.order[i]].format \in {"uyvy"}
    BY <2>1, NamedPlaces
  <2>3. PICK s \in 1 .. Len(n.stream) : s = n.order[i]
    BY <2>2
  <2>4. PICK l : /\ l = WithConversion(n, s) /\ NetInv(l)
                 /\ Len(l.stream) = Len(n.stream) + 1
                 /\ \A t \in 1 .. Len(n.stream) : l.stream[t] = n.stream[t]
                 /\ l.stream[Len(l.stream)].owner = None
                 /\ l.stream[Len(l.stream)].feed = Len(l.dest)
                 /\ OneMoreDest(n, l, s, None)
    BY <2>3, WithConversionFields
  <2>5. Graph(l, bs)
    BY <2>3, <2>4, WithConversionGraph
  <2>6. Raw(n, name, formats) = Named(n, name, {"uyvy"})
    BY <2>1 DEF Raw
  <2>7. PICK j : j = h + 1
    OBVIOUS
  <2>8. j \in 1 .. Len(l.stream) /\ Len(l.stream) = j
    BY <1>2, <2>4, <2>7
  <2>9. m = WithDest(l, j, owner)
    BY <1>1, <1>2, <1>4, <2>2, <2>3, <2>4, <2>6, <2>7 DEF Connect
  <2>10. NetInv(m) /\ m.stream = l.stream /\ OneMoreDest(l, m, j, owner)
    BY <2>4, <2>8, <2>9, WithDestFields
  <2>11. Graph(m, bs)
    BY <2>4, <2>5, <2>8, <2>9, WithDestGraph
  <2>12. Len(l.dest) = k + 1 /\ Len(m.dest) = k + 2
    BY <1>2, <2>4, <2>10 DEF OneMoreDest
  <2>13. \A d \in 1 .. k : l.dest[d] = n.dest[d] /\ m.dest[d] = n.dest[d]
    BY SMTT(60), <1>2, <2>4, <2>10, <2>12 DEF OneMoreDest
  <2>14. \A t \in 1 .. Len(m.stream) : (t \in 1 .. h /\ m.stream[t] = n.stream[t]) \/ t = j
    BY <1>2, <2>4, <2>7, <2>8, <2>10
  <2>15. m.stream[j].owner = None
    BY <2>4, <2>8, <2>10
  <2>16. Joined(n, m, owner)
    <3>1. m.input = n.input
      BY <2>4, <2>10 DEF OneMoreDest
    <3>2. m.dest[Len(m.dest)].owner = owner /\ m.dest[Len(m.dest)].waiting = FALSE
      BY <2>10 DEF OneMoreDest
    <3>3. Len(n.dest) < Len(m.dest)
      BY <1>2, <2>12
    <3>4. QED BY <1>2, <2>13, <2>14, <2>15, <3>1, <3>2, <3>3 DEF Joined
  <2>17. ASSUME NEW c, c # None, Unheard(n, c), Unlike(n, c, formats) PROVE Unheard(m, c)
    <3>1. n.stream[s].owner # c
      BY <2>1, <2>2, <2>3, <2>17 DEF Unlike
    <3>2. ASSUME NEW d \in 1 .. Len(m.dest) PROVE m.stream[m.dest[d].stream].owner # c
      <4>1. d \in 1 .. k \/ d = Len(l.dest) \/ d = Len(m.dest)
        BY <1>2, <2>12
      <4>2. CASE d \in 1 .. k
        <5>1. n.dest[d].stream \in 1 .. Len(n.stream)
          BY <1>2, <4>2 DEF NetInv
        <5>2. m.dest[d] = n.dest[d]
          BY ONLY <2>13, <4>2
        <5>3. m.stream[m.dest[d].stream] = n.stream[n.dest[d].stream]
          BY ONLY <2>4, <2>10, <5>1, <5>2
        <5>4. n.stream[n.dest[d].stream].owner # c
          BY ONLY <1>2, <2>17, <4>2 DEF Unheard
        <5>5. QED BY ONLY <5>3, <5>4
      <4>3. CASE d = Len(l.dest)
        <5>1. m.dest[d] = l.dest[d] /\ l.dest[d].stream = s
          BY SMTT(30), <1>2, <2>4, <2>10, <2>12, <4>3 DEF OneMoreDest
        <5>2. QED BY <2>4, <2>10, <3>1, <5>1
      <4>4. CASE d = Len(m.dest)
        BY <2>10, <2>15, <2>17, <4>4 DEF OneMoreDest
      <4>5. QED BY <4>1, <4>2, <4>3, <4>4
    <3>3. QED BY <3>2 DEF Unheard
  <2>18. QED BY <1>1, <2>10, <2>11, <2>16, <2>17
<1>5. QED BY <1>3, <1>4

WithInput(n, i) == [n EXCEPT !.input = i]

\* Block c may read destination d, which is its own and does not wait, or none.
Readable(n, c, d) ==
  d = None \/ (d \in 1 .. Len(n.dest) /\ n.dest[d].owner = c /\ n.dest[d].waiting = FALSE)

\* The input of a block is set, or set to none, while nobody reads what it makes.
LEMMA InputGraph ==
  ASSUME NEW n, NetInv(n), NEW bs, Len(bs) \in Nat, Graph(n, bs), NEW c \in 1 .. Len(bs),
         bs[c].kind \in Filters \cup {"http"}, n.input[c] <= None, Unheard(n, c),
         NEW d, Readable(n, c, d)
  PROVE  /\ Graph(WithInput(n, Put(n.input, c, d)), bs)
         /\ WithInput(n, Put(n.input, c, d)).input[c] = d
<1>1. n = [stream |-> n.stream, order |-> n.order, dest |-> n.dest,
           input |-> n.input, running |-> n.running]
  BY DEF NetInv, IsNet
<1>2. PICK i : i = Put(n.input, c, d)
  OBVIOUS
<1>3. PICK m : m = WithInput(n, i)
  OBVIOUS
<1>4. m = [n EXCEPT !.input = i]
  BY <1>3 DEF WithInput
<1>5. /\ m.stream = n.stream /\ m.dest = n.dest /\ m.running = n.running /\ m.input = i
  BY ONLY <1>1, <1>4
<1>6. IsSeq(n.input) /\ Len(n.input) = Len(bs)
  BY DEF Graph, Owned
<1>7. c \in 1 .. Len(n.input)
  BY <1>6
<1>8. /\ IsSeq(i) /\ Len(i) = Len(n.input) /\ i[c] = d
      /\ \A b \in 1 .. Len(n.input) : b # c => i[b] = n.input[b]
  BY ONLY <1>2, <1>6, <1>7, ExceptIs
<1>9. PICK k \in Nat : k = Len(n.dest)
  BY NetLengths
<1>10. /\ d \in Wild .. k /\ (d > None <=> d # None)
       /\ d # None => n.dest[d].owner = c /\ n.dest[d].waiting = FALSE
  BY <1>9 DEF Readable, Wild, None
<1>11. ASSUME NEW b \in 1 .. Len(bs) PROVE Plugs(m, bs, b)
  <2>1. CASE b = c
    BY <1>5, <1>8, <1>9, <1>10, <2>1 DEF Plugs
  <2>2. CASE b # c
    <3>1. Plugs(n, bs, b) /\ i[b] = n.input[b]
      BY <1>6, <1>8, <2>2 DEF Graph, Owned
    <3>2. QED BY ONLY <1>5, <3>1 DEF Plugs
  <2>3. QED BY <2>1, <2>2
<1>12. ASSUME NEW s \in 1 .. Len(m.stream) PROVE Belongs(m, bs, s)
  <2>1. Belongs(n, bs, s)
    BY <1>5 DEF Graph, Owned
  <2>2. QED BY ONLY <1>5, <2>1 DEF Belongs
<1>13. Owned(m, bs)
  BY <1>5, <1>6, <1>8, <1>11, <1>12 DEF Graph, Owned
<1>14. c # None
  BY DEF None
<1>15. ASSUME NEW s \in 1 .. Len(n.stream), n.stream[s].owner # c PROVE Up(m, s) = Up(n, s)
  <2>1. CASE n.stream[s].owner = None
    BY <1>5, <2>1 DEF Up
  <2>2. CASE n.stream[s].owner # None
    <3>1. n.stream[s].owner \in 1 .. Len(bs)
      BY <2>2 DEF Graph, Owned, Belongs
    <3>2. QED BY <1>5, <1>6, <1>8, <1>15, <2>2, <3>1 DEF Up
  <2>3. QED BY <2>1, <2>2
<1>16. ASSUME NEW s \in 1 .. Len(n.stream), n.stream[s].owner = c PROVE Idle(m, s)
  <2>1. Up(n, s) = n.input[c] /\ Up(m, s) = d
    BY <1>5, <1>8, <1>14, <1>16 DEF Up
  <2>2. \A e \in 1 .. Len(n.dest) : n.dest[e].stream # s
    BY <1>16 DEF Unheard
  <2>3. s \notin n.running /\ ~ WaitedIn(n, s)
    BY <2>1, <2>2, NobodyWaits DEF Graph
  <2>4. ~ WaitedIn(m, s)
    BY <1>5, <2>3 DEF WaitedIn
  <2>5. QED BY <1>5, <1>9, <1>10, <2>1, <2>3, <2>4 DEF Idle
<1>17. NetInv(m)
  BY <1>4, InputKeeps
<1>18. Grown(n, m)
  <2>1. ASSUME NEW s \in 1 .. Len(m.stream)
        PROVE  Idle(m, s) \/ (s \in 1 .. Len(n.stream) /\ Up(m, s) = Up(n, s))
    BY <1>5, <1>15, <1>16
  <2>2. ASSUME NEW e \in 1 .. Len(n.dest)
        PROVE  m.dest[e] = n.dest[e] /\ Up(m, n.dest[e].stream) = Up(n, n.dest[e].stream)
    BY <1>5, <1>15 DEF NetInv, Unheard
  <2>3. \A e \in Len(n.dest) + 1 .. Len(m.dest) : FALSE
    BY <1>5, <1>9
  <2>4. m.running = n.running /\ Len(n.stream) <= Len(m.stream) /\ Len(n.dest) <= Len(m.dest)
    BY <1>5, NetLengths
  <2>5. QED BY <2>1, <2>2, <2>3, <2>4 DEF Grown
<1>19. Downwards(m) /\ Runs(m)
  BY <1>17, <1>18, GrownRuns DEF Graph
<1>20. Graph(m, bs) /\ m.input[c] = d
  BY <1>5, <1>8, <1>13, <1>19 DEF Graph
<1>21. QED BY <1>2, <1>3, <1>20

\* set_waiting changes no owner, and keeps the graph when what it is called for is read by
\* a block that makes nothing.
LEMMA SetWaitingGraph ==
  ASSUME NEW n, NetInv(n), NEW bs, Len(bs) \in Nat, Graph(n, bs), NEW d \in Wild .. Len(n.dest),
         d > None => n.dest[d].owner \in 1 .. Len(bs) /\ bs[n.dest[d].owner].kind \notin Made,
         NEW w \in BOOLEAN, ~ MeetsWild(n, d, w)
  PROVE  \E m : /\ m = SetWaiting(n, d, w) /\ NetInv(m) /\ Graph(m, bs)
                /\ m.stream = n.stream /\ m.input = n.input /\ Len(m.dest) = Len(n.dest)
                /\ \A x \in 1 .. Len(n.dest) : m.dest[x].owner = n.dest[x].owner
<1>1. PICK m : /\ m = SetWaiting(n, d, w)
               /\ m.stream = n.stream /\ m.input = n.input /\ Len(m.dest) = Len(n.dest)
               /\ m.running = IF w THEN n.running \cup Told(n, d, w) ELSE n.running \ Told(n, d, w)
               /\ \A x \in 1 .. Len(n.dest) :
                    /\ m.dest[x].stream = n.dest[x].stream /\ m.dest[x].owner = n.dest[x].owner
                    /\ m.dest[x].waiting = IF x \in Changed(n, d, w) THEN w
                                           ELSE n.dest[x].waiting
  BY SetWaitingFields
<1>2. NetInv(m)
  BY <1>1, SetWaitingKeeps
<1>3. Owned(n, bs) /\ Downwards(n) /\ Runs(n) /\ Single(n)
  BY OwnedSingle DEF Graph
<1>4. Leaf(n, d)
  <2>1. CASE d > None
    BY <1>3, <2>1, OwnedLeaf
  <2>2. CASE ~ (d > None)
    BY <2>2 DEF Leaf
  <2>3. QED BY <2>1, <2>2
<1>5. Downwards(m) /\ Runs(m)
  BY <1>1, <1>3, <1>4, SetWaitingGoesUp, SetWaitingRuns
<1>6. PICK k \in Nat : k = Len(n.dest)
  BY NetLengths
<1>7. \A x \in 1 .. k : m.dest[x].owner = n.dest[x].owner
  BY <1>1, <1>6
<1>8. Len(m.dest) = k
  BY <1>1, <1>6
<1>9. ASSUME NEW s \in 1 .. Len(m.stream) PROVE Belongs(m, bs, s)
  <2>1. Belongs(n, bs, s)
    BY <1>1, <1>3 DEF Owned
  <2>2. m.stream = n.stream
    BY <1>1
  <2>3. QED BY ONLY <1>6, <1>7, <1>8, <2>1, <2>2 DEF Belongs
<1>10. ASSUME NEW b \in 1 .. Len(bs) PROVE Plugs(m, bs, b)
  <2>1. Plugs(n, bs, b)
    BY <1>3 DEF Owned
  <2>2. n.input[b] > None => n.input[b] \in 1 .. k
    BY <1>6, <2>1 DEF Plugs, None
  <2>3. QED BY <1>1, <1>6, <1>7, <2>1, <2>2 DEF Plugs
<1>11. Owned(m, bs)
  BY <1>1, <1>3, <1>9, <1>10 DEF Owned
<1>12. QED BY <1>1, <1>2, <1>5, <1>11 DEF Graph

\* A new block owns nothing.
LEMMA BlockGraph ==
  ASSUME NEW n, NetInv(n), NEW bs, Len(bs) \in Nat, Graph(n, bs), NEW v \in {None, Wild},
         NEW m, m = WithInput(n, Append(n.input, v)),
         NEW cs, Len(cs) = Len(bs) + 1, \A b \in 1 .. Len(bs) : cs[b] = bs[b]
  PROVE  /\ Graph(m, cs) /\ m.input[Len(cs)] = v /\ Unheard(m, Len(cs)) /\ m.dest = n.dest
         /\ \A s \in 1 .. Len(m.stream) : m.stream[s].owner # Len(cs)
<1>1. n = [stream |-> n.stream, order |-> n.order, dest |-> n.dest,
           input |-> n.input, running |-> n.running]
  BY DEF NetInv, IsNet
<1>2. PICK i : i = Append(n.input, v)
  OBVIOUS
<1>3. m = [n EXCEPT !.input = i]
  BY <1>2 DEF WithInput
<1>4. /\ m.stream = n.stream /\ m.dest = n.dest /\ m.running = n.running /\ m.input = i
  BY ONLY <1>1, <1>3
<1>5. PICK q \in Nat : q = Len(bs)
  OBVIOUS
<1>6. PICK c : c = q + 1
  OBVIOUS
<1>7. Len(cs) = c /\ c \notin 1 .. q /\ c # None /\ \A b \in 1 .. c : b \in 1 .. q \/ b = c
  BY <1>5, <1>6 DEF None
<1>8. IsSeq(n.input) /\ Len(n.input) = q
  BY <1>5 DEF Graph, Owned
<1>9. /\ IsSeq(i) /\ Len(i) = c /\ i[c] = v /\ \A b \in 1 .. q : i[b] = n.input[b]
  <2>1. /\ IsSeq(i) /\ Len(i) = Len(n.input) + 1 /\ i[Len(n.input) + 1] = v
        /\ \A b \in 1 .. Len(n.input) : i[b] = n.input[b]
    BY ONLY <1>2, <1>8, AppendIs
  <2>2. QED BY <1>6, <1>8, <2>1
<1>10. \A b \in 1 .. q : cs[b] = bs[b]
  BY <1>5
<1>11. \A s \in 1 .. Len(n.stream) : n.stream[s].owner = None \/ n.stream[s].owner \in 1 .. q
  BY <1>5 DEF Graph, Owned, Belongs
<1>12. ASSUME NEW s \in 1 .. Len(m.stream) PROVE Belongs(m, cs, s)
  <2>1. Belongs(n, bs, s)
    BY <1>4 DEF Graph, Owned
  <2>2. \A b \in 1 .. q : b \in 1 .. Len(cs)
    BY <1>6, <1>7
  <2>3. QED BY <1>4, <1>5, <1>10, <1>11, <2>1, <2>2 DEF Belongs
<1>13. ASSUME NEW b \in 1 .. Len(cs) PROVE Plugs(m, cs, b)
  <2>1. CASE b \in 1 .. q
    <3>1. Plugs(n, bs, b)
      BY <1>5, <2>1 DEF Graph, Owned
    <3>2. cs[b] = bs[b] /\ m.input[b] = n.input[b] /\ m.dest = n.dest
      BY <1>4, <1>9, <1>10, <2>1
    <3>3. QED BY ONLY <3>1, <3>2 DEF Plugs
  <2>2. CASE b = c
    <3>1. PICK l \in Nat : l = Len(m.dest)
      BY <1>4, NetLengths
    <3>2. v \in Wild .. l /\ ~ (v > None)
      BY ONLY v \in {None, Wild}, l \in Nat DEF Wild, None
    <3>3. m.input[b] \in Wild .. Len(m.dest) /\ ~ (m.input[b] > None)
      BY <1>4, <1>9, <2>2, <3>1, <3>2
    <3>4. QED BY ONLY <3>3 DEF Plugs
  <2>3. QED BY <1>7, <2>1, <2>2
<1>14. ASSUME NEW s \in 1 .. Len(m.stream), NEW t \in 1 .. Len(m.stream),
              m.stream[s].owner = m.stream[t].owner,
              IF m.stream[s].owner = None THEN m.stream[s].feed = m.stream[t].feed
              ELSE cs[m.stream[s].owner].kind \in Filters
       PROVE  s = t
  BY <1>4, <1>5, <1>10, <1>11, <1>14 DEF Graph, Owned
<1>15. Owned(m, cs)
  <2>1. IsSeq(m.input) /\ Len(m.input) = Len(cs)
    BY <1>4, <1>7, <1>9
  <2>2. QED BY ONLY <1>12, <1>13, <1>14, <2>1 DEF Owned
<1>16. ASSUME NEW s \in 1 .. Len(n.stream) PROVE Up(m, s) = Up(n, s)
  <2>1. CASE n.stream[s].owner = None
    BY <1>4, <2>1 DEF Up
  <2>2. CASE n.stream[s].owner \in 1 .. q
    <3>1. PICK o : o = n.stream[s].owner
      OBVIOUS
    <3>2. o \in 1 .. q /\ o # None
      BY ONLY <2>2, <3>1, q \in Nat DEF None
    <3>3. m.input[o] = n.input[o] /\ o # None
      BY ONLY <1>4, <1>9, <3>2
    <3>4. m.stream[s] = n.stream[s]
      BY <1>4
    <3>5. Up(m, s) = m.input[o] /\ Up(n, s) = n.input[o]
      BY ONLY <3>1, <3>3, <3>4 DEF Up
    <3>6. QED BY <3>3, <3>5
  <2>3. QED BY <1>11, <2>1, <2>2
<1>17. NetInv(m)
  BY <1>3, InputKeeps
<1>18. Grown(n, m)
  <2>1. ASSUME NEW e \in 1 .. Len(n.dest)
        PROVE  m.dest[e] = n.dest[e] /\ Up(m, n.dest[e].stream) = Up(n, n.dest[e].stream)
    BY <1>4, <1>16 DEF NetInv
  <2>2. \A e \in Len(n.dest) + 1 .. Len(m.dest) : FALSE
    BY <1>4, NetLengths
  <2>3. m.running = n.running /\ Len(n.stream) <= Len(m.stream) /\ Len(n.dest) <= Len(m.dest)
    BY <1>4, NetLengths
  <2>4. QED BY <1>4, <1>16, <2>1, <2>2, <2>3 DEF Grown
<1>19. Downwards(m) /\ Runs(m)
  BY <1>17, <1>18, GrownRuns DEF Graph
<1>20. \A s \in 1 .. Len(m.stream) : m.stream[s].owner # c
  BY <1>4, <1>7, <1>11
<1>21. Unheard(m, c)
  BY <1>4, <1>20 DEF Unheard, NetInv
<1>22. QED BY <1>4, <1>7, <1>9, <1>15, <1>19, <1>20, <1>21 DEF Graph

LEMMA FilterKinds ==
  \A k \in Filters : k \in {"jpeg", "mpeg4", "decoder", "mp2", "alaw", "framedrop"}
<1>1. ASSUME NEW k \in DOMAIN Module, Module[k].role = "filter"
      PROVE  k \in {"jpeg", "mpeg4", "decoder", "mp2", "alaw", "framedrop"}
  <2>1. k \in {"video", "audio", "v4l", "v4l2", "vdig", "dc1394", "oss", "rtp", "rtsp", "jpeg",
               "mpeg4", "decoder", "mp2", "alaw", "framedrop", "http", "live", "log"}
    BY DEF Module
  <2>2. /\ Module["video"] = VideoModule /\ Module["audio"] = AudioModule
        /\ Module["v4l"] = V4lModule /\ Module["v4l2"] = V4l2Module
        /\ Module["vdig"] = VdigModule /\ Module["dc1394"] = Dc1394Module
        /\ Module["oss"] = OssModule /\ Module["rtp"] = RtpModule /\ Module["rtsp"] = RtspModule
        /\ Module["http"] = HttpModule /\ Module["live"] = LiveModule /\ Module["log"] = LogModule
    BY DEF Module
  <2>3. /\ VideoModule.role = "source" /\ AudioModule.role = "source" /\ V4lModule.role = "source"
        /\ V4l2Module.role = "source" /\ VdigModule.role = "source"
        /\ Dc1394Module.role = "source" /\ OssModule.role = "source" /\ RtpModule.role = "source"
        /\ RtspModule.role = "source"
    BY DEF VideoModule, AudioModule, V4lModule, V4l2Module, VdigModule, Dc1394Module, OssModule,
           RtpModule, RtspModule, Source, Plain
  <2>4. HttpModule.role = "other" /\ LiveModule.role = "other" /\ LogModule.role = "other"
    BY DEF HttpModule, LiveModule, LogModule, Plain
  <2>5. QED BY <1>1, <2>1, <2>2, <2>3, <2>4
<1>2. QED BY <1>1 DEF Filters

\* What a filter makes, but for framedrop, it does not read.
LEMMA FilterFormats ==
  ASSUME NEW k \in Filters, k # "framedrop"
  PROVE  /\ Module[k].makes \notin Module[k].accepts
         /\ "rgb24" \in Module[k].accepts => Module[k].makes # "uyvy"
         /\ Module[k].makes \notin {AsCodec, AsSet, AsInput}
<1>1. k \in {"jpeg", "mpeg4", "decoder", "mp2", "alaw"}
  BY FilterKinds
<1>2. /\ Module["jpeg"] = JpegModule /\ Module["mpeg4"] = Mpeg4Module
      /\ Module["decoder"] = DecoderModule /\ Module["mp2"] = Mp2Module
      /\ Module["alaw"] = AlawModule
  BY DEF Module
<1>3. /\ JpegModule.makes = "jpeg" /\ JpegModule.accepts = {"rgb24"}
      /\ Mpeg4Module.makes = "mpeg4" /\ Mpeg4Module.accepts = {"uyvy", "bgr24"}
      /\ DecoderModule.makes = "uyvy" /\ DecoderModule.accepts = {"mpeg4"}
      /\ Mp2Module.makes = "mpa" /\ Mp2Module.accepts = {"pcm"}
      /\ AlawModule.makes = "alaw" /\ AlawModule.accepts = {"pcm"}
  BY DEF JpegModule, Mpeg4Module, DecoderModule, Mp2Module, AlawModule, Filter, Plain
<1>4. QED BY <1>1, <1>2, <1>3 DEF AsCodec, AsSet, AsInput

-----------------------------------------------------------------------------
(* The graph, step by step                                                 *)

\* What is so of a filter while it is being read: nobody reads it yet.
Fresh(n, bs, c) ==
  /\ n.input[c] > None => n.dest[n.input[c]].waiting = FALSE
  /\ Unheard(n, c)
  /\ \A s \in 1 .. Len(n.stream) :
       n.stream[s].owner = c => IF bs[c].kind = "framedrop" THEN n.input[c] > None
                                ELSE n.stream[s].format = Module[bs[c].kind].makes

TracksLive ==
  \A i \in 1 .. LIVE_MAX_TRACKS :
    tracks[i].dest # None => /\ net.dest[tracks[i].dest].owner \in 1 .. Len(blocks)
                             /\ blocks[net.dest[tracks[i].dest].owner].kind = "live"

FilterRead == status = "reading" /\ cur # None /\ blocks[cur].kind \in Filters

GraphInv ==
  status # "crashed" =>
    Graph(net, blocks) /\ TracksLive /\ (FilterRead => Fresh(net, blocks, cur))

LEMMA BlocksAre ==
  ASSUME ConfInv
  PROVE  Len(blocks) \in Nat /\ NetInv(net) /\ (cur # None => cur \in 1 .. Len(blocks))
BY LenIs DEF ConfInv, BlockInv, None

\* The tracks stay live, whatever happens to the blocks and to the net beside them.
LEMMA TracksLiveOn ==
  ASSUME ConfInv, TracksLive, UNCHANGED tracks, Len(blocks) \in Nat, Len(blocks') \in Nat,
         Len(blocks) <= Len(blocks'), \A b \in 1 .. Len(blocks) : blocks'[b].kind = blocks[b].kind,
         \A d \in 1 .. Len(net.dest) : net'.dest[d].owner = net.dest[d].owner
  PROVE  TracksLive'
<1>1. ASSUME NEW i \in 1 .. LIVE_MAX_TRACKS, tracks[i].dest # None
      PROVE  /\ net'.dest[tracks[i].dest].owner \in 1 .. Len(blocks')
             /\ blocks'[net'.dest[tracks[i].dest].owner].kind = "live"
  <2>1. PICK d \in 1 .. Len(net.dest) : d = tracks[i].dest
    BY <1>1 DEF ConfInv, TracksInv, Fed
  <2>2. PICK o \in 1 .. Len(blocks) : o = net.dest[d].owner /\ blocks[o].kind = "live"
    BY <1>1, <2>1 DEF TracksLive
  <2>3. o \in 1 .. Len(blocks')
    OBVIOUS
  <2>4. QED BY <2>1, <2>2, <2>3
<1>2. QED BY <1>1 DEF TracksLive

LEMMA GraphSettled ==
  ASSUME ConfInv, GraphInv, status # "crashed", BlocksKept, UNCHANGED <<net, cur, tracks>>,
         status' = "reading" => status = "reading"
  PROVE  GraphInv'
<1>1. Len(blocks) \in Nat /\ (cur # None => cur \in 1 .. Len(blocks))
  BY BlocksAre
<1>2. /\ Len(blocks') = Len(blocks)
      /\ \A b \in 1 .. Len(blocks) : /\ blocks'[b].kind = blocks[b].kind
                                     /\ blocks[b].out # None => blocks'[b].out # None
  BY DEF BlocksKept
<1>3. Graph(net, blocks')
  <2>1. PICK cs : cs = blocks'
    OBVIOUS
  <2>2. Owned(net, cs)
    BY <1>2, <2>1, OwnedKept DEF GraphInv, Graph
  <2>3. QED BY <2>1, <2>2 DEF GraphInv, Graph
<1>4. TracksLive'
  BY <1>1, <1>2, TracksLiveOn DEF GraphInv
<1>5. ASSUME FilterRead' PROVE Fresh(net, blocks', cur)
  <2>1. cur \in 1 .. Len(blocks) /\ blocks'[cur].kind = blocks[cur].kind
    BY <1>1, <1>2, <1>5 DEF FilterRead
  <2>2. Fresh(net, blocks, cur)
    BY <1>5, <2>1 DEF FilterRead, GraphInv
  <2>3. QED BY <2>1, <2>2 DEF Fresh
<1>6. QED BY <1>3, <1>4, <1>5 DEF GraphInv

LEMMA SameBlocks ==
  ASSUME ConfInv, UNCHANGED blocks
  PROVE  BlocksKept
BY Settled DEF ConfInv

\* The steps that only read.
LEMMA GraphQuiet ==
  ASSUME ConfInv, GraphInv,
         \/ \E n : FrameHeap(n)
         \/ Port \/ RtpRange \/ Malformed \/ EndOfText
         \/ \E d : SetValue(d)
         \/ \E r : SetRate(r)
         \/ \E f : SetFormat(f)
         \/ SetPath
  PROVE  GraphInv'
<1>1. status = "reading" /\ UNCHANGED <<net, cur, tracks>>
  BY DEF FrameHeap, Port, RtpRange, Malformed, EndOfText, SetValue, SetRate, SetFormat, SetPath,
         Reads, Unread
<1>2. BlocksKept
  BY QuietGlobal, QuietSetting DEF Quiet
<1>3. QED BY <1>1, <1>2, GraphSettled

LEMMA GraphStopped ==
  ASSUME ConfInv, GraphInv, Deinit
  PROVE  GraphInv'
<1>1. status = "refused" /\ UNCHANGED <<blocks, net, cur, tracks>> /\ status' # "reading"
  BY DEF Deinit, Unread
<1>2. QED BY <1>1, SameBlocks, GraphSettled

\* set_output
LEMMA GraphOutput ==
  ASSUME ConfInv, GraphInv, NEW name, SetOutput(name)
  PROVE  GraphInv'
<1>1. /\ status = "reading" /\ cur # None /\ UNCHANGED <<cur, tracks>>
      /\ blocks[cur].kind \in Made /\ (blocks[cur].kind \in Filters => blocks[cur].out = None)
  BY DEF SetOutput, InBlock, Reads, Made, Blk
<1>2. Len(blocks) \in Nat /\ NetInv(net) /\ cur \in 1 .. Len(blocks)
  BY <1>1, BlocksAre
<1>3. BlocksKept
  BY QuietGraph DEF Quiet
<1>4. CASE UNCHANGED <<blocks, net>>
  <2>1. UNCHANGED <<net, cur, tracks>>
    BY <1>1, <1>4
  <2>2. QED BY <1>1, <1>3, <2>1, GraphSettled
<1>5. CASE ~ UNCHANGED <<blocks, net>>
  <2>1. PICK f, o : f = OutputFormat /\ o = Len(net.stream) + 1
    OBVIOUS
  <2>2. /\ net' = WithStream(net, name, f, cur)
        /\ blocks' = [blocks EXCEPT ![cur].out = o]
        /\ ~ (blocks[cur].kind = "framedrop" /\ net.input[cur] <= None)
    BY <1>5, <2>1 DEF SetOutput, Blk
  <2>3. PICK m : /\ m = WithStream(net, name, f, cur) /\ NetInv(m)
                 /\ m.dest = net.dest /\ m.input = net.input /\ m.running = net.running
                 /\ Len(m.stream) = Len(net.stream) + 1
                 /\ \A s \in 1 .. Len(net.stream) : m.stream[s] = net.stream[s]
                 /\ m.stream[Len(m.stream)].owner = cur
                 /\ m.stream[Len(m.stream)].format = f
    BY <1>2, WithStreamFields
  <2>4. net' = m
    BY <2>2, <2>3
  <2>5. PICK c \in 1 .. Len(blocks) : c = cur
    BY <1>2
  <2>6. PICK cs : cs = blocks'
    OBVIOUS
  <2>7. /\ Len(cs) = Len(blocks)
        /\ \A b \in 1 .. Len(blocks) : /\ cs[b].kind = blocks[b].kind
                                       /\ blocks[b].out # None => cs[b].out # None
    BY <1>3, <2>6 DEF BlocksKept
  <2>8. cs[c].out # None
    <3>1. IsBlock(blocks[c]) /\ DOMAIN blocks = 1 .. Len(blocks)
      BY DEF ConfInv, BlockInv, IsSeq
    <3>2. cs[c].out = o
      BY <2>2, <2>5, <2>6, <3>1 DEF IsBlock
    <3>3. o # None
      BY <1>2, <2>1, NetLengths DEF None
    <3>4. QED BY <3>2, <3>3
  <2>9. Graph(net, blocks)
    BY <1>1 DEF GraphInv
  <2>10. net.input[c] \in Wild .. Len(net.dest) /\ (net.input[c] > None => blocks[c].kind \in Filters)
    <3>1. Plugs(net, blocks, c)
      BY <2>9 DEF Graph, Owned
    <3>2. blocks[c].kind \in Made
      BY <1>1, <2>5
    <3>3. QED BY <3>1, <3>2, Kinds DEF Plugs
  <2>11. net.input[c] > None => net.dest[net.input[c]].waiting = FALSE
    BY <1>1, <2>5, <2>10 DEF GraphInv, FilterRead, Fresh
  <2>12. Graph(m, cs)
    BY ONLY <1>1, <1>2, <2>3, <2>5, <2>7, <2>8, <2>9, <2>11, c \in 1 .. Len(blocks),
            WithStreamGraph
  <2>13. TracksLive'
    <3>1. \A d \in 1 .. Len(net.dest) : net'.dest[d].owner = net.dest[d].owner
      BY <2>3, <2>4
    <3>2. QED BY <1>1, <1>2, <2>6, <2>7, <3>1, TracksLiveOn DEF GraphInv
  <2>14. ASSUME blocks[c].kind \in Filters PROVE Fresh(m, cs, c)
    <3>1. Fresh(net, blocks, c)
      BY <1>1, <2>5, <2>14 DEF GraphInv, FilterRead
    <3>2. m.input[c] > None => m.dest[m.input[c]].waiting = FALSE
      BY <2>3, <2>11
    <3>3. Unheard(m, c)
      <4>1. ASSUME NEW d \in 1 .. Len(m.dest) PROVE m.stream[m.dest[d].stream].owner # c
        <5>1. d \in 1 .. Len(net.dest) /\ net.dest[d].stream \in 1 .. Len(net.stream)
          BY <1>2, <2>3, <4>1 DEF NetInv
        <5>2. m.stream[m.dest[d].stream] = net.stream[net.dest[d].stream]
          BY ONLY <2>3, <5>1
        <5>3. QED BY ONLY <3>1, <5>1, <5>2 DEF Fresh, Unheard
      <4>2. QED BY ONLY <4>1 DEF Unheard
    <3>4. blocks[c].kind = "framedrop" => m.input[c] > None
      BY <2>2, <2>3, <2>5, <2>10 DEF None, Wild
    <3>5. blocks[c].kind # "framedrop" => f = Module[blocks[c].kind].makes
      BY <2>1, <2>5, <2>14, FilterFormats DEF OutputFormat, Mod, Blk
    <3>6. ASSUME NEW s \in 1 .. Len(m.stream), m.stream[s].owner = c
          PROVE  IF cs[c].kind = "framedrop" THEN m.input[c] > None
                 ELSE m.stream[s].format = Module[cs[c].kind].makes
      <4>1. cs[c].kind = blocks[c].kind
        BY <2>7
      <4>2. s \in 1 .. Len(net.stream) \/ s = Len(m.stream)
        BY <1>2, <2>3, NetLengths
      <4>3. CASE s \in 1 .. Len(net.stream)
        BY <2>3, <3>1, <3>4, <3>6, <4>1, <4>3 DEF Fresh
      <4>4. CASE s = Len(m.stream)
        BY <2>3, <3>4, <3>5, <4>1, <4>4
      <4>5. QED BY <4>2, <4>3, <4>4
    <3>7. QED BY <3>2, <3>3, <3>6 DEF Fresh
  <2>15. FilterRead' => Fresh(net', blocks', cur')
    <3>1. FilterRead' => blocks[c].kind \in Filters
      BY <1>1, <2>5, <2>6, <2>7 DEF FilterRead
    <3>2. QED BY <1>1, <2>4, <2>5, <2>6, <2>14, <3>1
  <2>16. QED BY <2>4, <2>6, <2>12, <2>13, <2>15 DEF GraphInv
<1>6. QED BY <1>4, <1>5

\* set_input
LEMMA GraphInput ==
  ASSUME ConfInv, GraphInv, NEW name, SetInput(name)
  PROVE  GraphInv'
<1>1. /\ status = "reading" /\ status' = status /\ cur # None
      /\ UNCHANGED <<blocks, cur, tracks>>
      /\ blocks[cur].kind \in Filters \cup {"http"} /\ net.input[cur] <= None
  BY DEF SetInput, InBlock, Reads
<1>2. Len(blocks) \in Nat /\ NetInv(net) /\ cur \in 1 .. Len(blocks)
  BY <1>1, BlocksAre
<1>3. PICK c \in 1 .. Len(blocks) : c = cur
  BY <1>2
<1>4. Graph(net, blocks) /\ TracksLive
  BY <1>1 DEF GraphInv
<1>5. PICK a : a = Module[blocks[c].kind].accepts
  OBVIOUS
<1>6. blocks[c].kind \in Filters => Fresh(net, blocks, c)
  BY <1>1, <1>3 DEF GraphInv, FilterRead
<1>7. blocks[c].kind \notin Filters => \A s \in 1 .. Len(net.stream) : net.stream[s].owner # c
  <2>1. ASSUME blocks[c].kind \notin Filters, NEW s \in 1 .. Len(net.stream), net.stream[s].owner = c
        PROVE  FALSE
    <3>1. blocks[c].kind = "http" /\ c # None
      BY <1>1, <1>3, <2>1 DEF None
    <3>2. blocks[c].kind \in Made
      BY <1>4, <2>1, <3>1 DEF Graph, Owned, Belongs
    <3>3. QED BY <3>1, <3>2, Kinds
  <2>2. QED BY <2>1
<1>8. Unheard(net, c)
  <2>1. CASE blocks[c].kind \in Filters
    BY <1>6, <2>1 DEF Fresh
  <2>2. CASE blocks[c].kind \notin Filters
    BY <1>2, <1>7, <2>2 DEF Unheard, NetInv
  <2>3. QED BY <2>1, <2>2
\* framedrop, which reads and makes the same, has no output before it has an input
<1>9. Unlike(net, c, a)
  <2>1. ASSUME NEW s \in 1 .. Len(net.stream), net.stream[s].owner = c
        PROVE  /\ net.stream[s].format \notin a
               /\ "rgb24" \in a => net.stream[s].format # "uyvy"
    <3>1. blocks[c].kind \in Filters /\ Fresh(net, blocks, c)
      BY <1>6, <1>7, <2>1
    <3>2. net.input[c] \in Wild .. Len(net.dest) /\ net.input[c] <= None
      BY <1>1, <1>3, <1>4 DEF Graph, Owned, Plugs
    <3>3. ~ (net.input[c] > None)
      BY <1>2, <3>2, NetLengths DEF Wild, None
    <3>4. blocks[c].kind # "framedrop"
      BY <2>1, <3>1, <3>3 DEF Fresh
    <3>5. net.stream[s].format = Module[blocks[c].kind].makes
      BY <2>1, <3>1, <3>4 DEF Fresh
    <3>6. QED BY <1>5, <3>1, <3>4, <3>5, FilterFormats
  <2>2. QED BY <2>1 DEF Unlike
\* what is left to show, whatever the block reads now
<1>10. ASSUME NEW n, NetInv(n), Graph(n, blocks), Unheard(n, c), n.input = net.input,
              Len(net.dest) <= Len(n.dest),
              \A d \in 1 .. Len(net.dest) : n.dest[d] = net.dest[d],
              \A s \in 1 .. Len(n.stream) :
                (s \in 1 .. Len(net.stream) /\ n.stream[s] = net.stream[s]) \/ n.stream[s].owner = None,
              NEW d, Readable(n, c, d),
              net' = [n EXCEPT !.input = Put(n.input, c, d)]
       PROVE  GraphInv'
  <2>1. PICK m : m = net'
    OBVIOUS
  <2>2. n.input[c] <= None
    BY <1>1, <1>3, <1>10
  <2>3. blocks[c].kind \in Filters \cup {"http"}
    BY <1>1, <1>3
  <2>4. PICK i : i = Put(n.input, c, d)
    OBVIOUS
  <2>5. m = [n EXCEPT !.input = i]
    BY <1>10, <2>1, <2>4
  <2>6. m = WithInput(n, Put(n.input, c, d))
    BY <2>5, <2>4 DEF WithInput
  <2>7. NetInv(n) /\ Graph(n, blocks) /\ Unheard(n, c) /\ Readable(n, c, d)
    BY <1>10
  <2>8. Graph(m, blocks) /\ m.input[c] = d
    BY ONLY <1>2, <2>7, <2>2, <2>3, <2>6, c \in 1 .. Len(blocks), InputGraph
  <2>9. n = [stream |-> n.stream, order |-> n.order, dest |-> n.dest,
             input |-> n.input, running |-> n.running]
    BY <1>10 DEF NetInv, IsNet
  <2>10. m.stream = n.stream /\ m.dest = n.dest
    BY ONLY <2>5, <2>9
  <2>11. TracksLive'
    <3>1. \A e \in 1 .. Len(net.dest) : net'.dest[e].owner = net.dest[e].owner
      BY <1>10, <2>1, <2>10
    <3>2. QED BY <1>1, <1>2, <1>4, <3>1, TracksLiveOn
  <2>12. ASSUME blocks[c].kind \in Filters PROVE Fresh(m, blocks, c)
    <3>1. Fresh(net, blocks, c) /\ c # None
      BY <1>6, <2>12 DEF None
    <3>2. Unheard(m, c)
      BY <1>10, <2>10 DEF Unheard
    <3>3. m.input[c] > None => m.dest[m.input[c]].waiting = FALSE
      BY <2>8, <2>10, <2>7 DEF None, Readable
    <3>4. ASSUME NEW s \in 1 .. Len(m.stream), m.stream[s].owner = c
          PROVE  IF blocks[c].kind = "framedrop" THEN m.input[c] > None
                 ELSE m.stream[s].format = Module[blocks[c].kind].makes
      <4>1. s \in 1 .. Len(net.stream) /\ m.stream[s] = net.stream[s]
        BY <1>10, <2>10, <3>1, <3>4
      <4>2. net.input[c] \in Wild .. Len(net.dest) /\ net.input[c] <= None
        BY <1>1, <1>3, <1>4 DEF Graph, Owned, Plugs
      <4>3. ~ (net.input[c] > None)
        BY <1>2, <4>2, NetLengths DEF Wild, None
      <4>4. QED BY <3>1, <3>4, <4>1, <4>3 DEF Fresh
    <3>5. QED BY <3>2, <3>3, <3>4 DEF Fresh
  <2>13. FilterRead' => Fresh(net', blocks', cur')
    BY <1>1, <1>3, <2>1, <2>12 DEF FilterRead
  <2>14. QED BY <1>1, <2>1, <2>8, <2>11, <2>13 DEF GraphInv
<1>11. CASE CanConnect(net, name, a)
  <2>1. PICK n : /\ n = Connect(net, name, a, c) /\ NetInv(n)
                 /\ Graph(n, blocks) /\ Joined(net, n, c)
                 /\ \A x : x # None /\ Unheard(net, x) /\ Unlike(net, x, a) => Unheard(n, x)
    BY ONLY <1>2, <1>4, <1>11, ConnectGraph
  <2>2. net' = [n EXCEPT !.input[cur] = Len(n.dest)]
    BY <1>3, <1>5, <1>11, <2>1 DEF SetInput, Mod, Blk
  <2>3. PICK d : d = Len(n.dest)
    OBVIOUS
  <2>4. net' = [n EXCEPT !.input = Put(n.input, c, d)]
    BY <1>3, <2>2, <2>3 DEF Put
  <2>5. Len(n.dest) \in Nat
    BY <2>1, NetLengths
  <2>6. Unheard(n, c)
    BY <1>8, <1>9, <2>1 DEF None
  <2>7. d \in 1 .. Len(n.dest) /\ Len(net.dest) <= Len(n.dest)
    BY <1>2, <2>1, <2>3, <2>5, NetLengths DEF Joined
  <2>8. Readable(n, c, d)
    BY <2>1, <2>3, <2>7 DEF Joined, Readable
  <2>9. QED BY <1>10, <2>1, <2>4, <2>6, <2>7, <2>8 DEF Joined
<1>12. CASE ~ CanConnect(net, name, a)
  <2>1. PICK d : d = None
    OBVIOUS
  <2>2. net' = [net EXCEPT !.input = Put(net.input, c, d)]
    BY <1>3, <1>5, <1>12, <2>1 DEF SetInput, Mod, Blk, Put
  <2>3. Len(net.dest) <= Len(net.dest)
    BY <1>2, NetLengths
  <2>4. Readable(net, c, d)
    BY <2>1 DEF Readable
  <2>5. QED BY <1>2, <1>4, <1>8, <1>10, <2>2, <2>3, <2>4
<1>13. QED BY <1>11, <1>12

\* set_track of input-rtsp.c
LEMMA GraphSource ==
  ASSUME ConfInv, GraphInv, NEW name, SourceTrack(name)
  PROVE  GraphInv'
<1>1. /\ status = "reading" /\ status' = status /\ cur # None
      /\ UNCHANGED <<blocks, cur, tracks>> /\ blocks[cur].kind = "rtsp"
  BY DEF SourceTrack, InBlock, Reads
<1>2. Len(blocks) \in Nat /\ NetInv(net) /\ cur \in 1 .. Len(blocks)
  BY <1>1, BlocksAre
<1>3. CASE UNCHANGED net
  <2>1. BlocksKept /\ UNCHANGED <<net, cur, tracks>>
    BY <1>1, <1>3, SameBlocks
  <2>2. QED BY <1>1, <2>1, GraphSettled
<1>4. CASE ~ UNCHANGED net
  <2>1. PICK f : f = "pcm"
    OBVIOUS
  <2>2. PICK m : /\ m = WithStream(net, name, f, cur) /\ NetInv(m)
                 /\ m.dest = net.dest /\ m.input = net.input /\ m.running = net.running
                 /\ Len(m.stream) = Len(net.stream) + 1
                 /\ \A s \in 1 .. Len(net.stream) : m.stream[s] = net.stream[s]
                 /\ m.stream[Len(m.stream)].owner = cur
                 /\ m.stream[Len(m.stream)].format = f
    BY <1>2, WithStreamFields
  <2>3. net' = m
    BY <1>4, <2>1, <2>2 DEF SourceTrack
  <2>4. PICK c \in 1 .. Len(blocks) : c = cur
    BY <1>2
  <2>5. Graph(net, blocks) /\ TracksLive
    BY <1>1 DEF GraphInv
  <2>6. blocks[c].kind \in Made /\ blocks[c].kind \notin Filters
    <3>1. Module["rtsp"] = RtspModule /\ "rtsp" \in DOMAIN Module
      BY DEF Module
    <3>2. RtspModule.role = "source"
      BY DEF RtspModule, Source, Plain
    <3>3. QED BY <1>1, <2>4, <3>1, <3>2 DEF Made, Sources, Filters
  <2>7. ~ (net.input[c] > None)
    <3>1. Plugs(net, blocks, c)
      BY <2>5 DEF Graph, Owned
    <3>2. QED BY <2>6, <3>1, Kinds DEF Plugs
  <2>8. Graph(m, blocks)
    BY ONLY <1>2, <2>2, <2>4, <2>5, <2>6, <2>7, c \in 1 .. Len(blocks), WithStreamGraph
  <2>9. TracksLive'
    BY <1>1, <1>2, <2>2, <2>3, <2>5, TracksLiveOn
  <2>10. ~ FilterRead'
    BY <1>1, <2>4, <2>6 DEF FilterRead
  <2>11. QED BY <1>1, <2>3, <2>8, <2>9, <2>10 DEF GraphInv
<1>5. QED BY <1>3, <1>4

\* live_play and track_check_running1
LEMMA GraphListen ==
  ASSUME ConfInv, GraphInv, NEW i \in 1 .. LIVE_MAX_TRACKS, NEW w \in BOOLEAN, Listen(i, w)
  PROVE  GraphInv'
<1>1. SUFFICES ASSUME status' # "crashed" PROVE GraphInv'
  BY DEF GraphInv
<1>2. PICK d : d = tracks[i].dest
  OBVIOUS
<1>3. /\ status = "accepted" /\ d # None /\ net' = SetWaiting(net, d, w)
      /\ ~ MeetsWild(net, d, w) /\ status' = status /\ UNCHANGED <<blocks, cur, tracks>>
  BY <1>1, <1>2 DEF Listen
<1>4. Len(blocks) \in Nat /\ NetInv(net)
  BY BlocksAre
<1>5. Graph(net, blocks) /\ TracksLive
  BY <1>3 DEF GraphInv
<1>6. d \in 1 .. Len(net.dest)
  BY <1>2, <1>3 DEF ConfInv, TracksInv, Fed
<1>7. net.dest[d].owner \in 1 .. Len(blocks) /\ blocks[net.dest[d].owner].kind \notin Made
  BY <1>2, <1>3, <1>5, Kinds DEF TracksLive
<1>8. d \in Wild .. Len(net.dest)
  BY <1>4, <1>6, NetLengths DEF Wild
<1>9. PICK m : /\ m = SetWaiting(net, d, w) /\ NetInv(m) /\ Graph(m, blocks)
               /\ m.stream = net.stream /\ m.input = net.input /\ Len(m.dest) = Len(net.dest)
               /\ \A x \in 1 .. Len(net.dest) : m.dest[x].owner = net.dest[x].owner
  BY ONLY <1>3, <1>4, <1>5, <1>7, <1>8, w \in BOOLEAN, SetWaitingGraph
<1>10. TracksLive'
  BY <1>3, <1>4, <1>5, <1>9, TracksLiveOn
<1>11. ~ FilterRead'
  BY <1>3 DEF FilterRead
<1>12. QED BY <1>3, <1>9, <1>10, <1>11 DEF GraphInv

\* the start_block of a context
LEMMA GraphOpen ==
  ASSUME ConfInv, GraphInv, NEW kind, OpenBlock(kind)
  PROVE  GraphInv'
<1>1. cur = None /\ status = "reading" /\ UNCHANGED tracks
  BY DEF OpenBlock, Reads, Unread
<1>2. Len(blocks) \in Nat /\ NetInv(net)
  BY BlocksAre
<1>3. CASE UNCHANGED Unread
  <2>1. BlocksKept /\ UNCHANGED <<net, cur, tracks>>
    BY <1>3, SameBlocks DEF Unread
  <2>2. QED BY <1>1, <2>1, GraphSettled
<1>4. CASE ~ UNCHANGED Unread
  <2>1. PICK u : u = Cardinality({b \in 1 .. Len(blocks) : blocks[b].kind = kind})
    OBVIOUS
  <2>2. PICK r : r = -1
    OBVIOUS
  <2>3. PICK b : b = [kind |-> kind, given |-> {}, format |-> "uyvy", rate |-> r, out |-> None,
                      channel |-> u + 1, ring |-> "none"]
    OBVIOUS
  <2>4. PICK v \in {None, Wild} : v = IF Module[kind].wild THEN Wild ELSE None
    OBVIOUS
  <2>5. /\ blocks' = Append(blocks, b) /\ cur' = Len(blocks) + 1
        /\ net' = [net EXCEPT !.input = Append(@, v)]
    BY <1>4, <2>1, <2>2, <2>3, <2>4 DEF OpenBlock
  <2>6. IsSeq(blocks)
    BY DEF ConfInv, BlockInv
  <2>7. PICK cs : cs = blocks'
    OBVIOUS
  <2>8. Len(cs) = Len(blocks) + 1 /\ \A i \in 1 .. Len(blocks) : cs[i] = blocks[i]
    BY ONLY <2>5, <2>6, <2>7, AppendIs
  <2>9. PICK m : m = WithInput(net, Append(net.input, v))
    OBVIOUS
  <2>10. net' = m
    BY <2>5, <2>9 DEF WithInput
  <2>11. Graph(net, blocks) /\ TracksLive
    BY <1>1 DEF GraphInv
  <2>12. /\ Graph(m, cs) /\ m.input[Len(cs)] = v /\ Unheard(m, Len(cs)) /\ m.dest = net.dest
         /\ \A s \in 1 .. Len(m.stream) : m.stream[s].owner # Len(cs)
    BY ONLY <1>2, <2>8, <2>9, <2>11, v \in {None, Wild}, BlockGraph
  <2>13. TracksLive'
    BY <1>1, <1>2, <2>7, <2>8, <2>10, <2>11, <2>12, TracksLiveOn
  <2>14. cur' = Len(cs)
    BY <2>5, <2>8
  <2>15. ~ (v > None)
    BY ONLY v \in {None, Wild} DEF None, Wild
  <2>16. Fresh(m, cs, Len(cs))
    BY ONLY <2>12, <2>15 DEF Fresh
  <2>17. QED BY <2>7, <2>10, <2>12, <2>13, <2>14, <2>16 DEF GraphInv
<1>5. QED BY <1>3, <1>4

\* the end_block of a context: a sink starts to wait
LEMMA GraphClose ==
  ASSUME ConfInv, GraphInv, CloseBlock
  PROVE  GraphInv'
<1>1. SUFFICES ASSUME status' # "crashed" PROVE GraphInv'
  BY DEF GraphInv
<1>2. cur # None /\ status = "reading" /\ UNCHANGED tracks
  BY DEF CloseBlock, Reads
<1>3. Len(blocks) \in Nat /\ NetInv(net) /\ cur \in 1 .. Len(blocks)
  BY <1>2, BlocksAre
<1>4. CASE UNCHANGED <<blocks, cur, net>>
  <2>1. BlocksKept /\ UNCHANGED <<net, cur, tracks>>
    BY <1>2, <1>4, SameBlocks
  <2>2. QED BY <1>2, <2>1, GraphSettled
<1>5. CASE ~ UNCHANGED <<blocks, cur, net>>
  <2>1. Done
    BY <1>5 DEF CloseBlock
  <2>2. BlocksKept /\ cur' = None
    BY <1>2, <2>1, DoneKeeps
  <2>3. Graph(net, blocks) /\ TracksLive
    BY <1>2 DEF GraphInv
  <2>4. /\ Len(blocks') = Len(blocks)
        /\ \A b \in 1 .. Len(blocks) : /\ blocks'[b].kind = blocks[b].kind
                                       /\ blocks[b].out # None => blocks'[b].out # None
    BY <2>2 DEF BlocksKept
  <2>5. PICK cs : cs = blocks'
    OBVIOUS
  <2>6. CASE UNCHANGED net
    <3>1. Owned(net, cs)
      BY <2>3, <2>4, <2>5, OwnedKept DEF Graph
    <3>2. Graph(net, cs)
      BY <2>3, <3>1 DEF Graph
    <3>3. TracksLive'
      BY <1>2, <1>3, <2>3, <2>4, <2>6, TracksLiveOn
    <3>4. QED BY <2>2, <2>5, <2>6, <3>2, <3>3 DEF GraphInv, FilterRead
  <2>7. CASE ~ UNCHANGED net
    <3>1. PICK d, w : d = net.input[cur] /\ w = TRUE
      OBVIOUS
    <3>2. /\ blocks[cur].kind = "http" /\ net' = SetWaiting(net, d, w) /\ UNCHANGED blocks
          /\ ~ MeetsWild(net, d, w)
      BY <1>1, <2>1, <2>7, <3>1 DEF Done, Blk
    <3>3. Plugs(net, blocks, cur)
      BY <1>3, <2>3 DEF Graph, Owned
    <3>4. d \in Wild .. Len(net.dest)
      BY <3>1, <3>3 DEF Plugs
    <3>5. d > None => /\ net.dest[d].owner \in 1 .. Len(blocks)
                      /\ blocks[net.dest[d].owner].kind \notin Made
      BY <1>3, <3>1, <3>2, <3>3, Kinds DEF Plugs
    <3>6. w \in BOOLEAN
      BY <3>1
    <3>7. PICK m : /\ m = SetWaiting(net, d, w) /\ NetInv(m) /\ Graph(m, blocks)
                   /\ m.stream = net.stream /\ m.input = net.input /\ Len(m.dest) = Len(net.dest)
                   /\ \A x \in 1 .. Len(net.dest) : m.dest[x].owner = net.dest[x].owner
      BY ONLY <1>3, <2>3, <3>2, <3>4, <3>5, <3>6, SetWaitingGraph
    <3>8. TracksLive'
      BY <1>2, <1>3, <2>3, <3>2, <3>7, TracksLiveOn
    <3>9. QED BY <2>2, <3>2, <3>7, <3>8 DEF GraphInv, FilterRead
  <2>8. QED BY <2>6, <2>7
<1>6. QED BY <1>4, <1>5

\* set_track of live.c: a new track is the last reader, and waits at once
LEMMA GraphTrack ==
  ASSUME ConfInv, GraphInv, NEW name, Track(name)
  PROVE  GraphInv'
<1>1. SUFFICES ASSUME status' # "crashed" PROVE GraphInv'
  BY DEF GraphInv
<1>2. /\ status = "reading" /\ cur # None /\ UNCHANGED <<blocks, cur>>
      /\ blocks[cur].kind = "live"
  BY DEF Track, InBlock, Reads
<1>3. Len(blocks) \in Nat /\ NetInv(net) /\ cur \in 1 .. Len(blocks)
  BY <1>2, BlocksAre
<1>4. Graph(net, blocks) /\ TracksLive
  BY <1>2 DEF GraphInv
<1>5. ~ FilterRead'
  BY <1>2, Kinds DEF FilterRead
<1>6. TrackTypes
  BY DEF ConfInv
<1>7. CASE UNCHANGED <<net, tracks>>
  <2>1. BlocksKept /\ UNCHANGED <<net, cur, tracks>>
    BY <1>2, <1>7, SameBlocks
  <2>2. QED BY <1>2, <2>1, GraphSettled
<1>8. ASSUME NEW i \in 1 .. LIVE_MAX_TRACKS, JoinTrack(i), UNCHANGED net, ~ UNCHANGED tracks
      PROVE  GraphInv'
  <2>1. tracks' = [tracks EXCEPT ![i].known = Append(@, Entry)]
    BY <1>8 DEF JoinTrack
  <2>2. \A j \in 1 .. LIVE_MAX_TRACKS : tracks'[j].dest = tracks[j].dest
    BY <1>6, <2>1 DEF TrackTypes
  <2>3. TracksLive'
    BY <1>2, <1>4, <1>8, <2>2 DEF TracksLive
  <2>4. QED BY <1>2, <1>4, <1>5, <1>8, <2>3 DEF GraphInv
<1>9. ASSUME NewTrack(name), ~ UNCHANGED <<net, tracks>> PROVE GraphInv'
  <2>1. PICK a : a = LiveModule.accepts
    OBVIOUS
  <2>2. FreeTracks # {} /\ CanConnect(net, name, a)
    BY <1>9, <2>1 DEF NewTrack
  <2>3. PICK c \in 1 .. Len(blocks) : c = cur
    BY <1>3
  <2>4. PICK n : /\ n = Connect(net, name, a, c) /\ NetInv(n)
                 /\ Graph(n, blocks) /\ Joined(net, n, c)
                 /\ \A x : x # None /\ Unheard(net, x) /\ Unlike(net, x, a) => Unheard(n, x)
    BY ONLY <1>3, <1>4, <2>2, ConnectGraph
  <2>5. PICK d, w : d = Len(n.dest) /\ w = TRUE
    OBVIOUS
  <2>6. PICK i, l : i = Least(FreeTracks) /\ l = <<Entry>>
    OBVIOUS
  <2>7. /\ net' = SetWaiting(n, d, w) /\ ~ MeetsWild(n, d, w)
        /\ tracks' = [tracks EXCEPT ![i] = [name |-> name, dest |-> d, known |-> l]]
    BY <1>1, <1>9, <2>1, <2>2, <2>3, <2>4, <2>5, <2>6 DEF NewTrack
  <2>8. PICK j, k \in Nat : j = Len(net.dest) /\ k = Len(n.dest)
    BY <1>3, <2>4, NetLengths
  <2>9. j < k /\ d = k /\ d \in 1 .. k /\ d \in Wild .. Len(n.dest)
    BY <2>4, <2>5, <2>8 DEF Joined, Wild
  <2>10. n.dest[d].owner = c /\ blocks[c].kind = "live"
    BY <1>2, <2>3, <2>4, <2>5 DEF Joined
  <2>11. n.dest[d].owner \in 1 .. Len(blocks) /\ blocks[n.dest[d].owner].kind \notin Made
    BY <2>10, Kinds
  <2>12. w \in BOOLEAN
    BY <2>5
  <2>13. PICK m : /\ m = SetWaiting(n, d, w) /\ NetInv(m) /\ Graph(m, blocks)
                  /\ m.stream = n.stream /\ m.input = n.input /\ Len(m.dest) = Len(n.dest)
                  /\ \A x \in 1 .. Len(n.dest) : m.dest[x].owner = n.dest[x].owner
    BY ONLY <1>3, <2>4, <2>7, <2>9, <2>11, <2>12, SetWaitingGraph
  <2>14. net' = m
    BY <2>7, <2>13
  <2>15. \A x \in 1 .. j : m.dest[x].owner = net.dest[x].owner
    BY <2>4, <2>8, <2>9, <2>13 DEF Joined
  <2>16. PICK t : t = [name |-> name, dest |-> d, known |-> l]
    OBVIOUS
  <2>17. t.dest = d /\ tracks' = [tracks EXCEPT ![i] = t]
    BY ONLY <2>7, <2>16
  <2>18. \A e \in 1 .. LIVE_MAX_TRACKS : tracks'[e] = IF e = i THEN t ELSE tracks[e]
    BY <1>6, <2>17 DEF TrackTypes
  <2>19. ASSUME NEW e \in 1 .. LIVE_MAX_TRACKS, tracks'[e].dest # None
         PROVE  /\ m.dest[tracks'[e].dest].owner \in 1 .. Len(blocks)
                /\ blocks[m.dest[tracks'[e].dest].owner].kind = "live"
    <3>1. CASE e = i
      <4>1. tracks'[e].dest = d
        BY <2>17, <2>18, <3>1
      <4>2. m.dest[d].owner = c
        BY <2>8, <2>9, <2>10, <2>13
      <4>3. QED BY <2>10, <4>1, <4>2
    <3>2. CASE e # i
      <4>1. tracks'[e] = tracks[e]
        BY <2>18, <3>2
      <4>2. PICK x \in 1 .. j : x = tracks[e].dest
        BY <2>8, <2>19, <4>1 DEF ConfInv, TracksInv, Fed
      <4>3. PICK o \in 1 .. Len(blocks) : o = net.dest[x].owner /\ blocks[o].kind = "live"
        BY <2>19, <4>1, <4>2, <1>4 DEF TracksLive
      <4>4. m.dest[x].owner = o
        BY <2>15, <4>3
      <4>5. QED BY <4>1, <4>2, <4>3, <4>4
    <3>3. QED BY <3>1, <3>2
  <2>20. TracksLive'
    BY <1>2, <2>14, <2>19 DEF TracksLive
  <2>21. QED BY <1>2, <1>5, <2>13, <2>14, <2>20 DEF GraphInv
<1>10. QED BY <1>7, <1>8, <1>9 DEF Track

LEMMA GraphInit == Init => GraphInv
<1> SUFFICES ASSUME Init PROVE GraphInv
  OBVIOUS
<1>1. PICK none, run : none = << >> /\ run = {}
  OBVIOUS
<1>2. blocks = none /\ cur = None
  BY <1>1 DEF Init
<1>3. net = [stream |-> none, order |-> none, dest |-> none, input |-> none, running |-> run]
  BY <1>1 DEF Init
<1>4. net.stream = none /\ net.dest = none /\ net.input = none /\ net.running = run
  BY ONLY <1>3
<1>5. IsSeq(none) /\ Len(none) = 0
  <2>1. \A T : none \in Seq(T)
    BY <1>1
  <2>2. QED BY <1>1, <2>1, SeqIs
<1>6. 1 .. 0 = {}
  OBVIOUS
<1>7. Owned(net, blocks)
  BY <1>2, <1>4, <1>5 DEF Owned
<1>8. Downwards(net) /\ Runs(net)
  BY <1>1, <1>4, <1>5 DEF Downwards, Runs
<1>9. TracksLive
  BY DEF Init, TracksLive
<1>10. ~ FilterRead
  BY <1>2 DEF FilterRead
<1>11. QED BY <1>7, <1>8, <1>9, <1>10 DEF GraphInv, Graph

LEMMA GraphStep == ConfInv /\ GraphInv /\ [Next]_vars => GraphInv'
<1> SUFFICES ASSUME ConfInv, GraphInv, [Next]_vars PROVE GraphInv'
  OBVIOUS
<1>1. CASE UNCHANGED vars
  BY <1>1 DEF vars, GraphInv, FilterRead, TracksLive
<1>2. ASSUME \/ \E n : FrameHeap(n)
             \/ Port \/ RtpRange \/ Malformed \/ EndOfText
             \/ \E d : SetValue(d)
             \/ \E r : SetRate(r)
             \/ \E f : SetFormat(f)
             \/ SetPath
      PROVE  GraphInv'
  BY <1>2, GraphQuiet
<1>3. ASSUME Deinit PROVE GraphInv'
  BY <1>3, GraphStopped
<1>4. ASSUME NEW m, SetOutput(m) PROVE GraphInv'
  BY <1>4, GraphOutput
<1>5. ASSUME NEW m, SetInput(m) PROVE GraphInv'
  BY <1>5, GraphInput
<1>6. ASSUME NEW m, SourceTrack(m) PROVE GraphInv'
  BY <1>6, GraphSource
<1>7. ASSUME NEW i \in 1 .. LIVE_MAX_TRACKS, NEW w \in BOOLEAN, Listen(i, w) PROVE GraphInv'
  BY <1>7, GraphListen
<1>8. ASSUME NEW k, OpenBlock(k) PROVE GraphInv'
  BY <1>8, GraphOpen
<1>9. ASSUME CloseBlock PROVE GraphInv'
  BY <1>9, GraphClose
<1>10. ASSUME NEW m, Track(m) PROVE GraphInv'
  BY <1>10, GraphTrack
<1>11. QED BY <1>1, <1>2, <1>3, <1>4, <1>5, <1>6, <1>7, <1>8, <1>9, <1>10 DEF Next

\* What a text has plugged together, of whatever length, in whatever order, and however
\* often live_play and track_check_running1 have switched tracks on and off since: nobody
\* reads what is made behind him, two streams are never made of one destination, and what
\* makes a stream reads, or runs, exactly as long as the stream is waited for.
THEOREM GraphInvHolds == Spec => []GraphInv
<1>1. Init => GraphInv
  BY GraphInit
<1>2. ConfInv /\ GraphInv /\ [Next]_vars => GraphInv'
  BY GraphStep
<1>3. QED BY <1>1, <1>2, ConfInvHolds, PTL DEF Spec

\* An input runs exactly as long as somebody waits for its stream, through filters and
\* conversions: set_waiting passes a change on only when the first listener comes or the
\* last one goes, and that is enough.
THEOREM InputsRunWhileWaited == Spec => []RunsWhileWaited
<1>1. ConfInv /\ GraphInv => RunsWhileWaited
  <2>1. HAVE ConfInv /\ GraphInv
  <2>2. ASSUME status # "crashed", NEW s \in 1 .. Len(net.stream),
               NEW b, b = net.stream[s].owner,
               NEW u, u = IF b = None THEN net.stream[s].feed ELSE net.input[b]
        PROVE  /\ b # None /\ blocks[b].kind \in Sources => (s \in net.running <=> Waited(s))
               /\ u > None => (net.dest[u].waiting <=> Waited(s))
    <3>1. Graph(net, blocks) /\ NetInv(net) /\ Len(blocks) \in Nat
      BY <2>1, <2>2, BlocksAre DEF GraphInv
    <3>2. u = Up(net, s)
      BY <2>2 DEF Up
    <3>3. Waited(s) <=> WaitedIn(net, s)
      BY DEF Waited, WaitedIn
    <3>4. ASSUME b # None, blocks[b].kind \in Sources PROVE s \in net.running <=> Waited(s)
      <4>1. b \in 1 .. Len(blocks)
        BY <2>2, <3>1, <3>4 DEF Graph, Owned, Belongs
      <4>2. Plugs(net, blocks, b) /\ u = net.input[b]
        BY <2>2, <3>1, <3>4, <4>1 DEF Graph, Owned
      <4>3. ~ (u > None)
        BY <3>4, <4>2, Kinds DEF Plugs
      <4>4. QED BY <3>1, <3>2, <3>3, <4>3 DEF Graph, Runs
    <3>5. ASSUME u > None PROVE net.dest[u].waiting <=> Waited(s)
      BY <3>1, <3>2, <3>3, <3>5 DEF Graph, Runs
    <3>6. QED BY <3>4, <3>5
  <2>3. QED BY <2>2 DEF RunsWhileWaited
<1>2. QED BY <1>1, ConfInvHolds, GraphInvHolds, PTL

=============================================================================
