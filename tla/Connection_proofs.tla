-------------------------- MODULE Connection_proofs --------------------------
(***************************************************************************)
(* Theorems about what a connection carries: the bytes that are sent on it *)
(* (TcpConnection), for buffers of every size, and the requests that are   *)
(* answered (RtspRequests), for every set of clients, locations, tracks,   *)
(* sessions and dates.  The two share no variable.                         *)
(***************************************************************************)
EXTENDS TcpConnection, RtspRequests, SequenceTheorems, WellFoundedInduction, TLAPS

-----------------------------------------------------------------------------
(* The bytes of a connection                                                *)

USE SizesAssumption

-----------------------------------------------------------------------------
(* Going round the ring                                                     *)

\* Less than a turn from a cell, the index comes round at most once.
LEMMA GoRound ==
  ASSUME NEW a \in Int
  PROVE  /\ a % SendSize \in Cells
         /\ a \in Cells => a % SendSize = a
         /\ a \in SendSize .. 2 * SendSize - 1 => a % SendSize = a - SendSize
         /\ -SendSize <= a /\ a < 0 => a % SendSize = a + SendSize
<1>1. SendSize \in Nat \ {0}
  OBVIOUS
<1>2. a % SendSize \in Cells
  BY <1>1 DEF Cells
<1>3. a \in Cells => a % SendSize = a
  BY <1>1 DEF Cells
<1>4. a \in SendSize .. 2 * SendSize - 1 => a % SendSize = a - SendSize
  BY <1>1
<1>5. -SendSize <= a /\ a < 0 => a % SendSize = a + SendSize
  BY <1>1
<1>6. QED BY <1>2, <1>3, <1>4, <1>5

\* Cell number i after cell r.
At(r, i) == IF r + i < SendSize THEN r + i ELSE r + i - SendSize

\* How far cell i is from cell r, going round.
Distance(r, i) == IF i < r THEN i - r + SendSize ELSE i - r

\* The code's wrapping is a remainder.
LEMMA AtIsRemainder ==
  ASSUME NEW r \in Cells, NEW i \in Cells
  PROVE  (r + i) % SendSize = At(r, i) /\ At(r, i) \in Cells
<1>1. CASE r + i < SendSize
  <2>1. r + i \in Int /\ r + i \in Cells
    BY <1>1 DEF Cells
  <2>2. (r + i) % SendSize = r + i
    BY <2>1, GoRound
  <2>3. QED BY <1>1, <2>1, <2>2 DEF At
<1>2. CASE ~(r + i < SendSize)
  <2> PICK a \in Int : a = r + i
    BY DEF Cells
  <2>1. a \in SendSize .. 2 * SendSize - 1
    BY <1>2 DEF Cells
  <2>2. a % SendSize = a - SendSize
    BY <2>1, GoRound
  <2>3. r + i - SendSize \in Cells
    BY <1>2 DEF Cells
  <2>4. At(r, i) = r + i - SendSize
    BY <1>2 DEF At
  <2>5. (r + i) % SendSize = r + i - SendSize
    BY <2>2 DEF Cells
  <2>6. QED BY <2>3, <2>4, <2>5
<1>3. QED BY <1>1, <1>2

\* So is the way from one cell to another.
LEMMA DistanceIsRemainder ==
  ASSUME NEW r \in Cells, NEW i \in Cells
  PROVE  (i - r) % SendSize = Distance(r, i) /\ Distance(r, i) \in Cells
<1>1. CASE i < r
  <2>1. i - r \in Int /\ -SendSize <= i - r /\ i - r < 0
    BY <1>1 DEF Cells
  <2>2. (i - r) % SendSize = i - r + SendSize
    BY <2>1, GoRound
  <2>3. i - r + SendSize \in Cells
    BY <1>1 DEF Cells
  <2>4. QED BY <1>1, <2>2, <2>3 DEF Distance
<1>2. CASE ~(i < r)
  <2>1. i - r \in Int /\ i - r \in Cells
    BY <1>2 DEF Cells
  <2>2. (i - r) % SendSize = i - r
    BY <2>1, GoRound
  <2>3. QED BY <1>2, <2>1, <2>2 DEF Distance
<1>3. QED BY <1>1, <1>2

\* Cell number b after the one that is number a, less than a turn away in all.
LEMMA CellAfter ==
  ASSUME NEW r \in Cells, NEW a \in Nat, NEW b \in Nat, a + b \in Cells
  PROVE  /\ At(r, a + b) \in Cells /\ At(At(r, a), b) = At(r, a + b)
         /\ Distance(At(r, a), At(r, a + b)) = b
BY DEF At, Distance, Cells

\* A cell before number a is not among the b that follow it.
LEMMA CellBefore ==
  ASSUME NEW r \in Cells, NEW a \in Nat, NEW b \in Nat, a + b \in Cells, NEW i \in 0 .. a - 1
  PROVE  At(r, i) \in Cells /\ Distance(At(r, a), At(r, i)) >= b
BY DEF At, Distance, Cells

-----------------------------------------------------------------------------
(* Messages in the ring                                                     *)

\* The ring s holds the bytes of q, the first at r and the next to be at w; one
\* cell stays free.
Holds(s, q) ==
  /\ s.buf \in [Cells -> Int] /\ s.r \in Cells /\ s.w \in Cells
  /\ q \in Seq(Int) /\ Len(q) \in Cells
  /\ s.w = At(s.r, Len(q))
  /\ \A i \in 1 .. Len(q) : q[i] = s.buf[At(s.r, i - 1)]

\* avail_send_buf is what is left, less the cell that tells a full ring from an
\* empty one.
LEMMA AvailLeft ==
  ASSUME NEW s, NEW q, Holds(s, q)
  PROVE  avail(s) = SendSize - 1 - Len(q)
BY DEF avail, Holds, At, Cells

RingType == [buf : [Cells -> Int], r : Cells, w : Cells, on : BOOLEAN,
             owed : Seq(Int), serial : 0 .. Values - 1]

\* send_data appends its bytes, around the end of the buffer where need be.
LEMMA SendAppends ==
  ASSUME NEW s \in RingType, NEW q, Holds(s, q), NEW d \in Seq(Int), Len(d) <= avail(s)
  PROVE  /\ Send(s, d) \in RingType /\ Holds(Send(s, d), q \o d)
         /\ Send(s, d).on = TRUE
         /\ Send(s, d).owed = s.owed /\ Send(s, d).serial = s.serial
<1> DEFINE new == [i \in Cells |-> LET k == (i - s.w) % SendSize
                                   IN IF k < Len(d) THEN d[k + 1] ELSE s.buf[i]]
           t == [s EXCEPT !.buf = new, !.w = (s.w + Len(d)) % SendSize, !.on = TRUE]
<1> PICK r, w, a, b : r = s.r /\ w = s.w /\ a = Len(q) /\ b = Len(d)
  OBVIOUS
<1>1. /\ r \in Cells /\ w \in Cells /\ w = At(r, a) /\ a \in Cells /\ b \in Nat
      /\ q \in Seq(Int) /\ s.buf \in [Cells -> Int]
      /\ \A i \in 1 .. a : q[i] = s.buf[At(r, i - 1)]
  BY DEF Holds
<1>2. a \in Nat /\ b \in Cells /\ a + b \in Cells /\ ~(avail(s) < Len(d))
  <2>1. avail(s) = SendSize - 1 - a /\ b <= avail(s)
    BY AvailLeft
  <2>2. QED BY <1>1, <2>1 DEF Cells
<1>3. Send(s, d) = t
  BY <1>2 DEF Send
<1>4. (s.w + Len(d)) % SendSize = At(w, b) /\ At(w, b) \in Cells
  BY <1>1, <1>2, AtIsRemainder
<1>5. ASSUME NEW i \in Cells
      PROVE  /\ new[i] = IF Distance(w, i) < b THEN d[Distance(w, i) + 1] ELSE s.buf[i]
             /\ new[i] \in Int
  <2>1. (i - w) % SendSize = Distance(w, i) /\ Distance(w, i) \in Cells
    BY <1>1, DistanceIsRemainder
  <2>2. (i - s.w) % SendSize = Distance(w, i) /\ Distance(w, i) \in Nat
    BY <2>1 DEF Cells
  <2>3. new[i] = IF Distance(w, i) < b THEN d[Distance(w, i) + 1] ELSE s.buf[i]
    BY <2>2
  <2>4. Distance(w, i) < b => d[Distance(w, i) + 1] \in Int
    BY <1>1, <2>2
  <2>5. QED BY <1>1, <2>3, <2>4
<1>6. new \in [Cells -> Int]
  BY <1>5
<1> HIDE DEF new
<1>7. ASSUME NEW i \in 1 .. a
      PROVE  new[At(r, i - 1)] = s.buf[At(r, i - 1)]
  <2> PICK j : j = At(r, i - 1) OBVIOUS
  <2>1. j \in Cells /\ Distance(w, j) >= b
    <3>1. i - 1 \in 0 .. a - 1
      BY <1>2
    <3>2. QED BY <1>1, <1>2, <3>1, CellBefore
  <2>2. Distance(w, j) \in Nat
    BY <1>1, <2>1, DistanceIsRemainder DEF Cells
  <2>3. QED BY <1>1, <1>5, <2>1, <2>2
<1>8. ASSUME NEW i \in 1 .. b
      PROVE  new[At(r, a + i - 1)] = d[i]
  <2> PICK k : k = i - 1 OBVIOUS
  <2> PICK j : j = At(r, a + k) OBVIOUS
  <2>1. a + k = a + i - 1
    BY <1>1, <1>2, SMTT(30) DEF Cells
  <2>2. k \in Nat /\ a + k \in Cells
    BY <1>1, <1>2, SMTT(30) DEF Cells
  <2>3. j \in Cells /\ Distance(w, j) = k
    <3>1. r \in Cells /\ a \in Nat /\ w = At(r, a)
      BY <1>1, <1>2
    <3>2. At(r, a + k) \in Cells /\ Distance(At(r, a), At(r, a + k)) = k
      BY ONLY <2>2, <3>1, CellAfter
    <3>3. QED BY <3>1, <3>2
  <2>4. new[j] = IF Distance(w, j) < b THEN d[Distance(w, j) + 1] ELSE s.buf[j]
    BY <1>5, <2>3
  <2>5. k < b /\ k + 1 = i
    BY <1>2
  <2>6. QED BY <2>1, <2>3, <2>4, <2>5
<1>9. /\ q \o d \in Seq(Int) /\ Len(q \o d) = a + b
      /\ \A i \in 1 .. a + b : (q \o d)[i] = IF i <= a THEN q[i] ELSE d[i - a]
  BY <1>1, ConcatProperties
<1>10. /\ t \in RingType /\ t.buf = new /\ t.w = At(w, b) /\ t.on = TRUE
       /\ t.r = r /\ t.owed = s.owed /\ t.serial = s.serial
  BY <1>4, <1>6 DEF RingType
<1> HIDE DEF t
<1>11. At(w, b) = At(r, a + b)
  <2>1. At(At(r, a), b) = At(r, a + b)
    BY <1>1, <1>2, CellAfter, ZenonT(30)
  <2>2. QED BY <1>1, <2>1
<1>12. ASSUME NEW i \in 1 .. a + b
       PROVE  (q \o d)[i] = new[At(r, i - 1)]
  <2>1. CASE i <= a
    <3>1. i \in 1 .. a
      BY <1>2, <2>1
    <3>2. QED BY <1>1, <1>7, <1>9, <2>1, <3>1
  <2>2. CASE i > a
    <3>1. i - a \in 1 .. b /\ a + (i - a) - 1 = i - 1 /\ ~(i <= a)
      BY <1>1, <1>2, <2>2, SMTT(30)
    <3>2. new[At(r, a + (i - a) - 1)] = d[i - a]
      BY <1>8, <3>1
    <3>3. QED BY <1>9, <3>1, <3>2
  <2>3. QED BY <1>2, <2>1, <2>2
<1> PICK m : m = q \o d OBVIOUS
<1>13. Holds(t, m)
  <2>1. m \in Seq(Int) /\ Len(m) = a + b
    BY <1>9
  <2>2. \A i \in 1 .. Len(m) : m[i] = t.buf[At(t.r, i - 1)]
    BY <1>10, <1>12, <2>1
  <2>3. QED BY <1>1, <1>2, <1>4, <1>6, <1>10, <1>11, <2>1, <2>2 DEF Holds
<1>14. QED BY <1>3, <1>10, <1>13

\* A message is a sequence of bytes, cut in two without loss.
LEMMA MessageInTwo ==
  ASSUME NEW s \in RingType, NEW l \in Nat, NEW h \in 0 .. l,
         NEW m, m = Message(s, l)
  PROVE  /\ m \in Seq(Int)
         /\ SubSeq(m, 1, h) \in Seq(Int) /\ Len(SubSeq(m, 1, h)) = h
         /\ SubSeq(m, h + 1, l) \in Seq(Int) /\ Len(SubSeq(m, h + 1, l)) = l - h
         /\ SubSeq(m, 1, h) \o SubSeq(m, h + 1, l) = m
<1>1. s.serial \in Int
  BY DEF RingType, Values
<1>2. l \in Nat /\ h \in Nat /\ h <= l
  OBVIOUS
<1>3. m \in Seq(Int) /\ Len(m) = l
  <2>1. \A i \in 1 .. l : (s.serial + i) % Values \in Int
    BY <1>1 DEF Values
  <2>2. m = [i \in 1 .. l |-> (s.serial + i) % Values]
    BY <1>2 DEF Message
  <2>3. m \in [1 .. l -> Int]
    BY <2>1, <2>2
  <2>4. QED BY <2>3
<1>4. \A i \in 1 .. l : m[i] \in Int
  BY <1>3
<1>5. SubSeq(m, 1, h) \in Seq(Int) /\ Len(SubSeq(m, 1, h)) = h
  <2>1. \A i \in 1 .. h : m[i] \in Int
    BY <1>2, <1>4
  <2>2. QED BY <2>1, SubSeqProperties
<1>6. SubSeq(m, h + 1, l) \in Seq(Int) /\ Len(SubSeq(m, h + 1, l)) = l - h
  <2>1. \A i \in h + 1 .. l : m[i] \in Int
    BY <1>2, <1>4
  <2>2. /\ SubSeq(m, h + 1, l) \in Seq(Int)
        /\ Len(SubSeq(m, h + 1, l)) = IF h + 1 <= l THEN l - (h + 1) + 1 ELSE 0
    BY <1>2, <2>1, SubSeqProperties
  <2>3. QED BY <1>2, <2>2
<1>7. SubSeq(m, 1, h) \o SubSeq(m, h + 1, l) = m
  <2>1. /\ 1 \in 1 .. Len(m) + 1 /\ h \in 1 - 1 .. Len(m) /\ l \in h .. Len(m)
    BY <1>2, <1>3
  <2>2. SubSeq(m, 1, h) \o SubSeq(m, h + 1, l) = SubSeq(m, 1, l)
    BY <1>3, <2>1, ConcatAdjacentSubSeq
  <2>3. SubSeq(m, 1, Len(m)) = m
    BY <1>3, SubSeqFull
  <2>4. QED BY <1>3, <2>2, <2>3
<1>8. QED BY <1>2, <1>3, <1>5, <1>6, <1>7

\* Room for both parts of a message is room for the second after the first.
LEMMA RoomForBoth ==
  ASSUME NEW z \in Nat, NEW h \in Nat, NEW n \in Nat, ~(SendSize - 1 - z < h + n)
  PROVE  n <= SendSize - 1 - (z + h)
OBVIOUS

\* The ring holds what is owed, and its event is on while that is something.
Queue(s) ==
  /\ s \in RingType
  /\ Holds(s, s.owed)
  /\ s.on = (s.owed # <<>>)

\* Queueing a message leaves such a ring such a ring, whether it fits or not.
LEMMA PutQueues ==
  ASSUME NEW s, Queue(s), NEW h \in Nat \ {0}, NEW n \in Nat
  PROVE  Queue(Put(s, h, n))
<1>1. CASE avail(s) < h + n
  BY <1>1 DEF Put
<1>2. CASE ~(avail(s) < h + n)
  <2> PICK l, m, q : l = h + n /\ m = Message(s, l) /\ q = s.owed
    OBVIOUS
  <2> DEFINE d  == SubSeq(m, 1, h)
             e  == SubSeq(m, h + 1, l)
             s1 == Send(s, d)
             s2 == Send(s1, e)
             t  == [s2 EXCEPT !.owed = @ \o m, !.serial = (@ + h + n) % Values]
  <2>1. s \in RingType /\ Holds(s, q) /\ q \in Seq(Int) /\ s.serial \in Int
    BY DEF Queue, RingType, Values
  <2>2. /\ m \in Seq(Int) /\ d \in Seq(Int) /\ e \in Seq(Int)
        /\ Len(d) = h /\ Len(e) = n /\ d \o e = m
    <3>1. l \in Nat /\ h \in 0 .. l /\ l - h = n
      OBVIOUS
    <3>2. s \in RingType /\ m = Message(s, l)
      BY <2>1
    <3>3. /\ m \in Seq(Int) /\ d \in Seq(Int) /\ e \in Seq(Int)
          /\ Len(d) = h /\ Len(e) = l - h /\ d \o e = m
      BY <3>1, <3>2, MessageInTwo
    <3>4. QED BY <3>1, <3>3
  <2>3. Put(s, h, n) = t
    BY <1>2 DEF Put
  <2> HIDE DEF d, e
  <2>4. avail(s) = SendSize - 1 - Len(q) /\ Len(q) \in Nat
    <3>1. avail(s) = SendSize - 1 - Len(q)
      BY <2>1, AvailLeft
    <3>2. QED BY <2>1, <3>1
  <2>5. /\ s1 \in RingType /\ Holds(s1, q \o d) /\ s1.owed = q /\ s1.serial = s.serial
    <3>1. Len(d) <= avail(s)
      <4>1. avail(s) \in Int
        BY <2>4
      <4>2. QED BY <1>2, <2>2, <4>1
    <3>2. QED BY <2>1, <2>2, <3>1, SendAppends
  <2> HIDE DEF s1
  <2>6. q \o d \in Seq(Int) /\ Len(q \o d) = Len(q) + h
    BY <2>1, <2>2, ConcatProperties
  <2>7. /\ s2 \in RingType /\ Holds(s2, (q \o d) \o e) /\ s2.on = TRUE
        /\ s2.owed = q /\ s2.serial = s.serial
    <3>1. avail(s1) = SendSize - 1 - (Len(q) + h)
      BY <2>5, <2>6, AvailLeft
    <3>2. Len(e) <= avail(s1)
      <4>1. n <= SendSize - 1 - (Len(q) + h)
        BY <1>2, <2>4, RoomForBoth
      <4>2. QED BY <2>2, <3>1, <4>1
    <3>3. QED BY <2>2, <2>5, <3>2, SendAppends
  <2> HIDE DEF s2
  <2>8. (q \o d) \o e = q \o m
    <3>1. ASSUME NEW x \in Seq(Int), NEW y \in Seq(Int), NEW z \in Seq(Int)
          PROVE  (x \o y) \o z = x \o (y \o z)
      BY ConcatAssociative, SMTT(30)
    <3>2. q \in Seq(Int) /\ d \in Seq(Int) /\ e \in Seq(Int)
      BY <2>1, <2>2
    <3>3. (q \o d) \o e = q \o (d \o e)
      BY ONLY <3>1, <3>2
    <3>4. d \o e = m
      BY <2>2
    <3>5. QED BY ONLY <3>3, <3>4
  <2>9. q \o m \in Seq(Int) /\ Len(q \o m) = Len(q) + h + n /\ Len(q \o m) # 0
    <3>1. q \o m \in Seq(Int) /\ Len(q \o m) = Len(q) + Len(m)
      BY <2>1, <2>2, ConcatProperties
    <3>2. Len(m) = h + n
      BY <2>2, ConcatProperties
    <3>3. \A k \in Nat : k + (h + n) = k + h + n /\ k + h + n # 0
      OBVIOUS
    <3>4. QED BY <2>4, <3>1, <3>2, <3>3
  <2>10. q \o m # <<>>
    BY <2>9, EmptySeq
  <2>11. (s2.serial + h + n) % Values \in 0 .. Values - 1
    BY <2>1, <2>7 DEF Values
  <2>12. /\ t \in RingType /\ t.owed = q \o m /\ t.on = TRUE
         /\ t.buf = s2.buf /\ t.r = s2.r /\ t.w = s2.w
    BY <2>7, <2>9, <2>11 DEF RingType
  <2> HIDE DEF t
  <2>13. Holds(t, q \o m)
    BY <2>7, <2>8, <2>12, ZenonT(30) DEF Holds
  <2>14. QED BY <2>3, <2>10, <2>12, <2>13 DEF Queue
<1>3. QED BY <1>1, <1>2

\* Taking bytes out at the other end leaves the rest.
LEMMA TakeLeaves ==
  ASSUME NEW s, NEW q, Holds(s, q), NEW k \in Nat, k <= Len(q),
         NEW t, t.buf = s.buf, t.w = s.w, t.r = (s.r + k) % SendSize
  PROVE  Holds(t, SubSeq(q, k + 1, Len(q)))
<1> DEFINE p == SubSeq(q, k + 1, Len(q))
<1> PICK r, w, a, b : r = s.r /\ w = s.w /\ a = Len(q) /\ b = a - k
  OBVIOUS
<1>1. /\ q \in Seq(Int) /\ s.buf \in [Cells -> Int]
      /\ \A i \in 1 .. a : q[i] = s.buf[At(r, i - 1)]
  BY DEF Holds
<1>2. r \in Cells /\ w \in Cells /\ w = At(r, a) /\ a \in Cells
  BY DEF Holds
<1>3. a \in Nat /\ k \in Cells /\ b \in Nat /\ b \in Cells /\ k + b = a
  BY <1>2 DEF Cells
<1>4. t.r = At(r, k) /\ At(r, k) \in Cells
  BY <1>2, <1>3, AtIsRemainder
<1>5. /\ p \in Seq(Int) /\ Len(p) = b
      /\ \A i \in 1 .. b : p[i] = q[k + i]
  <2>1. \A i \in k + 1 .. a : q[i] \in Int
    BY <1>1, <1>3
  <2>2. PICK from \in Nat : from = k + 1
    BY <1>3
  <2>3. /\ p \in Seq(Int)
        /\ Len(p) = IF from <= a THEN a - from + 1 ELSE 0
        /\ \A i \in 1 .. a - from + 1 : p[i] = q[from + i - 1]
    <3>1. \A i \in from .. a : q[i] \in Int
      BY <2>1, <2>2
    <3>2. from \in Int /\ a \in Int
      BY <1>3, <2>2
    <3>3. p = SubSeq(q, from, a)
      BY <2>2
    <3> HIDE DEF p
    <3>4. QED BY ONLY <3>1, <3>2, <3>3, SubSeqProperties
  <2>4. /\ (IF from <= a THEN a - from + 1 ELSE 0) = b
        /\ a - from + 1 = b
        /\ \A i \in Nat : from + i - 1 = k + i
    <3>1. a \in Nat /\ k \in Int /\ b \in Nat /\ k + b = a
      BY <1>2, <1>3 DEF Cells
    <3>2. QED BY ONLY <2>2, <3>1
  <2>5. QED BY <2>3, <2>4
<1> HIDE DEF p
<1>6. w = At(At(r, k), b)
  <2>1. k + b \in Cells
    BY <1>2, <1>3
  <2>2. At(r, k + b) = At(At(r, k), b)
    <3>1. r \in Cells /\ k \in Nat /\ b \in Nat
      BY <1>2, <1>3
    <3>2. QED BY ONLY <2>1, <3>1, CellAfter
  <2>3. QED BY <1>2, <1>3, <2>2
<1>7. ASSUME NEW i \in 1 .. b
      PROVE  p[i] = s.buf[At(At(r, k), i - 1)]
  <2> PICK j, c : j = i - 1 /\ c = k + i
    OBVIOUS
  <2>1. j \in Nat /\ k + j \in Cells
    <3>1. j \in Nat /\ j < b
      BY <1>3
    <3>2. k + b <= SendSize - 1
      BY <1>2, <1>3 DEF Cells
    <3>3. QED BY <1>3, <3>1, <3>2 DEF Cells
  <2>2. c \in 1 .. a /\ c - 1 = k + j
    BY <1>3
  <2>3. q[c] = s.buf[At(r, k + j)]
    BY <1>1, <2>2
  <2>4. At(r, k + j) = At(At(r, k), j)
    <3>1. r \in Cells /\ k \in Nat
      BY <1>2
    <3>2. QED BY ONLY <2>1, <3>1, CellAfter
  <2>5. p[i] = q[c]
    BY <1>5
  <2>6. QED BY <2>3, <2>4, <2>5
<1>8. QED BY <1>1, <1>2, <1>3, <1>4, <1>5, <1>6, <1>7 DEF Holds, p

-----------------------------------------------------------------------------
(* The invariant                                                            *)

Inductive == TypeOK /\ Queue(Ring)

\* Putting the ring back in its variables gives the ring.
LEMMA BecomesIt ==
  ASSUME NEW s, Queue(s), Becomes(s)
  PROVE  /\ Ring' = s
         /\ send_buf_r' \in Cells /\ send_buf_w' \in Cells
         /\ write_event' \in BOOLEAN /\ serial' \in 0 .. Values - 1
<1>1. s \in RingType
  BY DEF Queue
<1>2. s = [buf |-> s.buf, r |-> s.r, w |-> s.w, on |-> s.on,
           owed |-> s.owed, serial |-> s.serial]
  BY <1>1 DEF RingType
<1>3. Ring' = s
  BY <1>2 DEF Ring, Becomes
<1>4. s.r \in Cells /\ s.w \in Cells /\ s.on \in BOOLEAN /\ s.serial \in 0 .. Values - 1
  BY <1>1 DEF RingType
<1>5. QED BY <1>3, <1>4 DEF Becomes

\* A ring with nothing in it is such a ring.
LEMMA EmptyQueue ==
  ASSUME NEW s, s = [buf |-> Empty, r |-> 0, w |-> 0, on |-> FALSE, owed |-> <<>>, serial |-> 0]
  PROVE  Queue(s)
<1>1. Empty \in [Cells -> Int] /\ 0 \in Cells /\ 0 \in 0 .. Values - 1
  BY DEF Empty, Cells, Values
<1>2. <<>> \in Seq(Int) /\ Len(<<>>) = 0
  OBVIOUS
<1>3. s \in RingType
  BY <1>1, <1>2 DEF RingType
<1>4. At(0, 0) = 0
  BY DEF At
<1>5. Holds(s, s.owed)
  BY <1>1, <1>2, <1>4 DEF Holds
<1>6. QED BY <1>3, <1>5 DEF Queue

LEMMA InitInductive == ConnInit => Inductive
<1> SUFFICES ASSUME ConnInit PROVE Inductive
  OBVIOUS
<1>1. Queue(Ring)
  BY EmptyQueue DEF ConnInit, Ring
<1>2. TypeOK
  <2>1. 0 \in Cells /\ 0 \in 0 .. Values - 1
    BY DEF Cells, Values
  <2>2. req_buf \in Seq(Pieces)
    BY DEF ConnInit
  <2>3. /\ open \in BOOLEAN /\ write_event \in BOOLEAN
        /\ drop_after \in BOOLEAN /\ streaming \in BOOLEAN
    BY DEF ConnInit
  <2>4. /\ proto \in Protos /\ send_buf_r \in Cells /\ send_buf_w \in Cells
        /\ serial \in 0 .. Values - 1
    BY <2>1 DEF ConnInit, Protos
  <2>5. QED BY <2>2, <2>3, <2>4 DEF TypeOK
<1>3. QED BY <1>1, <1>2 DEF Inductive

LEMMA DropStep ==
  ASSUME Drop
  PROVE  Inductive'
<1>1. Queue(Ring)'
  <2>1. Ring' = [buf |-> Empty, r |-> 0, w |-> 0, on |-> FALSE, owed |-> <<>>, serial |-> 0]
    BY DEF Drop, Ring
  <2>2. Queue(Ring')
    BY <2>1, EmptyQueue
  <2>3. QED BY <2>2
<1>2. TypeOK'
  <2>1. 0 \in Cells /\ 0 \in 0 .. Values - 1
    BY DEF Cells, Values
  <2>2. req_buf' \in Seq(Pieces)
    BY DEF Drop
  <2>3. /\ open' \in BOOLEAN /\ write_event' \in BOOLEAN
        /\ drop_after' \in BOOLEAN /\ streaming' \in BOOLEAN
    BY DEF Drop
  <2>4. /\ proto' \in Protos /\ send_buf_r' \in Cells /\ send_buf_w' \in Cells
        /\ serial' \in 0 .. Values - 1
    BY <2>1 DEF Drop, Protos
  <2>5. QED BY <2>2, <2>3, <2>4 DEF TypeOK
<1>3. QED BY <1>1, <1>2 DEF Inductive

\* The variables outside the ring.
Control == /\ open \in BOOLEAN /\ proto \in Protos /\ req_buf \in Seq(Pieces)
           /\ drop_after \in BOOLEAN /\ streaming \in BOOLEAN

LEMMA BothParts ==
  /\ Control' /\ Queue(Ring)' => Inductive'
  /\ Inductive => Control /\ Queue(Ring)
<1>1. ASSUME Control', Queue(Ring)' PROVE Inductive'
  <2>1. (Ring \in RingType)'
    BY <1>1 DEF Queue
  <2>2. write_event' \in BOOLEAN
    BY <2>1 DEF Ring, RingType
  <2>3. send_buf_r' \in Cells /\ send_buf_w' \in Cells /\ serial' \in 0 .. Values - 1
    BY <2>1 DEF Ring, RingType
  <2>4. QED BY <1>1, <2>2, <2>3 DEF Inductive, TypeOK, Control
<1>2. ASSUME Inductive PROVE Control /\ Queue(Ring)
  BY <1>2 DEF Inductive, TypeOK, Control
<1>3. QED BY <1>1, <1>2

LEMMA SameRing ==
  ASSUME Queue(Ring), UNCHANGED sending
  PROVE  Queue(Ring)'
<1>1. Ring' = Ring
  BY DEF sending, Ring
<1>2. QED BY <1>1

LEMMA PutStep ==
  ASSUME Queue(Ring), NEW h \in 1 .. Allowance, NEW n \in Nat, Becomes(Put(Ring, h, n))
  PROVE  Queue(Ring)'
<1>1. Queue(Put(Ring, h, n))
  BY PutQueues
<1>2. Ring' = Put(Ring, h, n)
  BY <1>1, BecomesIt
<1>3. QED BY <1>1, <1>2

LEMMA PutTwiceStep ==
  ASSUME Queue(Ring), NEW h \in 1 .. Allowance, NEW b \in 1 .. Allowance, NEW n \in Nat,
         Becomes(Put(Put(Ring, h, 0), b, n))
  PROVE  Queue(Ring)'
<1> PICK s : s = Put(Ring, h, 0)
  OBVIOUS
<1>1. Queue(s)
  BY PutQueues
<1>2. Queue(Put(s, b, n))
  BY <1>1, PutQueues
<1>3. Ring' = Put(s, b, n)
  BY <1>2, BecomesIt
<1>4. QED BY <1>2, <1>3

\* The number of bytes that conn_write has to write, and which they are.
LEMMA RingUsed ==
  ASSUME Queue(Ring)
  PROVE  Used = Len(owed) /\ Contents = owed
<1> PICK r, w, a : r = send_buf_r /\ w = send_buf_w /\ a = Len(owed)
  OBVIOUS
<1>1. owed \in Seq(Int) /\ \A i \in 1 .. a : owed[i] = send_buf[At(r, i - 1)]
  BY DEF Queue, Holds, Ring
<1>2. r \in Cells /\ w \in Cells /\ a \in Cells /\ w = At(r, a)
  BY DEF Queue, Holds, Ring
<1>3. a \in Nat /\ 0 \in Nat /\ 0 + a \in Cells /\ 0 + a = a
  BY <1>2 DEF Cells
<1>4. At(r, 0) = r
  BY <1>2 DEF At, Cells
<1>5. Distance(r, At(r, a)) = a
  BY <1>2 DEF At, Distance, Cells
<1>6. (w - r) % SendSize = Distance(r, w)
  BY <1>2, DistanceIsRemainder
<1>7. Used = a
  BY <1>2, <1>5, <1>6 DEF Used
<1>8. ASSUME NEW i \in 1 .. a
      PROVE  send_buf[(send_buf_r + i - 1) % SendSize] = owed[i]
  <2>1. i - 1 \in Cells /\ r + (i - 1) = r + i - 1
    BY <1>2 DEF Cells
  <2>2. (r + (i - 1)) % SendSize = At(r, i - 1)
    BY <1>2, <2>1, AtIsRemainder
  <2>3. (r + i - 1) % SendSize = At(r, i - 1)
    BY <2>1, <2>2
  <2>4. QED BY <1>1, <2>3
<1>9. Contents = [i \in 1 .. a |-> owed[i]]
  BY <1>7, <1>8 DEF Contents
<1>10. owed = [i \in 1 .. a |-> owed[i]]
  BY <1>1
<1>11. QED BY <1>7, <1>9, <1>10

LEMMA ConnWriteStep ==
  ASSUME Inductive, NEW k \in Cells, ConnWrite(k)
  PROVE  Inductive'
<1>1. Control /\ Queue(Ring)
  BY BothParts
<1>2. CASE k = Used /\ drop_after /\ Drop
  BY <1>2, DropStep
<1>3. CASE ~(k = Used /\ drop_after /\ Drop)
  <2> PICK a : a = Len(owed)
    OBVIOUS
  <2>1. /\ k > 0 /\ k <= Used
        /\ send_buf_r' = (send_buf_r + k) % SendSize
        /\ owed' = SubSeq(owed, k + 1, Len(owed))
        /\ write_event' = (k < Used)
        /\ UNCHANGED <<open, requests, send_buf, send_buf_w, serial, drop_after, streaming>>
    BY <1>3 DEF ConnWrite
  <2>2. Used = a /\ a \in Nat /\ owed \in Seq(Int) /\ k \in Nat /\ k <= a
    <3>1. Used = a
      BY <1>1, RingUsed
    <3>2. owed \in Seq(Int)
      BY <1>1 DEF Queue, Holds, Ring
    <3>3. QED BY <2>1, <3>1, <3>2 DEF Cells
  <2>3. Holds(Ring', owed')
    <3>1. Holds(Ring, owed)
      BY <1>1 DEF Queue, Ring
    <3>2. Ring'.buf = Ring.buf /\ Ring'.w = Ring.w /\ Ring'.r = (Ring.r + k) % SendSize
      BY <2>1 DEF Ring
    <3>3. Holds(Ring', SubSeq(owed, k + 1, Len(owed)))
      BY <2>2, <3>1, <3>2, TakeLeaves
    <3>4. QED BY <2>1, <3>3
  <2>4. owed' \in Seq(Int) /\ (owed' # <<>>) = (k < a)
    <3>1. \A i \in k + 1 .. a : owed[i] \in Int
      BY <2>2
    <3>2. /\ owed' \in Seq(Int)
          /\ Len(owed') = IF k + 1 <= a THEN a - (k + 1) + 1 ELSE 0
      BY <2>1, <2>2, <3>1, SubSeqProperties
    <3>3. (Len(owed') # 0) = (k < a)
      BY <2>2, <3>2
    <3>4. (owed' # <<>>) = (Len(owed') # 0)
      BY <3>2, EmptySeq
    <3>5. QED BY <3>2, <3>3, <3>4
  <2>5. Queue(Ring)'
    <3>1. Ring'.on = (Ring'.owed # <<>>)
      BY <2>1, <2>2, <2>4 DEF Ring
    <3>2. write_event' \in BOOLEAN
      BY <2>1
    <3>3. send_buf' \in [Cells -> Int] /\ send_buf_r' \in Cells /\ send_buf_w' \in Cells
      BY <2>3 DEF Holds, Ring
    <3>4. serial' \in 0 .. Values - 1
      BY <1>1, <2>1 DEF Queue, Ring, RingType
    <3>5. Ring' \in RingType
      BY <2>4, <3>2, <3>3, <3>4 DEF Ring, RingType
    <3>6. Ring'.owed = owed'
      BY DEF Ring
    <3>7. QED BY <2>3, <3>1, <3>5, <3>6 DEF Queue
  <2>6. Control'
    BY <1>1, <2>1 DEF Control, requests
  <2>7. QED BY <2>5, <2>6, BothParts
<1>4. QED BY <1>2, <1>3

LEMMA ReadStep ==
  ASSUME Inductive, NEW x \in Segments, Read(x)
  PROVE  Inductive'
<1>1. Control /\ Queue(Ring)
  BY BothParts
<1>2. Filled(x) \in Seq(Pieces)
  <2>1. x \in Seq(Pieces)
    BY DEF Segments
  <2>2. QED BY <1>1, <2>1, ConcatProperties DEF Filled, Control
<1>3. <<>> \in Seq(Pieces)
  OBVIOUS
<1>4. ASSUME ReadMore(x) PROVE Inductive'
  <2>1. Queue(Ring)'
    BY <1>1, <1>4, SameRing DEF ReadMore
  <2>2. proto' \in Protos
    BY <1>1, <1>4 DEF ReadMore, Control
  <2>3. Control'
    BY <1>1, <1>2, <1>4, <2>2 DEF ReadMore, Control
  <2>4. QED BY <2>1, <2>3, BothParts
<1>5. ASSUME ReadBad(x) PROVE Inductive'
  BY <1>5, DropStep DEF ReadBad
<1>6. ASSUME ReadPacket(x) PROVE Inductive'
  <2>1. Queue(Ring)'
    BY <1>1, <1>6, SameRing DEF ReadPacket
  <2>2. proto' \in Protos /\ req_buf' = <<>>
    BY <1>6 DEF ReadPacket, Clear
  <2>3. Control'
    BY <1>1, <1>3, <1>6, <2>2 DEF ReadPacket, Control
  <2>4. QED BY <2>1, <2>3, BothParts
<1>7. ASSUME RtspRequest(x) PROVE Inductive'
  <2>1. Queue(Ring)'
    BY <1>1, <1>7, PutStep DEF RtspRequest
  <2>2. Control'
    BY <1>1, <1>3, <1>7 DEF RtspRequest, Requested, Clear, Control, Protos
  <2>3. QED BY <2>1, <2>2, BothParts
<1>8. ASSUME HttpError(x) PROVE Inductive'
  <2>1. Queue(Ring)'
    BY <1>1, <1>8, PutStep DEF HttpError
  <2>2. Control'
    BY <1>1, <1>3, <1>8 DEF HttpError, Requested, Clear, Control, Protos
  <2>3. QED BY <2>1, <2>2, BothParts
<1>9. ASSUME TunnelGet(x) PROVE Inductive'
  <2>1. Queue(Ring)'
    BY <1>1, <1>9, PutStep DEF TunnelGet
  <2>2. Control'
    BY <1>1, <1>3, <1>9 DEF TunnelGet, Requested, Clear, Control, Protos
  <2>3. QED BY <2>1, <2>2, BothParts
<1>10. ASSUME NEW f \in 1 .. MaxFrame, HttpFrame(x, f) PROVE Inductive'
  <2>1. Queue(Ring)'
    BY <1>1, <1>10, PutStep DEF HttpFrame
  <2>2. Control'
    BY <1>1, <1>3, <1>10 DEF HttpFrame, Requested, Clear, Control, Protos
  <2>3. QED BY <2>1, <2>2, BothParts
<1>11. ASSUME NEW f \in 1 .. MaxFrame, HttpStream(x, f) PROVE Inductive'
  <2>1. Queue(Ring)'
    BY <1>1, <1>11, PutTwiceStep DEF HttpStream
  <2>2. Control'
    BY <1>1, <1>3, <1>11 DEF HttpStream, Requested, Clear, Control, Protos
  <2>3. QED BY <2>1, <2>2, BothParts
<1>12. QED BY <1>4, <1>5, <1>6, <1>7, <1>8, <1>9, <1>10, <1>11 DEF Read

LEMMA NextInductive == Inductive /\ [ConnNext]_connVars => Inductive'
<1> SUFFICES ASSUME Inductive, [ConnNext]_connVars PROVE Inductive'
  OBVIOUS
<1>1. Control /\ Queue(Ring)
  BY BothParts
<1>2. CASE Accept
  <2>1. Queue(Ring)'
    BY <1>1, <1>2, SameRing DEF Accept
  <2>2. Control'
    BY <1>1, <1>2 DEF Accept, Control, requests
  <2>3. QED BY <2>1, <2>2, BothParts
<1>3. CASE ReadEnd \/ WriteError
  BY <1>3, DropStep DEF ReadEnd, WriteError
<1>4. ASSUME NEW x \in Segments, Read(x) PROVE Inductive'
  BY <1>4, ReadStep
<1>5. ASSUME NEW k \in Cells, ConnWrite(k) PROVE Inductive'
  BY <1>5, ConnWriteStep
<1>6. ASSUME NEW h \in 1 .. Allowance, NEW n \in 0 .. MaxFrame, SendFrame(h, n)
      PROVE  Inductive'
  <2>1. Queue(Ring)'
    BY <1>1, <1>6, PutStep DEF SendFrame
  <2>2. Control'
    BY <1>1, <1>6 DEF SendFrame, Control, requests
  <2>3. QED BY <2>1, <2>2, BothParts
<1>7. CASE UNCHANGED connVars
  <2>1. Queue(Ring)'
    BY <1>1, <1>7, SameRing DEF connVars
  <2>2. Control'
    BY <1>1, <1>7 DEF connVars, requests, Control
  <2>3. QED BY <2>1, <2>2, BothParts
<1>8. QED BY <1>2, <1>3, <1>4, <1>5, <1>6, <1>7 DEF ConnNext

-----------------------------------------------------------------------------
(* The theorems                                                             *)

\* The bytes of the ring are, in every state of a connection, those of the
\* messages queued and not yet written, and its event is on while there are any.
THEOREM Invariance == ConnSpec => []Inductive
<1>1. QED BY InitInductive, NextInductive, PTL DEF ConnSpec

\* The indices of the ring stay inside send_buf, for every size of it.
THEOREM TypeCorrect == ConnSpec => []TypeOK
<1>1. Inductive => TypeOK
  BY DEF Inductive
<1>2. QED BY <1>1, Invariance, PTL

\* However messages are cut by the end of send_buf and by the socket, what
\* conn_write has before it is the messages queued, whole and in order, less
\* what it has written.
THEOREM RingIsFaithful == ConnSpec => []RingMatches
<1>1. Inductive => RingMatches
  BY BothParts, RingUsed DEF RingMatches
<1>2. QED BY <1>1, Invariance, PTL

\* The write event is on exactly while the ring is not empty: send_data turns
\* it on, and conn_write off with the last byte, never earlier.
THEOREM NobodyForgotten == ConnSpec => []EventWhileOwed
<1>1. ASSUME Inductive PROVE EventWhileOwed
  <2>1. Queue(Ring)
    BY <1>1, BothParts
  <2>2. Used = Len(owed)
    BY <2>1, RingUsed
  <2>3. owed \in Seq(Int) /\ write_event = (owed # <<>>)
    BY <2>1 DEF Queue, Holds, Ring
  <2>4. (owed # <<>>) = (Len(owed) > 0)
    BY <2>3, EmptySeq
  <2>5. QED BY <2>2, <2>3, <2>4 DEF EventWhileOwed
<1>2. QED BY <1>1, Invariance, PTL

-----------------------------------------------------------------------------
(* The requests of a connection                                             *)

\* The bound that add_pmsg_string's 512 bytes put on a client: with a CSeq of
\* more characters a challenge would no longer fit.
ShortCSeqs == CSeqLens \subseteq 0 .. 238

-----------------------------------------------------------------------------
(* Dates as hexadecimal digits                                              *)

\* The order of the numbers as a set, in which a least number is sought.
Before == {p \in Nat \X Nat : p[1] < p[2]}

LEMMA LeastNumber ==
  ASSUME NEW S \in SUBSET Nat, S # {}
  PROVE  \E n \in S : \A m \in S : n <= m
<1>1. IsWellFoundedOn(Before, Nat)
  BY NatLessThanWellFounded DEF OpToRel, Before
<1>2. \E n \in S : \A m \in S : ~ (<<m, n>> \in Before)
  BY <1>1, WFMin, S \subseteq Nat
<1>3. PICK n \in S : \A m \in S : ~ (<<m, n>> \in Before)
  BY <1>2
<1>4. ASSUME NEW m \in S PROVE n <= m
  <2>1. m \in Nat /\ n \in Nat
    OBVIOUS
  <2>2. m < n => <<m, n>> \in Before
    BY <2>1 DEF Before
  <2>3. QED BY <1>3, <2>1, <2>2
<1>5. QED BY <1>4

LEMMA UpTo ==
  ASSUME NEW k \in Nat, NEW S \in SUBSET (0 .. k), 0 \in S,
         \A n \in 0 .. k - 1 : n \in S => n + 1 \in S
  PROVE  \A n \in 0 .. k : n \in S
<1>1. SUFFICES ASSUME (0 .. k) \ S # {} PROVE FALSE
  OBVIOUS
<1>2. (0 .. k) \ S \in SUBSET Nat
  OBVIOUS
<1>3. PICK n \in (0 .. k) \ S : \A m \in (0 .. k) \ S : n <= m
  BY <1>1, <1>2, LeastNumber
<1>4. n - 1 \in 0 .. k - 1 /\ n - 1 \in S
  BY <1>3
<1>5. QED BY <1>3, <1>4

\* A computation on S in k steps from x, each from the result of the one before.
StepsOn(k, S)       == [1 .. k -> [S -> S]]
Computes(g, k, x, f) == g[0] = x /\ \A i \in 1 .. k : g[i] = f[i][g[i - 1]]
Computed(k, S, x, f) == \E g \in [0 .. k -> S] : Computes(g, k, x, f)

LEMMA InSteps ==
  ASSUME NEW k \in Nat, NEW S, NEW x \in S, NEW f \in StepsOn(k, S)
  PROVE  Computed(k, S, x, f)
<1> USE DEF StepsOn, Computes, Computed
<1> DEFINE Part(m) == \E g \in [0 .. m -> S] :
                        g[0] = x /\ \A i \in 1 .. m : g[i] = f[i][g[i - 1]]
           T == {m \in 0 .. k : Part(m)}
<1>1. 0 \in T
  <2> DEFINE g == [i \in 0 .. 0 |-> x]
  <2>1. g \in [0 .. 0 -> S] /\ g[0] = x
    OBVIOUS
  <2> HIDE DEF g
  <2>2. Part(0)
    BY <2>1
  <2>3. QED BY <2>2
<1>2. ASSUME NEW m \in 0 .. k - 1, m \in T PROVE m + 1 \in T
  <2>1. PICK g \in [0 .. m -> S] : g[0] = x /\ \A i \in 1 .. m : g[i] = f[i][g[i - 1]]
    BY <1>2
  <2>2. m + 1 \in 1 .. k /\ m + 1 \in 0 .. k /\ m \in 0 .. m
    OBVIOUS
  <2>3. f[m + 1][g[m]] \in S
    BY <2>1, <2>2
  <2> DEFINE h == [i \in 0 .. m + 1 |-> IF i <= m THEN g[i] ELSE f[m + 1][g[m]]]
  <2>4. h \in [0 .. m + 1 -> S]
    BY <2>1, <2>3
  <2>5. (\A i \in 0 .. m : h[i] = g[i]) /\ h[m + 1] = f[m + 1][g[m]]
    BY <2>2
  <2> HIDE DEF h
  <2>6. ASSUME NEW i \in 1 .. m + 1 PROVE h[i] = f[i][h[i - 1]]
    <3>1. CASE i <= m
      <4>1. i \in 1 .. m /\ i \in 0 .. m /\ i - 1 \in 0 .. m
        BY <3>1
      <4>2. QED BY <2>1, <2>5, <4>1
    <3>2. CASE i = m + 1
      <4>1. i - 1 = m
        BY <3>2
      <4>2. QED BY <2>2, <2>5, <3>2, <4>1
    <3>3. QED BY <3>1, <3>2
  <2>7. Part(m + 1)
    BY <2>1, <2>2, <2>4, <2>5, <2>6
  <2>8. QED BY <2>2, <2>7
<1>3. T \in SUBSET (0 .. k)
  OBVIOUS
<1>4. k \in 0 .. k
  OBVIOUS
<1> HIDE DEF T
<1>5. k \in T
  BY <1>1, <1>2, <1>3, <1>4, UpTo
<1>6. QED BY <1>5 DEF T

LEMMA WeightStep ==
  /\ Weight[0] = 1
  /\ \A i \in 1 .. Digits : Weight[i] = 16 * Weight[i - 1]
  /\ Weight \in [0 .. Digits -> Nat]
<1> USE DigitsAssumption
<1> DEFINE Def(g) == [n \in 0 .. Digits |-> IF n = 0 THEN 1 ELSE 16 * g[n - 1]]
           f == [i \in 1 .. Digits |-> [v \in Nat |-> 16 * v]]
<1>1. f \in [1 .. Digits -> [Nat -> Nat]]
  OBVIOUS
<1>2. \A i \in 1 .. Digits : \A v \in Nat : f[i][v] = 16 * v
  OBVIOUS
<1> HIDE DEF f
<1>3. PICK g \in [0 .. Digits -> Nat] :
        g[0] = 1 /\ \A i \in 1 .. Digits : g[i] = f[i][g[i - 1]]
  <2>1. PICK S : S = Nat
    OBVIOUS
  <2>2. PICK k \in Nat : k = Digits
    OBVIOUS
  <2>3. PICK one \in S : one = 1
    BY <2>1
  <2>4. f \in StepsOn(k, S)
    BY <1>1, <2>1, <2>2 DEF StepsOn
  <2>5. Computed(k, S, one, f)
    BY <2>4, InSteps
  <2>6. QED BY <2>1, <2>2, <2>3, <2>5 DEF Computed, Computes
<1>4. \A n \in 0 .. Digits : g[n] = IF n = 0 THEN 1 ELSE 16 * g[n - 1]
  <2>1. ASSUME NEW n \in 1 .. Digits PROVE g[n] = 16 * g[n - 1]
    <3>1. n - 1 \in 0 .. Digits /\ g[n - 1] \in Nat
      BY <1>3
    <3>2. f[n][g[n - 1]] = 16 * g[n - 1]
      BY <1>2, <3>1
    <3>3. QED BY <1>3, <3>2
  <2>2. QED BY <1>3, <2>1
<1>5. g = [n \in 0 .. Digits |-> g[n]]
  BY <1>3
<1>6. g = Def(g)
  BY ONLY <1>4, <1>5
<1>7. Weight = CHOOSE h : h = Def(h)
  BY DEF Weight
<1> HIDE DEF Def
<1>8. Weight = Def(Weight)
  BY <1>6, <1>7
<1>9. \A n \in 0 .. Digits : Weight[n] = IF n = 0 THEN 1 ELSE 16 * Weight[n - 1]
  BY <1>8 DEF Def
<1>10. Weight = [n \in 0 .. Digits |-> Weight[n]]
  BY <1>8 DEF Def
<1>11. Weight[0] = 1 /\ \A i \in 1 .. Digits : Weight[i] = 16 * Weight[i - 1]
  BY <1>9
<1> DEFINE T == {i \in 0 .. Digits : Weight[i] \in Nat}
<1>12. \A i \in 0 .. Digits : i \in T
  <2>1. 0 \in T
    BY <1>11
  <2>2. ASSUME NEW i \in 0 .. Digits - 1, i \in T PROVE i + 1 \in T
    <3>1. i + 1 \in 1 .. Digits /\ (i + 1) - 1 = i /\ Weight[i] \in Nat /\ i + 1 \in 0 .. Digits
      BY <2>2
    <3>2. Weight[i + 1] = 16 * Weight[i]
      BY <1>11, <3>1
    <3>3. QED BY <3>1, <3>2
  <2>3. T \in SUBSET (0 .. Digits) /\ Digits \in Nat
    OBVIOUS
  <2> HIDE DEF T
  <2>4. QED BY <2>1, <2>2, <2>3, UpTo
<1>13. QED BY <1>10, <1>11, <1>12

\* Width is a multiple of every weight.
LEMMA WeightDivides ==
  ASSUME NEW i \in 0 .. Digits
  PROVE  /\ Weight[i] \in Nat \ {0} /\ Width \in Nat \ {0}
         /\ \E b \in Nat : Width = b * Weight[i]
<1> USE DigitsAssumption
<1> DEFINE T == {j \in 0 .. Digits : Weight[j] # 0}
           U == {j \in 0 .. Digits : \E b \in Nat : Width = b * Weight[Digits - j]}
<1>1. \A j \in 0 .. Digits : j \in T
  <2>1. 0 \in T
    BY WeightStep
  <2>2. ASSUME NEW j \in 0 .. Digits - 1, j \in T PROVE j + 1 \in T
    <3>1. j + 1 \in 1 .. Digits /\ (j + 1) - 1 = j /\ j + 1 \in 0 .. Digits
      OBVIOUS
    <3>2. Weight[j + 1] = 16 * Weight[j] /\ Weight[j] \in Nat /\ Weight[j] # 0
      BY <2>2, <3>1, WeightStep
    <3>3. QED BY <3>1, <3>2
  <2>3. T \in SUBSET (0 .. Digits) /\ Digits \in Nat
    OBVIOUS
  <2> HIDE DEF T
  <2>4. QED BY <2>1, <2>2, <2>3, UpTo
<1>2. \A j \in 0 .. Digits : Weight[j] \in Nat \ {0}
  BY <1>1, WeightStep
<1>3. \A j \in 0 .. Digits : j \in U
  <2>1. 0 \in U
    <3>1. Width = 1 * Weight[Digits - 0]
      BY <1>2 DEF Width
    <3>2. QED BY <3>1
  <2>2. ASSUME NEW j \in 0 .. Digits - 1, j \in U PROVE j + 1 \in U
    <3>1. PICK k \in 1 .. Digits : k = Digits - j /\ k - 1 = Digits - (j + 1) /\ k - 1 \in 0 .. Digits
      OBVIOUS
    <3>2. PICK b \in Nat : Width = b * Weight[k]
      BY <2>2, <3>1
    <3>3. PICK x \in Nat : x = Weight[k - 1]
      BY <3>1, WeightStep
    <3>4. Weight[k] = 16 * x
      BY <3>3, WeightStep
    <3>5. PICK c \in Nat : c = 16 * b
      OBVIOUS
    <3>6. b * (16 * x) = c * x
      BY <3>5
    <3>7. Width = c * Weight[Digits - (j + 1)]
      BY <3>1, <3>2, <3>3, <3>4, <3>6
    <3>8. j + 1 \in 0 .. Digits
      OBVIOUS
    <3>9. QED BY <3>7, <3>8
  <2>3. U \in SUBSET (0 .. Digits) /\ Digits \in Nat
    OBVIOUS
  <2> HIDE DEF U
  <2>4. QED BY <2>1, <2>2, <2>3, UpTo
<1>4. Digits - i \in 0 .. Digits /\ Digits - (Digits - i) = i
  OBVIOUS
<1>5. \E b \in Nat : Width = b * Weight[i]
  <2>1. Digits - i \in U
    BY <1>3, <1>4
  <2>2. QED BY <1>4, <2>1
<1>6. Width \in Nat \ {0}
  BY <1>2 DEF Width
<1>7. QED BY <1>2, <1>5, <1>6

LEMMA DivideTwice ==
  ASSUME NEW d \in Nat, NEW p \in Nat \ {0}
  PROVE  (d \div p) \div 16 = d \div (16 * p)
<1>1. PICK q \in Nat, r \in 0 .. p - 1 : d = p * q + r
  <2>1. d \div p \in Nat /\ d % p \in 0 .. p - 1 /\ d = p * (d \div p) + (d % p)
    OBVIOUS
  <2>2. QED BY <2>1
<1>2. d \div p = q
  BY <1>1
<1>3. PICK a \in Nat, b \in 0 .. 15 : q = 16 * a + b
  <2>1. q \div 16 \in Nat /\ q % 16 \in 0 .. 15 /\ q = 16 * (q \div 16) + (q % 16)
    OBVIOUS
  <2>2. QED BY <2>1
<1>4. q \div 16 = a
  BY <1>3
<1>5. PICK c \in Nat : c = p * b + r /\ c < 16 * p
  OBVIOUS
<1>6. PICK e \in Nat \ {0} : e = 16 * p
  OBVIOUS
<1>7. d = e * a + c /\ c < e
  BY <1>1, <1>3, <1>5, <1>6
<1>8. d \div e = a
  BY <1>7
<1>9. QED BY <1>2, <1>4, <1>6, <1>8

\* val holds m in the digits read so far, w of them in weight; one more is read.
Added(i, a, m, d) ==
  /\ Digit(a * Weight[i - 1] + m, d) \in 0 .. Width - 1
  /\ \E c \in Int : \E n \in 0 .. Weight[i] - 1 :
       Digit(a * Weight[i - 1] + m, d) = c * Weight[i] + n /\ n >= 16 * m + d

LEMMA DigitAdds ==
  ASSUME NEW i \in 1 .. Digits, NEW a \in Int, NEW m \in 0 .. Weight[i - 1] - 1,
         NEW d \in 0 .. 15
  PROVE  Added(i, a, m, d)
<1> USE DigitsAssumption
<1>1. PICK w \in Nat \ {0} : w = Weight[i - 1] /\ Weight[i] = 16 * w /\ m < w
  <2>1. i - 1 \in 0 .. Digits
    OBVIOUS
  <2>2. Weight[i - 1] \in Nat \ {0}
    BY <2>1, WeightDivides
  <2>3. Weight[i] = 16 * Weight[i - 1]
    BY WeightStep
  <2>4. QED BY <2>2, <2>3
<1>2. PICK val \in Int : val = a * w + m
  OBVIOUS
<1> DEFINE or3 == (val - (val % 4)) + 3
\* What is ORed in lies within the digits read so far, or before them all.
<1>3. \E e \in Int : \E n \in 0 .. w - 1 : or3 = e * w + n /\ n >= m
  <2>1. CASE i = 1
    <3>1. w = 1 /\ m = 0
      BY <1>1, <2>1, WeightStep
    <3>2. PICK e \in Int : e = or3
      OBVIOUS
    <3>3. e = e * w + 0
      BY <3>1
    <3>4. QED BY <3>1, <3>2, <3>3
  <2>2. CASE i # 1
    <3>1. PICK x \in Nat \ {0} : w = 16 * x
      <4>1. i - 1 \in 1 .. Digits /\ (i - 1) - 1 \in 0 .. Digits
        BY <2>2
      <4>2. Weight[i - 1] = 16 * Weight[(i - 1) - 1]
        BY <4>1, WeightStep
      <4>3. Weight[(i - 1) - 1] \in Nat \ {0}
        BY <4>1, WeightDivides
      <4>4. QED BY <1>1, <4>2, <4>3
    <3>2. PICK y \in Int : y = a * (4 * x)
      OBVIOUS
    <3>3. val = 4 * y + m
      BY <1>2, <3>1, <3>2
    <3>4. val % 4 = m % 4
      BY <3>3
    <3>5. PICK n \in Int : n = (m - (m % 4)) + 3
      OBVIOUS
    <3>6. n \in 0 .. w - 1 /\ n >= m
      BY <1>1, <3>1, <3>5
    <3>7. or3 = a * w + n
      BY <1>2, <3>4, <3>5
    <3>8. QED BY <3>6, <3>7
  <2>3. QED BY <2>1, <2>2
<1>4. \E e \in Int : \E n \in 0 .. w - 1 :
        (IF d < 10 THEN 16 * or3 + d ELSE 16 * val + d) = 16 * (e * w + n) + d /\ n >= m
  <2>1. CASE d < 10
    BY <1>3, <2>1
  <2>2. CASE ~ (d < 10)
    BY <1>1, <1>2, <2>2
  <2>3. QED BY <2>1, <2>2
<1>5. PICK e \in Int : \E n \in 0 .. w - 1 :
        (IF d < 10 THEN 16 * or3 + d ELSE 16 * val + d) = 16 * (e * w + n) + d /\ n >= m
  BY <1>4
<1>6. PICK n \in 0 .. w - 1 :
        (IF d < 10 THEN 16 * or3 + d ELSE 16 * val + d) = 16 * (e * w + n) + d /\ n >= m
  BY <1>5
<1>7. PICK x \in Int : x = 16 * (e * w + n) + d
  OBVIOUS
<1>8. Digit(a * Weight[i - 1] + m, d) = x % Width
  BY <1>1, <1>2, <1>6, <1>7 DEF Digit
<1>9. PICK b \in Nat : Width = b * Weight[i] /\ Width \in Nat \ {0}
  BY WeightDivides
<1>10. PICK k \in Int : x % Width = x - k * Width
  <2>1. PICK z \in Nat \ {0} : z = Width
    BY <1>9
  <2>2. PICK y \in Int : y = x \div z
    BY <2>1
  <2>3. x = z * y + (x % z) /\ x % z \in Int
    BY ONLY x \in Int, z \in Nat \ {0}, <2>2
  <2>4. x % z = x - y * z
    BY ONLY x \in Int, y \in Int, z \in Nat \ {0}, <2>3
  <2>5. QED BY <2>1, <2>4
<1>11. PICK v \in Nat : v = Weight[i] /\ v = 16 * w
  BY <1>1
<1>12. PICK c \in Int : c = e - k * b
  BY <1>9
<1>13. PICK p \in 0 .. v - 1 : p = 16 * n + d
  BY <1>11
<1>14. x = e * v + p
  BY <1>7, <1>11, <1>13
<1>15. k * Width = (k * b) * v
  BY <1>9, <1>11
<1>16. x % Width = c * v + p
  BY <1>9, <1>10, <1>12, <1>14, <1>15
<1>17. x % Width \in 0 .. Width - 1
  BY <1>9
<1>18. p >= 16 * m + d
  BY <1>6, <1>13
<1>19. /\ Digit(a * Weight[i - 1] + m, d) \in 0 .. Width - 1
       /\ \E c2 \in Int : \E n2 \in 0 .. Weight[i] - 1 :
            Digit(a * Weight[i - 1] + m, d) = c2 * Weight[i] + n2 /\ n2 >= 16 * m + d
  BY <1>8, <1>11, <1>16, <1>17, <1>18
<1>20. QED BY ONLY <1>19 DEF Added

\* get_hex_u32 never reads a date as an earlier one, whatever the number of digits:
\* after i of them the value, less a multiple of what they weigh, is at least what
\* these digits of d make, since what is ORed in only adds.
THEOREM ReadNoEarlier ==
  ASSUME NEW d \in 0 .. Width - 1
  PROVE  GetHexU32(Hex(d)) \in 0 .. Width - 1 /\ NeverEarlier(d)
<1> USE DigitsAssumption
<1> DEFINE hex == Hex(d)
           Def(g) == [i \in 0 .. Digits |-> IF i = 0 THEN 0 ELSE Digit(g[i - 1], hex[i])]
           f == [i \in 1 .. Digits |-> [v \in Int |-> Digit(v, hex[i])]]
<1>1. Width \in Nat \ {0} /\ d \in Nat
  BY WeightDivides
<1>2. ASSUME NEW i \in 1 .. Digits
      PROVE  /\ Digits - i \in 0 .. Digits /\ Weight[Digits - i] \in Nat \ {0}
             /\ hex[i] = (d \div Weight[Digits - i]) % 16 /\ hex[i] \in 0 .. 15
  <2>1. Digits - i \in 0 .. Digits
    OBVIOUS
  <2>2. PICK w \in Nat \ {0} : w = Weight[Digits - i]
    BY <2>1, WeightDivides
  <2>3. hex[i] = (d \div w) % 16
    BY <2>2 DEF Hex
  <2>4. hex[i] \in 0 .. 15
    BY <1>1, <2>2, <2>3
  <2>5. QED BY <2>1, <2>2, <2>3, <2>4
<1> HIDE DEF hex
<1>3. f \in StepsOn(Digits, Int) /\ \A i \in 1 .. Digits : \A v \in Int : f[i][v] = Digit(v, hex[i])
  <2>1. \A i \in 1 .. Digits : \A v \in Int : Digit(v, hex[i]) \in Int
    BY <1>1, <1>2 DEF Digit
  <2>2. QED BY <2>1 DEF StepsOn
<1> HIDE DEF f
<1>4. PICK g \in [0 .. Digits -> Int] : g[0] = 0 /\ \A i \in 1 .. Digits : g[i] = f[i][g[i - 1]]
  <2>1. PICK S : S = Int
    OBVIOUS
  <2>2. PICK zero \in S : zero = 0
    BY <2>1
  <2>3. Computed(Digits, S, zero, f)
    BY <1>3, <2>1, InSteps
  <2>4. QED BY <2>1, <2>2, <2>3 DEF Computed, Computes
<1>5. \A i \in 1 .. Digits : g[i] = Digit(g[i - 1], hex[i])
  <2>1. ASSUME NEW i \in 1 .. Digits PROVE g[i] = Digit(g[i - 1], hex[i])
    <3>1. i - 1 \in 0 .. Digits /\ g[i - 1] \in Int
      BY <1>4
    <3>2. QED BY <1>3, <1>4, <3>1
  <2>2. QED BY <2>1
<1>6. g = Def(g)
  <2>1. \A i \in 0 .. Digits : g[i] = IF i = 0 THEN 0 ELSE Digit(g[i - 1], hex[i])
    BY <1>4, <1>5
  <2>2. g = [i \in 0 .. Digits |-> g[i]]
    OBVIOUS
  <2>3. QED BY ONLY <2>1, <2>2
<1>7. GetHexU32(hex) = (CHOOSE h : h = Def(h))[Digits]
  BY DEF GetHexU32
<1> HIDE DEF Def
<1>8. PICK h : h = Def(h) /\ GetHexU32(hex) = h[Digits]
  BY <1>6, <1>7
<1>9. h[0] = 0 /\ \A i \in 1 .. Digits : h[i] = Digit(h[i - 1], hex[i])
  <2>1. h = [i \in 0 .. Digits |-> IF i = 0 THEN 0 ELSE Digit(h[i - 1], hex[i])]
    BY <1>8 DEF Def
  <2>2. \A i \in 0 .. Digits : h[i] = IF i = 0 THEN 0 ELSE Digit(h[i - 1], hex[i])
    BY ONLY <2>1
  <2>3. 0 \in 0 .. Digits /\ \A i \in 1 .. Digits : i \in 0 .. Digits /\ i # 0
    OBVIOUS
  <2>4. QED BY ONLY <2>2, <2>3
<1> DEFINE Reads(i) == \E a \in Int : \E m \in 0 .. Weight[i] - 1 :
                         /\ h[i] = a * Weight[i] + m
                         /\ m >= d \div Weight[Digits - i]
                         /\ i # 0 => h[i] \in 0 .. Width - 1
           T == {i \in 0 .. Digits : Reads(i)}
<1>10. 0 \in T
  <2>1. Weight[0] = 1 /\ d \div Weight[Digits - 0] = 0
    <3>1. Digits - 0 = Digits
      OBVIOUS
    <3>2. Weight[Digits - 0] = Width
      BY ONLY <3>1 DEF Width
    <3>3. PICK z \in Nat \ {0} : z = Width
      BY <1>1
    <3>4. d \in 0 .. z - 1
      BY <3>3
    <3>5. d \div z = 0
      BY ONLY <3>3, <3>4
    <3>6. Weight[0] = 1
      BY WeightStep
    <3>7. QED BY ONLY <3>2, <3>3, <3>5, <3>6
  <2>2. h[0] = 0 * Weight[0] + 0 /\ 0 \in 0 .. Weight[0] - 1 /\ 0 >= d \div Weight[Digits - 0]
    BY <1>9, <2>1
  <2>3. Reads(0)
    BY <2>2
  <2>4. QED BY <2>3
<1>11. ASSUME NEW j \in 0 .. Digits - 1, j \in T PROVE j + 1 \in T
  <2>1. PICK i \in 1 .. Digits : i = j + 1 /\ i - 1 = j /\ i \in 0 .. Digits /\ j \in 0 .. Digits
    OBVIOUS
  <2>2. PICK a \in Int, m \in 0 .. Weight[j] - 1 :
          h[j] = a * Weight[j] + m /\ m >= d \div Weight[Digits - j]
    BY <1>11
  <2>3. PICK p \in Nat \ {0} : p = Weight[Digits - i]
    BY <1>2
  <2>4. Weight[Digits - j] = 16 * p
    <3>1. Digits - j \in 1 .. Digits /\ (Digits - j) - 1 = Digits - i
      BY <2>1
    <3>2. QED BY <2>3, <3>1, WeightStep
  <2>5. PICK q \in Nat : q = d \div p
    <3>1. d \in Nat /\ p \in Nat \ {0}
      BY <1>1, <2>3
    <3>2. d \div p \in Nat
      BY ONLY <3>1
    <3>3. QED BY ONLY <3>2
  <2>6. d \div Weight[Digits - j] = q \div 16
    <3>1. d \in Nat /\ p \in Nat \ {0}
      BY <1>1, <2>3
    <3>2. d \div (16 * p) = (d \div p) \div 16
      BY ONLY <3>1, DivideTwice
    <3>3. QED BY ONLY <2>4, <2>5, <3>2
  <2>7. PICK x \in 0 .. 15 : x = hex[i] /\ x = q % 16
    BY <1>2, <2>3, <2>5
  <2>8. 16 * m + x >= q
    <3>1. PICK z \in Nat : z = q \div 16
      OBVIOUS
    <3>2. q = 16 * z + x /\ m >= z
      BY <2>2, <2>6, <2>7, <3>1
    <3>3. m \in Int
      BY <2>1, WeightDivides
    <3>4. QED BY <3>2, <3>3
  <2>9. h[i] = Digit(a * Weight[i - 1] + m, x)
    BY <1>9, <2>1, <2>2, <2>7
  <2>10. m \in 0 .. Weight[i - 1] - 1
    BY <2>1
  <2>11. /\ h[i] \in 0 .. Width - 1
         /\ \E c \in Int : \E n \in 0 .. Weight[i] - 1 : h[i] = c * Weight[i] + n /\ n >= 16 * m + x
    <3>1. Added(i, a, m, x)
      BY <2>1, <2>2, <2>7, <2>10, DigitAdds
    <3>2. QED BY ONLY <2>9, <3>1 DEF Added
  <2>12. PICK c \in Int : \E n \in 0 .. Weight[i] - 1 : h[i] = c * Weight[i] + n /\ n >= 16 * m + x
    BY <2>11
  <2>13. PICK n \in 0 .. Weight[i] - 1 : h[i] = c * Weight[i] + n /\ n >= 16 * m + x
    BY <2>12
  <2>14. n >= d \div Weight[Digits - i]
    <3>1. n \in Int /\ m \in Int
      BY <2>1, WeightDivides
    <3>2. QED BY <2>3, <2>5, <2>8, <2>13, <3>1
  <2>15. Reads(i)
    BY <2>11, <2>13, <2>14
  <2>16. QED BY <2>1, <2>15
<1>12. Digits \in T
  <2>1. T \in SUBSET (0 .. Digits) /\ Digits \in Nat /\ Digits \in 0 .. Digits
    OBVIOUS
  <2> HIDE DEF T
  <2>2. QED BY <1>10, <1>11, <2>1, UpTo
<1>13. PICK a \in Int, m \in 0 .. Width - 1 :
         h[Digits] = a * Width + m /\ m >= d \div Weight[Digits - Digits] /\ h[Digits] \in 0 .. Width - 1
  BY <1>12 DEF Width
<1>14. d \div Weight[Digits - Digits] = d
  BY <1>1, WeightStep
<1>15. a = 0
  <2>1. PICK z \in Nat \ {0} : z = Width
    BY <1>1
  <2>2. a * z + m \in 0 .. z - 1 /\ m \in 0 .. z - 1
    BY <1>13, <2>1
  <2>3. QED BY <2>2
<1>16. h[Digits] = m /\ h[Digits] >= d
  BY <1>1, <1>13, <1>14, <1>15
<1>17. QED BY <1>8, <1>13, <1>16 DEF NeverEarlier, hex

-----------------------------------------------------------------------------
(* What the replies are                                                     *)

LEMMA DatesAreNumbers == /\ \A d \in Dates : d \in Int /\ d >= 0
                         /\ NoAuth \notin Dates /\ Foreign \notin Dates
<1>1. ASSUME NEW d \in Dates PROVE d \in Int /\ d >= 0
  BY DatesAssumption
<1>2. QED BY <1>1 DEF NoAuth, Foreign

\* What matters of a reply that has its CSeq.
Has(rep, code, names, challenge) ==
  /\ rep.cseq = TRUE /\ rep.code = code /\ rep.names = names /\ rep.challenge = challenge

LEMMA PlainReply ==
  ASSUME ShortCSeqs, NEW r, r.cseq \in CSeqLens, NEW code, NEW reason \in 0 .. 22
  PROVE  Has(Plain(r, code, reason), code, None, NoAuth)
<1> PICK k \in 0 .. 238 : k = r.cseq
  BY DEF ShortCSeqs
<1>1. (9 + reason + 1 + 5) + (k + 1) <= 512
  OBVIOUS
<1>2. Room(9 + reason + 1 + 5, k + 1)
  BY <1>1 DEF Room, ReplySize
<1>3. Created(reason, k).cseq = TRUE
  BY <1>2 DEF Created
<1>4. QED BY <1>3 DEF Plain, Reply, Has

LEMMA OkReply ==
  ASSUME ShortCSeqs, NEW r, r.cseq \in CSeqLens, NEW i, NEW transport \in 0 .. 138
  PROVE  Has(OkOf(r, i, transport), 200, i, NoAuth)
<1> PICK k \in 0 .. 238 : k = r.cseq
  BY DEF ShortCSeqs
<1> DEFINE m == Created(2, k)
<1>1. (9 + 2 + 1 + 5) + (k + 1) <= 512
  OBVIOUS
<1>2. Room(9 + 2 + 1 + 5, k + 1)
  BY <1>1 DEF Room, ReplySize
<1>3. m.cseq = TRUE /\ m.used = 9 + 2 + 1 + 5 + k + 1
  BY <1>2 DEF Created
<1>4. (9 + 2 + 1 + 5 + k + 1) + transport + 8 + 31 <= 512
  OBVIOUS
<1>5. Room(m.used + transport + 8, 31)
  BY <1>3, <1>4 DEF Room, ReplySize
<1> HIDE DEF m
<1>6. OkOf(r, i, transport) = [Reply(200, m) EXCEPT !.names = i]
  BY <1>5 DEF OkOf, m
<1>7. QED BY <1>3, <1>6 DEF Reply, Has

LEMMA RefusingReply ==
  ASSUME ShortCSeqs, NEW r, r.cseq \in CSeqLens, NEW stale \in BOOLEAN
  PROVE  Has(Unauthorized(r, stale), 401, None, now)
<1> PICK k \in 0 .. 238 : k = r.cseq
  BY DEF ShortCSeqs
<1> DEFINE m == Created(12, k)
           len == ChallengeLen(stale)
<1>1. (9 + 12 + 1 + 5) + (k + 1) <= 512
  OBVIOUS
<1>2. Room(9 + 12 + 1 + 5, k + 1)
  BY <1>1 DEF Room, ReplySize
<1>3. m.cseq = TRUE /\ m.used = 9 + 12 + 1 + 5 + k + 1
  BY <1>2 DEF Created
<1>4. len \in 0 .. 228
  BY RealmAssumption DEF ChallengeLen
<1>5. (9 + 12 + 1 + 5 + k + 1) + len < 512 /\ (9 + 12 + 1 + 5 + k + 1) + len + 1 + 17 <= 512
  <2> HIDE DEF len
  <2>1. QED BY <1>4
<1>6. m.used + len < ReplySize /\ Room(m.used + len + 1, 17)
  BY <1>3, <1>5 DEF Room, ReplySize
<1> HIDE DEF m, len
<1>7. Unauthorized(r, stale) = [Reply(401, m) EXCEPT !.challenge = now]
  BY <1>6 DEF Unauthorized, m, len
<1>8. QED BY <1>3, <1>7 DEF Reply, Has

-----------------------------------------------------------------------------
(* The steps                                                                *)

State == /\ now \in Dates
         /\ where \in [Ids -> Locations \cup {None}]
         /\ nonce \in [Clients -> Dates \cup {NoAuth}]
         /\ session \in [Clients -> Ids \cup {None}]

\* A step in which nobody is answered; sessions may go.
Quiet == /\ last' = None /\ now' \in Dates /\ UNCHANGED <<nonce, session>>
         /\ where' \in [Ids -> Locations \cup {None}]
         /\ \A i \in Ids : where'[i] = where[i] \/ where'[i] = None

\* A whole reply: a challenge that can be answered goes to a client that is not
\* admitted, and to no other.
Whole(c, r, rep) ==
  /\ rep.cseq = TRUE
  /\ rep.code = 401 => rep.challenge = now /\ ~ Admitted(c, r)
  /\ rep.challenge = NoAuth \/ rep.challenge = now
  /\ rep.names \in Ids \cup {None}

\* A step that answers the request r of c; if a session comes to be, then for a
\* client that was admitted, and it is the one named in the reply.
Answered(c, r, rep) ==
  /\ c \in Clients /\ r \in Asks(c) /\ Answer(c, r, rep) /\ Whole(c, r, rep)
  /\ where' \in [Ids -> Locations \cup {None}]
  /\ \A i \in Ids : \/ where'[i] = where[i] \/ where'[i] = None
                    \/ where'[i] = r.loc /\ Admitted(c, r) /\ rep.names = i

Kind == Quiet \/ \E c \in Clients : \E r \in Asks(c) : \E rep : Answered(c, r, rep)

LEMMA Request ==
  ASSUME State, NEW c \in Clients, NEW r \in Asks(c)
  PROVE  /\ r.auth = NoAuth \/ r.auth = Foreign \/ (r.auth = nonce[c] /\ r.auth \in Dates)
         /\ r.session = None \/ (r.session = session[c] /\ r.session \in Ids)
         /\ r.loc \in Locations \cup {Nowhere} /\ r.cseq \in CSeqLens
<1>1. nonce[c] \in Dates \cup {NoAuth} /\ session[c] \in Ids \cup {None}
  BY DEF State
<1>2. /\ r.auth \in {NoAuth, Foreign, nonce[c]} /\ r.session \in {None, session[c]}
      /\ r.loc \in Locations \cup {Nowhere} /\ r.cseq \in CSeqLens
  BY DEF Asks
<1>3. QED BY <1>1, <1>2

LEMMA ErrorKind ==
  ASSUME ShortCSeqs, State, NEW c \in Clients, NEW r \in Asks(c), NEW code, code # 401,
         NEW reason \in 0 .. 22, Answer(c, r, Plain(r, code, reason)), where' = where
  PROVE  Kind
<1> PICK rep : rep = Plain(r, code, reason)
  OBVIOUS
<1>1. rep.code = code /\ rep.cseq = TRUE /\ rep.names = None /\ rep.challenge = NoAuth
  <2>1. r.cseq \in CSeqLens
    BY Request
  <2>2. Has(Plain(r, code, reason), code, None, NoAuth)
    BY <2>1, PlainReply
  <2>3. QED BY <2>2 DEF Has
<1>2. Whole(c, r, rep)
  BY <1>1 DEF Whole
<1>3. Answered(c, r, rep)
  BY <1>2 DEF Answered, State
<1>4. QED BY <1>3 DEF Kind

LEMMA RefuseKind ==
  ASSUME ShortCSeqs, State, NEW c \in Clients, NEW r \in Asks(c), Refused(c, r)
  PROVE  Kind
<1> PICK rep : rep = Unauthorized(r, Verified(c, r) = 0)
  OBVIOUS
<1>1. rep.code = 401 /\ rep.cseq = TRUE /\ rep.names = None /\ rep.challenge = now
  <2>1. (Verified(c, r) = 0) \in BOOLEAN
    OBVIOUS
  <2>2. Has(Unauthorized(r, Verified(c, r) = 0), 401, None, now)
    BY <2>1, Request, RefusingReply
  <2>3. QED BY <2>2 DEF Has
<1>2. Answer(c, r, rep) /\ where' = where /\ ~ Admitted(c, r)
  BY DEF Refused, Refuse
<1>3. Whole(c, r, rep)
  BY <1>1, <1>2 DEF Whole
<1>4. Answered(c, r, rep)
  BY <1>2, <1>3 DEF Answered, State
<1>5. QED BY <1>4 DEF Kind

LEMMA OkKind ==
  ASSUME ShortCSeqs, State, NEW c \in Clients, NEW r \in Asks(c), NEW i \in Ids,
         NEW transport \in 0 .. 138, Answer(c, r, OkOf(r, i, transport)),
         where' \in [Ids -> Locations \cup {None}],
         \A j \in Ids : \/ where'[j] = where[j] \/ where'[j] = None
                        \/ where'[j] = r.loc /\ Admitted(c, r) /\ j = i
  PROVE  Kind
<1> PICK rep : rep = OkOf(r, i, transport)
  OBVIOUS
<1>1. rep.code = 200 /\ rep.cseq = TRUE /\ rep.names = i /\ rep.challenge = NoAuth
  <2>1. r.cseq \in CSeqLens
    BY Request
  <2>2. Has(OkOf(r, i, transport), 200, i, NoAuth)
    BY <2>1, OkReply
  <2>3. QED BY <2>2 DEF Has
<1>2. Whole(c, r, rep)
  BY <1>1 DEF Whole
<1>3. Answered(c, r, rep)
  BY <1>1, <1>2 DEF Answered
<1>4. QED BY <1>3 DEF Kind

LEMMA NoLocationKind ==
  ASSUME ShortCSeqs, State, NEW c \in Clients, NEW r \in Asks(c), NoLocation(c, r)
  PROVE  Kind
<1>1. Answer(c, r, Plain(r, 404, 9)) /\ where' = where
  BY DEF NoLocation, Error
<1>2. QED BY <1>1, ErrorKind

LEMMA NoSessionKind ==
  ASSUME ShortCSeqs, State, NEW c \in Clients, NEW r \in Asks(c), NoSession(c, r)
  PROVE  Kind
<1>1. Answer(c, r, Plain(r, 454, 17)) /\ where' = where
  BY DEF NoSession, Error
<1>2. QED BY <1>1, ErrorKind

\* Taking tracks out of a session names no new one.
LEMMA WithoutOnly ==
  ASSUME State, NEW i \in Ids, NEW t, Without(i, t)
  PROVE  /\ where' \in [Ids -> Locations \cup {None}]
         /\ \A j \in Ids : where'[j] = where[j] \/ where'[j] = None
BY DEF State, Without

LEMMA DescribeKind ==
  ASSUME ShortCSeqs, State, NEW c \in Clients, Describe(c)
  PROVE  Kind
<1>1. PICK r \in Asks(c) :
        \/ NoLocation(c, r) \/ Refused(c, r)
        \/ Error(c, r, 404, 13)
        \/ Answer(c, r, Plain(r, 200, 2)) /\ where' = where
  BY DEF Describe
<1>2. CASE Error(c, r, 404, 13)
  BY <1>2, ErrorKind DEF Error
<1>3. CASE Answer(c, r, Plain(r, 200, 2)) /\ where' = where
  BY <1>3, ErrorKind
<1>4. QED BY <1>1, <1>2, <1>3, NoLocationKind, RefuseKind

LEMMA AnnounceKind ==
  ASSUME ShortCSeqs, State, NEW c \in Clients, Announce(c)
  PROVE  Kind
<1>1. PICK r \in Asks(c) :
        \/ NoLocation(c, r) \/ Refused(c, r)
        \/ last' = None /\ UNCHANGED <<now, where, up, nonce, session>>
  BY DEF Announce
<1>2. CASE last' = None /\ UNCHANGED <<now, where, up, nonce, session>>
  BY <1>2 DEF State, Kind, Quiet
<1>3. QED BY <1>1, <1>2, NoLocationKind, RefuseKind

LEMMA SetupKind ==
  ASSUME ShortCSeqs, State, NEW c \in Clients, Setup(c)
  PROVE  Kind
<1>1. PICK r \in Asks(c), t \in Tracks \cup {None, NoSuch} :
        \/ Error(c, r, 404, 9) \/ Refused(c, r) \/ Error(c, r, 454, 17)
        \/ Error(c, r, 461, 22) \/ Error(c, r, 461, 21)
        \/ \E i \in SessionFor(c, r) : Passes(c, r) /\ SetUp(c, r, t, i)
  BY DEF Setup
<1>2. CASE Error(c, r, 404, 9)
  BY <1>2, ErrorKind DEF Error
<1>3. CASE Error(c, r, 454, 17)
  BY <1>3, ErrorKind DEF Error
<1>4. CASE Error(c, r, 461, 22)
  BY <1>4, ErrorKind DEF Error
<1>5. CASE Error(c, r, 461, 21)
  BY <1>5, ErrorKind DEF Error
<1>6. ASSUME NEW i \in SessionFor(c, r), Passes(c, r), SetUp(c, r, t, i) PROVE Kind
  <2>1. i \in Ids
    BY DEF SessionFor, Listed
  <2>2. r.loc \in Locations /\ Admitted(c, r)
    BY <1>6, Request DEF Passes
  <2>3. /\ Answer(c, r, OkOf(r, i, 138))
        /\ where' = [where EXCEPT ![i] = IF @ = None THEN r.loc ELSE @]
    BY <1>6 DEF SetUp
  <2>4. where' \in [Ids -> Locations \cup {None}]
    BY <2>1, <2>2, <2>3 DEF State
  <2>5. ASSUME NEW j \in Ids
        PROVE  where'[j] = where[j] \/ (where'[j] = r.loc /\ Admitted(c, r) /\ j = i)
    BY <2>1, <2>2, <2>3 DEF State
  <2>6. PICK transport \in 0 .. 138 : transport = 138
    OBVIOUS
  <2>7. Answer(c, r, OkOf(r, i, transport))
    BY ONLY <2>3, <2>6, Zenon
  <2>8. QED BY ONLY ShortCSeqs, State, c \in Clients, r \in Asks(c), transport \in 0 .. 138,
                   <2>1, <2>4, <2>5, <2>7, OkKind
<1>7. QED BY <1>1, <1>2, <1>3, <1>4, <1>5, <1>6, RefuseKind

LEMMA ShortKind ==
  ASSUME ShortCSeqs, State, NEW c \in Clients, Options(c) \/ Unknown(c) \/ Play(c) \/ Pause(c)
  PROVE  Kind
<1>1. PICK r \in Asks(c) :
        \/ Answer(c, r, Plain(r, 200, 2)) /\ where' = where
        \/ Answer(c, r, Plain(r, 501, 15)) /\ where' = where
        \/ NoSession(c, r)
        \/ r.session \in Listed /\ Answer(c, r, OkOf(r, r.session, 0)) /\ where' = where
  BY DEF Options, Unknown, Play, Pause, Short, Error
<1>2. CASE Answer(c, r, Plain(r, 200, 2)) /\ where' = where
  BY <1>2, ErrorKind
<1>3. CASE Answer(c, r, Plain(r, 501, 15)) /\ where' = where
  BY <1>3, ErrorKind
<1>4. CASE r.session \in Listed /\ Answer(c, r, OkOf(r, r.session, 0)) /\ where' = where
  <2>1. r.session \in Ids
    BY <1>4 DEF Listed
  <2>2. QED BY <1>4, <2>1, OkKind DEF State
<1>5. QED BY <1>1, <1>2, <1>3, <1>4, NoSessionKind

LEMMA TeardownKind ==
  ASSUME ShortCSeqs, State, NEW c \in Clients, Teardown(c)
  PROVE  Kind
<1>1. PICK r \in Asks(c), t \in Tracks \cup {None, NoSuch} :
        \/ NoLocation(c, r) \/ NoSession(c, r)
        \/ /\ r.session \in Listed /\ Answer(c, r, OkOf(r, r.session, 0))
           /\ Without(r.session, IF t \in up[r.session] THEN {t} ELSE up[r.session])
  BY DEF Teardown
<1>2. CASE /\ r.session \in Listed /\ Answer(c, r, OkOf(r, r.session, 0))
           /\ Without(r.session, IF t \in up[r.session] THEN {t} ELSE up[r.session])
  <2>1. r.session \in Ids
    BY <1>2 DEF Listed
  <2>2. /\ where' \in [Ids -> Locations \cup {None}]
        /\ \A j \in Ids : where'[j] = where[j] \/ where'[j] = None
    BY <1>2, <2>1, WithoutOnly
  <2>3. QED BY <1>2, <2>1, <2>2, OkKind
<1>3. QED BY <1>1, <1>2, NoLocationKind, NoSessionKind

\* Every step is of one of the two kinds.
LEMMA NextKind ==
  ASSUME ShortCSeqs, State, Next
  PROVE  Kind
<1>1. CASE Tick
  BY <1>1 DEF Tick, State, Kind, Quiet
<1>2. ASSUME NEW i \in Ids, NEW t \in SUBSET Tracks, Lose(i, t) PROVE Kind
  <2>1. /\ where' \in [Ids -> Locations \cup {None}]
        /\ \A j \in Ids : where'[j] = where[j] \/ where'[j] = None
    BY <1>2, WithoutOnly DEF Lose
  <2>2. QED BY <1>2, <2>1 DEF Lose, State, Kind, Quiet
<1>3. QED BY <1>1, <1>2, DescribeKind, AnnounceKind, SetupKind, ShortKind, TeardownKind DEF Next

-----------------------------------------------------------------------------
(* The invariant                                                            *)

LEMMA InitState == Init => State
<1> SUFFICES ASSUME Init PROVE State
  OBVIOUS
<1>1. /\ now \in Dates
      /\ where = [i \in Ids |-> None]
      /\ nonce = [c \in Clients |-> NoAuth]
      /\ session = [c \in Clients |-> None]
  BY DEF Init
<1>2. where \in [Ids -> Locations \cup {None}]
  BY <1>1
<1>3. nonce \in [Clients -> Dates \cup {NoAuth}]
  BY <1>1
<1>4. session \in [Clients -> Ids \cup {None}]
  BY <1>1
<1>5. QED BY <1>1, <1>2, <1>3, <1>4 DEF State

LEMMA KindState ==
  ASSUME State, Kind
  PROVE  State'
<1>1. CASE Quiet
  BY <1>1 DEF Quiet, State
<1>2. ASSUME NEW c \in Clients, NEW r \in Asks(c), NEW rep, Answered(c, r, rep) PROVE State'
  <2>1. /\ Answer(c, r, rep) /\ Whole(c, r, rep)
        /\ where' \in [Ids -> Locations \cup {None}]
    BY <1>2 DEF Answered
  <2>2. now' = now
    BY <2>1 DEF Answer
  <2>3. nonce' \in [Clients -> Dates \cup {NoAuth}]
    BY <2>1 DEF Answer, Whole, State
  <2>4. session' \in [Clients -> Ids \cup {None}]
    BY <2>1 DEF Answer, Whole, State
  <2>5. QED BY <2>1, <2>2, <2>3, <2>4 DEF State
<1>3. QED BY <1>1, <1>2 DEF Kind

LEMMA StateUnchanged ==
  ASSUME State, UNCHANGED vars
  PROVE  State'
BY DEF State, vars

LEMMA StateInvariant ==
  ASSUME ShortCSeqs
  PROVE  Spec => []State
<1>1. State /\ [Next]_vars => State'
  <2> SUFFICES ASSUME State, [Next]_vars PROVE State'
    OBVIOUS
  <2>1. CASE Next
    BY <2>1, NextKind, KindState
  <2>2. CASE UNCHANGED vars
    BY <2>2, StateUnchanged
  <2>3. QED BY <2>1, <2>2
<1>2. QED BY <1>1, InitState, PTL DEF Spec

-----------------------------------------------------------------------------
(* The theorems                                                             *)

\* The longest realm, the longest challenge and a CSeq of up to 238 characters
\* fit into the 512 bytes of a reply: none is left without its CSeq, and no 401
\* without a challenge that can be answered.
THEOREM NothingCrowdedOut ==
  ASSUME ShortCSeqs
  PROVE  Spec => []RepliesWhole
<1>1. Init => RepliesWhole
  BY DEF Init, RepliesWhole
<1>2. State /\ RepliesWhole /\ [Next]_vars => RepliesWhole'
  <2> SUFFICES ASSUME State, RepliesWhole, [Next]_vars PROVE RepliesWhole'
    OBVIOUS
  <2>1. CASE Next
    <3>1. Kind
      BY <2>1, NextKind
    <3>2. CASE Quiet
      BY <3>2 DEF Quiet, RepliesWhole
    <3>3. ASSUME NEW c \in Clients, NEW r \in Asks(c), NEW rep, Answered(c, r, rep)
          PROVE  RepliesWhole'
      <4>1. last'.reply = rep /\ now' = now
        BY <3>3 DEF Answered, Answer
      <4>2. rep.cseq = TRUE /\ (rep.code = 401 => rep.challenge = now)
        BY <3>3 DEF Answered, Whole
      <4>3. QED BY <4>1, <4>2 DEF RepliesWhole
    <3>4. QED BY <3>1, <3>2, <3>3 DEF Kind
  <2>2. CASE UNCHANGED vars
    BY <2>2 DEF vars, RepliesWhole
  <2>3. QED BY <2>1, <2>2
<1>3. QED BY <1>1, <1>2, StateInvariant, PTL DEF Spec

\* A client that is admitted to a guarded location knows the password and has
\* answered a challenge of ours.
LEMMA AdmittedKnows ==
  ASSUME State, NEW c \in Clients, NEW r \in Asks(c), Admitted(c, r), r.loc \in Guarded
  PROVE  c \in Knows /\ r.auth \in Dates
<1>1. Verified(c, r) > 0
  BY DEF Admitted
<1>2. r.auth # NoAuth
  BY <1>1 DEF Verified
<1>3. CheckDigestResponse(c \in Knows, r.auth, now) > 0
  BY <1>1, <1>2 DEF Verified
<1>4. c \in Knows /\ r.auth # Foreign
  BY <1>3 DEF CheckDigestResponse
<1>5. QED BY <1>2, <1>4, Request

\* The session of a guarded location is never made for a client that has not
\* shown the password, and whoever makes a session is told which it is.
THEOREM OnlyFriendsEnter ==
  ASSUME ShortCSeqs
  PROVE  Spec => StrangersStayOut
<1> DEFINE Entry ==
      \A i \in Ids : where[i] = None /\ where'[i] # None =>
        /\ session'[last'.client] = i
        /\ where'[i] \in Guarded => last'.client \in Knows /\ last'.auth >= 0
<1>1. State /\ [Next]_vars => [Entry]_vars
  <2> SUFFICES ASSUME State, Next PROVE Entry
    OBVIOUS
  <2>1. Kind
    BY NextKind
  <2>2. CASE Quiet
    BY <2>2 DEF Quiet
  <2>3. ASSUME NEW c \in Clients, NEW r \in Asks(c), NEW rep, Answered(c, r, rep),
               NEW i \in Ids, where[i] = None, where'[i] # None
        PROVE  /\ session'[last'.client] = i
               /\ where'[i] \in Guarded => last'.client \in Knows /\ last'.auth >= 0
    <3>1. where'[i] = r.loc /\ Admitted(c, r) /\ rep.names = i
      BY <2>3 DEF Answered
    <3>2. /\ last'.client = c /\ last'.auth = r.auth
          /\ session' = [session EXCEPT ![c] = IF rep.names # None THEN rep.names ELSE @]
      BY <2>3 DEF Answered, Answer
    <3>3. session'[c] = i
      BY <3>1, <3>2, NoneAssumption DEF State
    <3>4. r.loc \in Guarded => c \in Knows /\ r.auth >= 0
      BY <3>1, AdmittedKnows, DatesAreNumbers
    <3>5. QED BY <3>1, <3>2, <3>3, <3>4
  <2>4. QED BY <2>1, <2>2, <2>3 DEF Kind
<1>2. QED BY <1>1, StateInvariant, PTL DEF Spec, StrangersStayOut

\* A client that knows the password and answers its challenge in time is not
\* challenged again, whoever else asks: no date is read as an earlier one.
THEOREM FriendsEnter ==
  ASSUME ShortCSeqs
  PROVE  Spec => []KnownClientsGetIn
<1>1. Init => KnownClientsGetIn
  BY DEF Init, KnownClientsGetIn
<1>2. State /\ KnownClientsGetIn /\ [Next]_vars => KnownClientsGetIn'
  <2> SUFFICES ASSUME State, KnownClientsGetIn, [Next]_vars PROVE KnownClientsGetIn'
    OBVIOUS
  <2>1. CASE Next
    <3>1. Kind
      BY <2>1, NextKind
    <3>2. CASE Quiet
      BY <3>2 DEF Quiet, KnownClientsGetIn
    <3>3. ASSUME NEW c \in Clients, NEW r \in Asks(c), NEW rep, Answered(c, r, rep)
          PROVE  KnownClientsGetIn'
      <4>1. last'.client = c /\ last'.auth = r.auth /\ last'.reply = rep /\ now' = now
        BY <3>3 DEF Answered, Answer
      <4>2. SUFFICES ASSUME c \in Knows, r.auth >= 0, now <= r.auth + Lifetime, rep.code = 401
                     PROVE  FALSE
        BY <4>1 DEF KnownClientsGetIn
      <4>3. ~ Admitted(c, r)
        BY <3>3, <4>2 DEF Answered, Whole
      <4>4. r.auth \in Dates /\ r.auth # NoAuth /\ r.auth # Foreign
        BY <4>2, Request, DatesAreNumbers DEF NoAuth, Foreign
      <4>5. now \in Int /\ r.auth \in Int /\ Lifetime \in Int
        BY <4>4, DatesAreNumbers, LifetimeAssumption DEF State
      <4>6. ~ (now > GetHexU32(Hex(r.auth)) + Lifetime)
        <5>1. r.auth \in 0 .. Width - 1
          BY <4>4, DatesAssumption
        <5>2. GetHexU32(Hex(r.auth)) \in Int /\ GetHexU32(Hex(r.auth)) >= r.auth
          <6>1. GetHexU32(Hex(r.auth)) \in 0 .. Width - 1 /\ NeverEarlier(r.auth)
            BY <5>1, ReadNoEarlier
          <6>2. QED BY <6>1 DEF NeverEarlier
        <5>3. PICK read \in Int : read = GetHexU32(Hex(r.auth))
          BY <5>2
        <5>4. ~ (now > read + Lifetime)
          BY <4>2, <4>5, <5>2, <5>3
        <5>5. QED BY <5>3, <5>4
      <4>7. CheckDigestResponse(c \in Knows, r.auth, now) = 1
        BY <4>2, <4>4, <4>6 DEF CheckDigestResponse
      <4>8. Verified(c, r) = 1
        BY <4>4, <4>7 DEF Verified
      <4>9. QED BY <4>3, <4>8 DEF Admitted
    <3>4. QED BY <3>1, <3>2, <3>3 DEF Kind
  <2>2. CASE UNCHANGED vars
    BY <2>2 DEF vars, KnownClientsGetIn
  <2>3. QED BY <2>1, <2>2
<1>3. QED BY <1>1, <1>2, StateInvariant, PTL DEF Spec
=============================================================================
