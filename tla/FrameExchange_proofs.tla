------------------------ MODULE FrameExchange_proofs ------------------------
(***************************************************************************)
(* Theorems about FrameExchange, for every set of channels, every length   *)
(* of their rings, every heap and every set of keepers.                    *)
(***************************************************************************)
EXTENDS FrameExchangeInv, FrameExchangeImpl, FiniteSetTheorems, TLAPS

USE SlotsAssumption, HeapAssumption, KeepersAssumption, CanFailAssumption,
    NoFrameAssumption

-----------------------------------------------------------------------------
(* Type correctness                                                         *)

\* slot->next stays in its ring.
LEMMA NextSlotInRing ==
  ASSUME NEW n \in Nat \ {0}, NEW i \in 0 .. n - 1
  PROVE  NextSlot(i, n) \in 0 .. n - 1
BY DEF NextSlot

\* What new_frame does to the heap keeps its type.
LEMMA TakeFromHeapType ==
  ASSUME TypeOK, TakeFromHeap
  PROVE  /\ heap' \in [HeapSlots -> FrameOrNull]
         /\ frame_heap_take' \in HeapSlots /\ frame_heap_put' \in HeapSlots
         /\ heapStuck' \in BOOLEAN
         /\ ref_count' \in [Frames -> Int]
         /\ Available \in FrameOrNull
<1>1. CASE Available = NoFrame
  BY <1>1 DEF TypeOK, TakeFromHeap, heapVars, FrameOrNull
<1>2. CASE Available # NoFrame
  <2>1. NextSlot(frame_heap_take, HeapCount) \in HeapSlots
    BY NextSlotInRing DEF TypeOK, HeapSlots
  <2>2. Available \in FrameOrNull BY DEF TypeOK, Available
  <2>3. QED BY <1>2, <2>1, <2>2 DEF TypeOK, TakeFromHeap, FrameOrNull
<1>3. QED BY <1>1, <1>2

\* What unref_frame does to the heap keeps its type.
LEMMA UnrefFrameType ==
  ASSUME TypeOK, NEW g \in FrameOrNull, NEW counts \in [Frames -> Int],
         UnrefFrame(g, counts)
  PROVE  /\ heap' \in [HeapSlots -> FrameOrNull]
         /\ frame_heap_take' \in HeapSlots /\ frame_heap_put' \in HeapSlots
         /\ heapStuck' \in BOOLEAN
         /\ ref_count' \in [Frames -> Int]
<1>1. ref_count' \in [Frames -> Int]
  <2>1. CASE g \in Frames
    BY <2>1 DEF UnrefFrame
  <2>2. CASE g \notin Frames
    <3>1. ref_count' = counts
      BY <2>2 DEF UnrefFrame
    <3>2. QED BY <3>1
  <2>3. QED BY <2>1, <2>2
<1>2. CASE UNCHANGED heapVars
  BY <1>1, <1>2 DEF TypeOK, heapVars
<1>3. CASE PutBack(g)
  <2>1. NextSlot(frame_heap_put, HeapCount) \in HeapSlots
    BY NextSlotInRing DEF TypeOK, HeapSlots
  <2>2. CASE heap[frame_heap_put] = NoFrame
    BY <1>1, <1>3, <2>1, <2>2, SMTT(30) DEF TypeOK, PutBack
  <2>3. CASE heap[frame_heap_put] # NoFrame
    BY <1>1, <1>3, <2>3 DEF TypeOK, PutBack
  <2>4. QED BY <2>2, <2>3
<1>4. QED BY <1>2, <1>3 DEF UnrefFrame

\* What exchange_frame does to the ring keeps its type.
LEMMA ExchangeFrameType ==
  ASSUME TypeOK, NEW c \in Channels, NEW g \in FrameOrNull, ExchangeFrame(c, g)
  PROVE  /\ DOMAIN ring' = Channels
         /\ \A d \in Channels :
              ring'[d] \in [Ring(d) -> [f : FrameOrNull, pending : BOOLEAN]]
         /\ slave_cur' = slave_cur /\ master_read' = master_read /\ pipe' = pipe
         /\ master_write' \in [Channels -> Nat]
         /\ \A d \in Channels : master_write'[d] \in Ring(d)
         /\ lost' \in [Channels -> SUBSET Frames]
<1> DEFINE w == master_write[c]
<1>1. CASE ring[c][w].f # NoFrame
  <2>1. lost' = [lost EXCEPT ![c] = @ \cup ({g} \ {NoFrame})] /\ UNCHANGED ringVars
    BY <1>1 DEF ExchangeFrame
  <2>2. {g} \ {NoFrame} \subseteq Frames BY DEF FrameOrNull
  <2>3. lost' \in [Channels -> SUBSET Frames] BY <2>1, <2>2 DEF TypeOK
  <2>4. QED BY <2>1, <2>3 DEF TypeOK, ringVars
<1>2. CASE ring[c][w].f = NoFrame
  <2>1. NextSlot(w, Slots[c]) \in Ring(c)
    BY NextSlotInRing DEF TypeOK, Ring
  <2>2. ring' = [ring EXCEPT ![c][w] = [f |-> g, pending |-> TRUE]]
    BY <1>2 DEF ExchangeFrame
  <2>3. DOMAIN ring' = Channels BY <2>2 DEF TypeOK
  <2>4. ASSUME NEW d \in Channels
       PROVE  ring'[d] \in [Ring(d) -> [f : FrameOrNull, pending : BOOLEAN]]
    BY <2>2 DEF TypeOK
  <2>5. master_write' = [master_write EXCEPT ![c] = NextSlot(w, Slots[c])]
    BY <1>2 DEF ExchangeFrame
  <2>6. master_write' \in [Channels -> Nat]
    BY <2>1, <2>5 DEF TypeOK, Ring
  <2>7. \A d \in Channels : master_write'[d] \in Ring(d)
    BY <2>1, <2>5 DEF TypeOK
  <2>8. QED
    BY <1>2, <2>3, <2>4, <2>6, <2>7 DEF TypeOK, ExchangeFrame
<1>3. QED BY <1>1, <1>2

\* Emptying a slot keeps the ring's type.
LEMMA EmptiedType ==
  ASSUME TypeOK, NEW c \in Channels, NEW i \in Ring(c),
         ring' = [ring EXCEPT ![c][i] = Emptied(@)]
  PROVE  /\ DOMAIN ring' = Channels
         /\ \A d \in Channels :
              ring'[d] \in [Ring(d) -> [f : FrameOrNull, pending : BOOLEAN]]
BY DEF TypeOK, Emptied, FrameOrNull

\* Every step keeps the types.
LEMMA TypeStep == TypeOK /\ [Next]_vars => TypeOK'
<1> SUFFICES ASSUME TypeOK, [Next]_vars PROVE TypeOK'
  OBVIOUS
<1>1. ASSUME NEW c \in Channels, Fill(c) PROVE TypeOK'
  <2>1. TakeFromHeap /\ ExchangeFrame(c, Available) BY <1>1 DEF Fill
  <2>2. filled' \in [Channels -> Nat] BY <1>1 DEF Fill, TypeOK
  <2>3. QED
    BY <1>1, <2>1, <2>2, TakeFromHeapType, ExchangeFrameType
    DEF Fill, TypeOK, loopVars
<1>2. CASE StartLoop
  BY <1>2 DEF StartLoop, TypeOK, heapVars, ringVars, Locations
<1>3. ASSUME NEW c \in Channels, GetNextFrame(c) PROVE TypeOK'
  <2>1. NextFrame(c) \in FrameOrNull BY DEF NextFrame, TypeOK, FrameOrNull
  <2>2. ring' = [ring EXCEPT ![c][slave_cur[c]] = Emptied(@)] /\ slave_cur[c] \in Ring(c)
    BY <1>3 DEF GetNextFrame, TypeOK
  <2>3. /\ DOMAIN ring' = Channels
        /\ \A d \in Channels :
             ring'[d] \in [Ring(d) -> [f : FrameOrNull, pending : BOOLEAN]]
    BY <2>2, EmptiedType
  <2>4. captured' \in [Channels -> FrameOrNull]
    BY <1>3, <2>1 DEF GetNextFrame, TypeOK
  <2>5. QED
    BY <1>3, <2>3, <2>4 DEF GetNextFrame, TypeOK, heapVars, loopVars
<1>4. ASSUME NEW c \in Channels, DeliverFrame(c) PROVE TypeOK'
  <2>1. NextSlot(slave_cur[c], Slots[c]) \in Ring(c)
    BY NextSlotInRing DEF TypeOK, Ring
  <2>2. ring[c][slave_cur[c]].f \in FrameOrNull
    BY DEF TypeOK
  <2>3. lost' \in [Channels -> SUBSET Frames]
    BY <1>4, <2>2 DEF DeliverFrame, TypeOK, FrameOrNull
  <2>4. pipe' \in [Channels -> Nat] /\ captured' \in [Channels -> FrameOrNull]
    BY <1>4 DEF DeliverFrame, TypeOK, FrameOrNull
  <2>5. /\ DOMAIN ring' = Channels
        /\ \A d \in Channels :
             ring'[d] \in [Ring(d) -> [f : FrameOrNull, pending : BOOLEAN]]
    BY <1>4 DEF DeliverFrame, TypeOK
  <2>6. /\ slave_cur' \in [Channels -> Nat]
        /\ \A d \in Channels : slave_cur'[d] \in Ring(d)
    <3>1. slave_cur' = [slave_cur EXCEPT ![c] = NextSlot(slave_cur[c], Slots[c])]
      BY <1>4 DEF DeliverFrame
    <3>2. NextSlot(slave_cur[c], Slots[c]) \in Nat BY <2>1 DEF Ring
    <3>3. QED BY <2>1, <3>1, <3>2 DEF TypeOK
  <2>7. QED
    BY <1>4, <2>3, <2>4, <2>5, <2>6 DEF DeliverFrame, TypeOK, heapVars, loopVars
<1>5. ASSUME NEW c \in Channels, AbandonFrame(c) PROVE TypeOK'
  BY <1>5 DEF AbandonFrame, TypeOK, heapVars, ringVars, loopVars, FrameOrNull
<1>6. CASE Select
  BY <1>6 DEF Select, TypeOK, heapVars, ringVars, Locations
<1>7. CASE Dispatch
  BY <1>7 DEF Dispatch, TypeOK, heapVars, ringVars, Locations
<1>8. CASE ReadByte
  <2>1. pipe' \in [Channels -> Nat]
    <3>1. CASE pipe[ex] = 0 BY <1>8, <3>1 DEF ReadByte, TypeOK
    <3>2. CASE pipe[ex] # 0
      <4>1. pipe' = [pipe EXCEPT ![ex] = @ - 1] BY <1>8, <3>2 DEF ReadByte
      <4>2. pipe[ex] - 1 \in Nat BY <3>2 DEF TypeOK
      <4>3. QED BY <4>1, <4>2 DEF TypeOK
    <3>3. QED BY <3>1, <3>2
  <2>2. pc' \in Locations BY <1>8 DEF ReadByte, Locations
  <2>3. QED BY <1>8, <2>1, <2>2 DEF ReadByte, TypeOK, heapVars
<1>9. CASE TakeDelivered
  <2>1. NextSlot(master_read[ex], Slots[ex]) \in Ring(ex)
    BY NextSlotInRing DEF TypeOK, Ring
  <2>2. f' \in FrameOrNull /\ pc' \in Locations
    BY <1>9 DEF TakeDelivered, TypeOK, Locations
  <2>3. /\ DOMAIN ring' = Channels
        /\ \A d \in Channels :
             ring'[d] \in [Ring(d) -> [f : FrameOrNull, pending : BOOLEAN]]
    <3>1. /\ ring' = [ring EXCEPT ![ex][master_read[ex]] = Emptied(@)]
          /\ ex \in Channels /\ master_read[ex] \in Ring(ex)
      BY <1>9 DEF TakeDelivered, TypeOK
    <3>2. QED BY <3>1, EmptiedType
  <2>4. /\ master_read' \in [Channels -> Nat]
        /\ \A d \in Channels : master_read'[d] \in Ring(d)
    BY SMTT(30), <1>9, <2>1 DEF TakeDelivered, TypeOK, Ring
  <2>5. QED
    BY <1>9, <2>2, <2>3, <2>4 DEF TakeDelivered, TypeOK, heapVars
<1>10. CASE NewFrame
  BY <1>10, TakeFromHeapType DEF NewFrame, TypeOK, ringVars, Locations
<1>11. CASE Exchange
  <2>1. ExchangeFrame(ex, newf) BY <1>11 DEF Exchange
  <2>2. todo' \in SUBSET Keepers BY <1>11 DEF Exchange
  <2>3. QED
    BY <1>11, <2>1, <2>2, ExchangeFrameType
    DEF Exchange, TypeOK, heapVars, Locations, FrameOrNull
<1>12. ASSUME NEW k \in Keepers, Keep(k) PROVE TypeOK'
  <2> DEFINE referenced == [ref_count EXCEPT ![f] = @ + 1]
  <2>1. referenced \in [Frames -> Int]
    <3>1. CASE f \in Frames BY <3>1 DEF TypeOK
    <3>2. CASE f \notin Frames
      <4>1. referenced = ref_count BY <3>2 DEF TypeOK
      <4>2. QED BY <4>1 DEF TypeOK
    <3>3. QED BY <3>1, <3>2
  <2>2. kept' \in [Keepers -> FrameOrNull] /\ todo' \in SUBSET Keepers
    BY <1>12 DEF Keep, TypeOK
  <2>3. /\ heap' \in [HeapSlots -> FrameOrNull]
        /\ frame_heap_take' \in HeapSlots /\ frame_heap_put' \in HeapSlots
        /\ heapStuck' \in BOOLEAN
        /\ ref_count' \in [Frames -> Int]
    <3>1. CASE kept[k] = NoFrame
      BY <1>12, <2>1, <3>1 DEF Keep, TypeOK, heapVars
    <3>2. CASE kept[k] # NoFrame
      <4>1. kept[k] \in FrameOrNull /\ UnrefFrame(kept[k], referenced)
        BY <1>12, <3>2 DEF Keep, TypeOK
      <4>2. QED BY <2>1, <4>1, UnrefFrameType
    <3>3. QED BY <3>1, <3>2
  <2>4. QED BY <1>12, <2>2, <2>3 DEF Keep, TypeOK, ringVars
<1>13. CASE Release
  <2>1. f \in FrameOrNull /\ ref_count \in [Frames -> Int] BY DEF TypeOK
  <2>2. UnrefFrame(f, ref_count) BY <1>13 DEF Release
  <2>3. QED
    BY <1>13, <2>1, <2>2, UnrefFrameType
    DEF Release, TypeOK, ringVars, Locations, FrameOrNull
<1>14. CASE UNCHANGED vars
  BY <1>14 DEF vars, TypeOK, heapVars, ringVars, loopVars
<1>15. QED
  BY <1>1, <1>2, <1>3, <1>4, <1>5, <1>6, <1>7, <1>8, <1>9, <1>10, <1>11, <1>12,
     <1>13, <1>14
  DEF Next, Boot, Loop, Capture

\* The heap and the rings start with their types.
LEMMA InitType == Init => TypeOK
<1> SUFFICES ASSUME Init PROVE TypeOK
  OBVIOUS
<1>1. 0 \in HeapSlots /\ \A c \in Channels : 0 \in Ring(c)
  BY DEF HeapSlots, Ring
<1>2. heap \in [HeapSlots -> FrameOrNull] /\ ref_count \in [Frames -> Int]
  BY DEF Init, Frames, FrameOrNull
<1>3. /\ DOMAIN ring = Channels
      /\ \A c \in Channels :
           ring[c] \in [Ring(c) -> [f : FrameOrNull, pending : BOOLEAN]]
  BY DEF Init, FrameOrNull
<1>4. QED
  BY <1>1, <1>2, <1>3 DEF Init, TypeOK, FrameOrNull, Locations

\* Every pointer stays in its ring and every slot, hand and location holds a
\* frame of the heap or NULL, whatever the threads interleave.
THEOREM TypeCorrect == Spec => []TypeOK
BY InitType, TypeStep, PTL DEF Spec

-----------------------------------------------------------------------------
(* The heap: its full slots form one run                                    *)

\* new_frame takes the first of the full slots.
LEMMA TakeFromHeapShape ==
  ASSUME TypeOK, HeapShape, TakeFromHeap
  PROVE  HeapShape'
<1>1. CASE Available = NoFrame
  BY <1>1 DEF TakeFromHeap, HeapShape, heapVars
<1>2. CASE Available # NoFrame
  <2>1. /\ heap' = [heap EXCEPT ![frame_heap_take] = NoFrame]
        /\ frame_heap_take' = NextSlot(frame_heap_take, HeapCount)
        /\ frame_heap_put' = frame_heap_put
    BY <1>2 DEF TakeFromHeap
  <2>2. heap[frame_heap_take] # NoFrame BY <1>2 DEF Available
  <2>3. QED BY <2>1, <2>2 DEF TypeOK, HeapShape, Arc, NextSlot, HeapSlots
<1>3. QED BY <1>1, <1>2

\* unref_frame leaves the full slots in one run.
LEMMA PutBackShape ==
  ASSUME TypeOK, HeapShape, NEW g \in Frames, PutBack(g)
  PROVE  HeapShape'
<1>1. CASE heap[frame_heap_put] # NoFrame
  BY <1>1 DEF PutBack, HeapShape
<1>2. CASE heap[frame_heap_put] = NoFrame
  <2>1. /\ heap' = [heap EXCEPT ![frame_heap_put] = g]
        /\ frame_heap_put' = NextSlot(frame_heap_put, HeapCount)
        /\ frame_heap_take' = frame_heap_take
    BY <1>2 DEF PutBack
  <2>2. QED BY <1>2, <2>1 DEF TypeOK, HeapShape, Arc, NextSlot, HeapSlots
<1>3. QED BY <1>1, <1>2

-----------------------------------------------------------------------------
(* The rings: pending, unread and vacant slots form three consecutive runs  *)

\* exchange_frame at a vacant slot extends the pending run.
LEMMA ExchangeShape ==
  ASSUME TypeOK, NEW c \in Channels, RingShapeOf(c), IsVacant(c, master_write[c]),
         NEW g, ExchangeFrame(c, g)
  PROVE  RingShapeOf(c)'
<1> DEFINE w == master_write[c]
<1>1. /\ ring' = [ring EXCEPT ![c][w] = [f |-> g, pending |-> TRUE]]
      /\ master_write' = [master_write EXCEPT ![c] = NextSlot(w, Slots[c])]
      /\ UNCHANGED <<slave_cur, master_read, pipe, lost>>
  BY DEF ExchangeFrame, IsVacant
<1>2. /\ master_write'[c] = NextSlot(w, Slots[c])
      /\ slave_cur'[c] = slave_cur[c] /\ master_read'[c] = master_read[c]
  BY <1>1 DEF TypeOK
<1>3. \A i \in Ring(c) : 
       /\ IsPending(c, i)' <=> IsPending(c, i) \/ i = w
       /\ IsUnread(c, i)' <=> IsUnread(c, i)
       /\ IsVacant(c, i)' <=> IsVacant(c, i) /\ i # w
  BY <1>1 DEF TypeOK, IsPending, IsUnread, IsVacant
<1>4. ~IsPending(c, w) /\ ~IsUnread(c, w) /\ w \in Ring(c)
  BY DEF IsPending, IsUnread, IsVacant, TypeOK
<1>5. slave_cur[c] \in Ring(c) /\ master_read[c] \in Ring(c) /\ Slots[c] \in Nat \ {0}
  BY DEF TypeOK
<1> HIDE DEF w
<1>6. QED
 BY <1>2, <1>3, <1>4, <1>5 DEF RingShapeOf, Arc, NextSlot, Ring, w

\* A channel whose ring and pointers do not move keeps its runs.
LEMMA RingStays ==
  ASSUME NEW c \in Channels, ring'[c] = ring[c], slave_cur'[c] = slave_cur[c],
         master_read'[c] = master_read[c], master_write'[c] = master_write[c]
  PROVE  /\ RingShapeOf(c) => RingShapeOf(c)'
         /\ Unread(c)' = Unread(c)
         /\ \A i : /\ IsPending(c, i)' <=> IsPending(c, i)
                   /\ IsVacant(c, i)' <=> IsVacant(c, i)
BY DEF RingShapeOf, Unread, IsPending, IsUnread, IsVacant

\* The unread slots of a ring are finitely many.
LEMMA UnreadFinite ==
  ASSUME NEW c \in Channels
  PROVE  /\ IsFiniteSet(Unread(c))
         /\ Cardinality(Unread(c)) \in Nat
<1>1. IsFiniteSet(Ring(c)) BY FS_Interval DEF Ring
<1>2. Unread(c) \subseteq Ring(c) BY DEF Unread
<1>3. QED BY <1>1, <1>2, FS_Subset, FS_CardinalityType

\* get_next_frame empties a pending slot: no run changes.
LEMMA GetShape ==
  ASSUME RingInv, NEW c \in Channels, GetNextFrame(c)
  PROVE  /\ RingShapeOf(c)'
         /\ Unread(c)' = Unread(c)
         /\ \A i \in Ring(c) : /\ IsPending(c, i)' <=> IsPending(c, i)
                               /\ IsVacant(c, i)' <=> IsVacant(c, i)
         /\ IsPending(c, slave_cur[c])' /\ ring'[c][slave_cur[c]].f = NoFrame
<1> DEFINE cur == slave_cur[c]
<1>1. /\ ring' = [ring EXCEPT ![c][cur] = Emptied(@)]
      /\ UNCHANGED <<slave_cur, master_read, master_write>>
      /\ ring[c][cur].pending /\ cur \in Ring(c)
  BY DEF RingInv, TypeOK, GetNextFrame, NextFrame
<1>2. \A i \in Ring(c) : /\ IsPending(c, i)' <=> IsPending(c, i)
                         /\ IsUnread(c, i)' <=> IsUnread(c, i)
                         /\ IsVacant(c, i)' <=> IsVacant(c, i)
  BY <1>1 DEF RingInv, TypeOK, Emptied, IsPending, IsUnread, IsVacant
<1>3. RingShapeOf(c)'
  BY <1>1, <1>2 DEF RingInv, RingShape, RingShapeOf
<1>4. Unread(c)' = Unread(c)
  BY <1>2 DEF Unread, IsUnread
<1>5. ring'[c][cur] = [f |-> NoFrame, pending |-> TRUE]
  BY <1>1 DEF RingInv, TypeOK, Emptied
<1>6. QED BY <1>1, <1>2, <1>3, <1>4, <1>5 DEF IsPending

\* deliver_frame turns the slave's slot, the first pending one, into the last
\* unread one.
LEMMA DeliverShape ==
  ASSUME RingInv, NEW c \in Channels, DeliverFrame(c)
  PROVE  /\ RingShapeOf(c)'
         /\ slave_cur[c] \notin Unread(c)
         /\ Unread(c)' = Unread(c) \cup {slave_cur[c]}
         /\ \A i \in Ring(c) : IsVacant(c, i)' <=> IsVacant(c, i)
<1> DEFINE cur == slave_cur[c]
<1>1. /\ ring' = [ring EXCEPT ![c][cur] = [f |-> captured[c], pending |-> FALSE]]
      /\ slave_cur' = [slave_cur EXCEPT ![c] = NextSlot(cur, Slots[c])]
      /\ UNCHANGED <<master_read, master_write>>
      /\ captured[c] # NoFrame
  BY DEF DeliverFrame
<1>2. IsPending(c, cur) /\ cur \in Ring(c)
  BY <1>1 DEF RingInv, BorrowedShape, TypeOK
<1>3. \A i \in Ring(c) : /\ IsPending(c, i)' <=> IsPending(c, i) /\ i # cur
                         /\ IsUnread(c, i)' <=> IsUnread(c, i) \/ i = cur
                         /\ IsVacant(c, i)' <=> IsVacant(c, i)
  BY <1>1, <1>2 DEF RingInv, TypeOK, IsPending, IsUnread, IsVacant
<1>4. /\ slave_cur'[c] = NextSlot(cur, Slots[c])
      /\ master_read'[c] = master_read[c] /\ master_write'[c] = master_write[c]
      /\ master_read[c] \in Ring(c) /\ master_write[c] \in Ring(c)
      /\ Slots[c] \in Nat \ {0}
  BY <1>1 DEF RingInv, TypeOK
<1>5. ~IsUnread(c, cur) /\ ~IsVacant(c, cur)
  BY <1>2 DEF IsPending, IsUnread, IsVacant
<1>6. RingShapeOf(c)
  BY DEF RingInv, RingShape
<1>7. Unread(c)' = Unread(c) \cup {cur} /\ cur \notin Unread(c)
  BY <1>2, <1>3, <1>5 DEF Unread, IsUnread
<1> HIDE DEF cur
<1>8. RingShapeOf(c)'
  BY <1>2, <1>3, <1>4, <1>5, <1>6 DEF RingShapeOf, Arc, NextSlot, Ring, cur
<1>9. QED BY <1>3, <1>7, <1>8 DEF cur

\* When exchanger_read takes, the slot at master_read is unread.
LEMMA TakeFindsUnread ==
  ASSUME RingInv, pc = "take"
  PROVE  /\ IsUnread(ex, master_read[ex])
         /\ master_read[ex] \in Unread(ex)
<1> DEFINE rd == master_read[ex]
<1>1. ex \in Channels /\ rd \in Ring(ex) /\ slave_cur[ex] \in Ring(ex) /\ pipe[ex] \in Nat
  BY DEF RingInv, TypeOK
<1>2. Cardinality(Unread(ex)) = pipe[ex] + 1
  BY <1>1 DEF RingInv, PipeMatchesRing
<1>3. Unread(ex) # {}
  BY <1>1, <1>2, FS_EmptySet
<1>4. \E i \in Ring(ex) : IsUnread(ex, i)
  BY <1>3 DEF Unread, IsUnread
<1>5. RingShapeOf(ex)
  BY <1>1 DEF RingInv, RingShape
<1>6. IsUnread(ex, rd)
  BY <1>1, <1>4, <1>5 DEF RingShapeOf, Arc, Ring
<1>7. QED BY <1>1, <1>6 DEF Unread, IsUnread

\* exchanger_read turns the first unread slot into the last vacant one, and the
\* slot at master_write is then vacant.
LEMMA TakeShape ==
  ASSUME RingInv, TakeDelivered
  PROVE  /\ RingShapeOf(ex)'
         /\ Unread(ex)' = Unread(ex) \ {master_read[ex]}
         /\ \A i \in Ring(ex) : IsPending(ex, i)' <=> IsPending(ex, i)
         /\ \A i \in Ring(ex) : IsVacant(ex, i) => IsVacant(ex, i)'
         /\ IsVacant(ex, master_write[ex])'
<1> DEFINE rd == master_read[ex]
<1>1. /\ ring' = [ring EXCEPT ![ex][rd] = Emptied(@)]
      /\ master_read' = [master_read EXCEPT ![ex] = NextSlot(rd, Slots[ex])]
      /\ UNCHANGED <<slave_cur, master_write, ex>>
      /\ pc = "take"
  BY DEF TakeDelivered
<1>2. /\ IsUnread(ex, rd) /\ ~IsPending(ex, rd) /\ ~IsVacant(ex, rd)
  BY <1>1, TakeFindsUnread DEF IsUnread, IsPending, IsVacant
<1>3. /\ ex \in Channels /\ rd \in Ring(ex) /\ slave_cur[ex] \in Ring(ex)
      /\ master_write[ex] \in Ring(ex) /\ Slots[ex] \in Nat \ {0}
  BY DEF RingInv, TypeOK
<1>4. \A i \in Ring(ex) : /\ IsPending(ex, i)' <=> IsPending(ex, i)
                          /\ IsUnread(ex, i)' <=> IsUnread(ex, i) /\ i # rd
                          /\ IsVacant(ex, i)' <=> IsVacant(ex, i) \/ i = rd
  BY <1>1, <1>2, <1>3 DEF RingInv, TypeOK, Emptied, IsPending, IsUnread, IsVacant
<1>5. /\ master_read'[ex] = NextSlot(rd, Slots[ex]) /\ ex' = ex
      /\ slave_cur'[ex] = slave_cur[ex] /\ master_write'[ex] = master_write[ex]
  BY <1>1, <1>3 DEF RingInv, TypeOK
<1>6. RingShapeOf(ex)
  BY <1>3 DEF RingInv, RingShape
<1>7. Unread(ex)' = Unread(ex) \ {rd}
  BY <1>3, <1>4, <1>5 DEF Unread, IsUnread
<1> HIDE DEF rd
<1>8. RingShapeOf(ex)' /\ IsVacant(ex, master_write[ex])'
  BY <1>2, <1>3, <1>4, <1>5, <1>6 DEF RingShapeOf, Arc, NextSlot, Ring, rd
<1>9. QED BY <1>4, <1>7, <1>8 DEF rd

-----------------------------------------------------------------------------
(* The ring invariant is kept by every step                                 *)

\* The conjuncts of RingInv other than the types.
RingParts == RingShape /\ BootShape /\ LoopShape /\ BorrowedShape /\ PipeMatchesRing

\* A step that leaves the rings, the pipes and the hands of the callbacks alone
\* keeps what does not depend on the place of the loop.
LEMMA RingsUntouched ==
  ASSUME RingInv, UNCHANGED ringVars, UNCHANGED <<filled, captured>>,
         pc = "boot" /\ pc' # "boot" => \A c \in Channels : filled[c] = Slots[c]
  PROVE  /\ RingShape' /\ BootShape' /\ BorrowedShape'
         /\ \A c \in Channels : Unread(c)' = Unread(c)
         /\ \A c \in Channels : \A i : IsVacant(c, i)' <=> IsVacant(c, i)
<1>1. \A c \in Channels : /\ RingShapeOf(c)'
                          /\ Unread(c)' = Unread(c)
                          /\ \A i : /\ IsPending(c, i)' <=> IsPending(c, i)
                                    /\ IsVacant(c, i)' <=> IsVacant(c, i)
  BY RingStays DEF RingInv, RingShape, ringVars
<1>2. BootShape'
  BY <1>1 DEF RingInv, BootShape, ringVars
<1>3. BorrowedShape'
  BY <1>1 DEF RingInv, BorrowedShape, ringVars
<1>4. QED BY <1>1, <1>2, <1>3 DEF RingShape

\* A capture into a filled ring leaves the rings that are being filled alone.
LEMMA ChannelBoots ==
  ASSUME RingInv, NEW c \in Channels, filled[c] = Slots[c],
         UNCHANGED <<filled, pc, master_read, master_write>>,
         \A d \in Channels : d # c =>
           /\ ring'[d] = ring[d] /\ captured'[d] = captured[d]
           /\ slave_cur'[d] = slave_cur[d] /\ pipe'[d] = pipe[d]
  PROVE  BootShape'
<1>1. ~(filled[c] < Slots[c]) /\ BootShape
  BY DEF RingInv, TypeOK
<1>2. \A d \in Channels : d # c =>
        \A i : /\ IsPending(d, i)' <=> IsPending(d, i)
               /\ IsVacant(d, i)' <=> IsVacant(d, i)
  BY DEF IsPending, IsVacant
<1>3. QED BY <1>1, <1>2 DEF BootShape

\* A start-up exchange fills the next slot after those already filled.
LEMMA FillKeepsRings ==
  ASSUME RingInv, NEW c \in Channels, Fill(c)
  PROVE  RingParts'
<1> DEFINE w == master_write[c]
<1>1. /\ pc = "boot" /\ filled[c] < Slots[c] /\ ExchangeFrame(c, Available)
      /\ filled' = [filled EXCEPT ![c] = @ + 1]
      /\ UNCHANGED <<captured, pc, ex, f, newf, todo>>
  BY DEF Fill, loopVars
<1>2. /\ w = filled[c] /\ w \in Ring(c)
      /\ filled \in [Channels -> Nat] /\ Slots[c] \in Nat \ {0}
  BY <1>1 DEF RingInv, BootShape, TypeOK
<1>3. IsVacant(c, w)
  BY <1>1, <1>2 DEF RingInv, BootShape
<1>4. RingShapeOf(c)'
  BY <1>1, <1>3, ExchangeShape DEF RingInv, RingShape
<1>5. /\ ring' = [ring EXCEPT ![c][w] = [f |-> Available, pending |-> TRUE]]
      /\ master_write' = [master_write EXCEPT ![c] = NextSlot(w, Slots[c])]
      /\ UNCHANGED <<slave_cur, master_read, pipe>>
  BY <1>1, <1>3 DEF ExchangeFrame, IsVacant
<1>6. \A d \in Channels : d # c =>
        /\ ring'[d] = ring[d] /\ slave_cur'[d] = slave_cur[d]
        /\ master_read'[d] = master_read[d] /\ master_write'[d] = master_write[d]
        /\ filled'[d] = filled[d]
  BY <1>1, <1>5 DEF RingInv, TypeOK
<1>7. RingShape'
  BY <1>4, <1>6, RingStays DEF RingInv, RingShape
<1>8. \A i \in Ring(c) : /\ IsPending(c, i)' <=> IsPending(c, i) \/ i = w
                         /\ IsUnread(c, i)' <=> IsUnread(c, i)
                         /\ IsVacant(c, i)' <=> IsVacant(c, i) /\ i # w
  BY <1>3, <1>5 DEF RingInv, TypeOK, IsPending, IsUnread, IsVacant
<1>9. BootShape'
  <2>1. /\ filled'[c] = filled[c] + 1
        /\ master_write'[c] = NextSlot(w, Slots[c])
    BY <1>1, <1>5 DEF RingInv, TypeOK
  <2>2. master_write'[c] = IF filled'[c] = Slots[c] THEN 0 ELSE filled'[c]
    BY <1>1, <1>2, <2>1 DEF NextSlot
  <2>3. \A i \in Ring(c) : /\ IsPending(c, i)' <=> i < filled'[c]
                           /\ ~IsPending(c, i)' => IsVacant(c, i)'
    <3>1. \A i \in Ring(c) : i \in Int /\ (i < filled[c] + 1 <=> i < filled[c] \/ i = w)
      BY <1>2 DEF Ring
    <3>2. QED BY <1>1, <1>8, <2>1, <3>1 DEF RingInv, BootShape
  <2>4. filled'[c] <= Slots[c]
    BY <1>1, <1>2, <2>1
  <2>5. \A d \in Channels : d # c =>
          \A i \in Ring(d) : /\ IsPending(d, i)' <=> IsPending(d, i)
                             /\ IsVacant(d, i)' <=> IsVacant(d, i)
    BY <1>6, RingStays
  <2>6. QED
    BY <1>1, <1>5, <1>6, <2>2, <2>3, <2>4, <2>5 DEF RingInv, BootShape
<1>10. LoopShape' /\ BorrowedShape'
  <2>1. captured'[c] = NoFrame
    BY <1>1 DEF RingInv, BootShape
  <2>2. BorrowedShape'
    BY <1>1, <1>6, <2>1 DEF RingInv, BorrowedShape, IsPending
  <2>3. QED BY <1>1, <2>2 DEF RingInv, LoopShape
<1>11. PipeMatchesRing'
  <2>1. Unread(c)' = Unread(c)
    BY <1>8 DEF Unread, IsUnread
  <2>2. \A d \in Channels : Unread(d)' = Unread(d)
    BY <1>6, <2>1, RingStays
  <2>3. QED BY <1>1, <1>5, <2>2 DEF RingInv, PipeMatchesRing
<1>12. QED BY <1>7, <1>9, <1>10, <1>11 DEF RingParts

\* A callback that takes a frame leaves its slot pending.
LEMMA GetKeepsRings ==
  ASSUME RingInv, NEW c \in Channels, GetNextFrame(c)
  PROVE  RingParts'
<1>1. /\ filled[c] = Slots[c] /\ captured' = [captured EXCEPT ![c] = NextFrame(c)]
      /\ ring' = [ring EXCEPT ![c][slave_cur[c]] = Emptied(@)]
      /\ UNCHANGED <<slave_cur, master_read, master_write, pipe, filled>>
      /\ UNCHANGED <<pc, ex, f, newf, todo>>
  BY DEF GetNextFrame, loopVars
<1>2. \A d \in Channels : d # c => ring'[d] = ring[d] /\ captured'[d] = captured[d]
  BY <1>1 DEF RingInv, TypeOK
<1>3. RingShape'
  BY <1>1, <1>2, GetShape, RingStays DEF RingInv, RingShape
<1>4. \A d \in Channels : /\ Unread(d)' = Unread(d)
                          /\ \A i \in Ring(d) : IsVacant(d, i)' <=> IsVacant(d, i)
  BY <1>1, <1>2, GetShape, RingStays
<1>5. BootShape'
  BY <1>1, <1>2, ChannelBoots
<1>6. LoopShape'
  BY <1>1, <1>4 DEF RingInv, TypeOK, LoopShape
<1>7. BorrowedShape'
  <2>1. IsPending(c, slave_cur[c])' /\ ring'[c][slave_cur'[c]].f = NoFrame
    BY <1>1, GetShape
  <2>2. QED
    BY <1>1, <1>2, <2>1 DEF RingInv, BorrowedShape, IsPending
<1>8. PipeMatchesRing'
  BY <1>1, <1>4 DEF RingInv, PipeMatchesRing
<1>9. QED BY <1>3, <1>5, <1>6, <1>7, <1>8 DEF RingParts

\* A delivery adds one unread slot and one byte.
LEMMA DeliverKeepsRings ==
  ASSUME RingInv, NEW c \in Channels, DeliverFrame(c)
  PROVE  RingParts'
<1>1. /\ captured[c] # NoFrame /\ captured' = [captured EXCEPT ![c] = NoFrame]
      /\ ring' = [ring EXCEPT ![c][slave_cur[c]] = [f |-> captured[c], pending |-> FALSE]]
      /\ pipe' = [pipe EXCEPT ![c] = @ + 1]
      /\ slave_cur' = [slave_cur EXCEPT ![c] = NextSlot(slave_cur[c], Slots[c])]
      /\ UNCHANGED <<master_read, master_write, filled>>
      /\ UNCHANGED <<pc, ex, f, newf, todo>>
  BY DEF DeliverFrame, loopVars
<1>2. filled[c] = Slots[c]
  <2>1. filled[c] \in Nat /\ Slots[c] \in Nat /\ filled[c] <= Slots[c]
    BY DEF RingInv, BootShape, TypeOK
  <2>2. ~(filled[c] < Slots[c])
    BY <1>1 DEF RingInv, BootShape
  <2>3. QED BY <2>1, <2>2
<1>3. \A d \in Channels : d # c => /\ ring'[d] = ring[d] /\ captured'[d] = captured[d]
                                   /\ slave_cur'[d] = slave_cur[d] /\ pipe'[d] = pipe[d]
  BY <1>1 DEF RingInv, TypeOK
<1>4. captured'[c] = NoFrame /\ pipe'[c] = pipe[c] + 1 /\ pipe[c] \in Nat
  BY <1>1 DEF RingInv, TypeOK
<1>5. RingShape'
  BY <1>1, <1>3, DeliverShape, RingStays DEF RingInv, RingShape
<1>6. \A d \in Channels : \A i \in Ring(d) : IsVacant(d, i)' <=> IsVacant(d, i)
  BY <1>1, <1>3, DeliverShape, RingStays
<1>7. BootShape'
  BY <1>1, <1>2, <1>3, ChannelBoots
<1>8. LoopShape'
  BY <1>1, <1>6 DEF RingInv, TypeOK, LoopShape
<1>9. BorrowedShape'
  BY <1>3, <1>4 DEF RingInv, BorrowedShape, IsPending
<1>10. PipeMatchesRing'
  <2>1. Cardinality(Unread(c)') = Cardinality(Unread(c)) + 1
    <3>1. /\ slave_cur[c] \notin Unread(c)
          /\ Unread(c)' = Unread(c) \cup {slave_cur[c]}
      BY DeliverShape
    <3>2. Cardinality(Unread(c) \cup {slave_cur[c]}) = Cardinality(Unread(c)) + 1
      BY <3>1, UnreadFinite, FS_AddElement
    <3>3. QED BY <3>1, <3>2
  <2>2. \A d \in Channels : d # c => Unread(d)' = Unread(d)
    BY <1>1, <1>3, RingStays
  <2>3. Cardinality(Unread(c)) = pipe[c] + (IF pc = "take" /\ ex = c THEN 1 ELSE 0)
    BY DEF RingInv, PipeMatchesRing
  <2>4. QED
    BY <1>1, <1>3, <1>4, <2>1, <2>2, <2>3 DEF RingInv, PipeMatchesRing
<1>11. QED BY <1>5, <1>7, <1>8, <1>9, <1>10 DEF RingParts

\* exchanger_read has the frame of the byte it read, and leaves room for the
\* empty frame it will give in exchange.
LEMMA TakeKeepsRings ==
  ASSUME RingInv, TakeDelivered
  PROVE  RingParts'
<1> DEFINE rd == master_read[ex]
<1>1. /\ pc = "take" /\ pc' = "new" /\ f' = ring[ex][rd].f
      /\ ring' = [ring EXCEPT ![ex][rd] = Emptied(@)]
      /\ master_read' = [master_read EXCEPT ![ex] = NextSlot(rd, Slots[ex])]
      /\ UNCHANGED <<slave_cur, master_write, pipe, filled, captured, ex, newf, todo>>
  BY DEF TakeDelivered
<1>2. ex \in Channels /\ rd \in Ring(ex)
  BY DEF RingInv, TypeOK
<1>3. \A d \in Channels : d # ex =>
        ring'[d] = ring[d] /\ master_read'[d] = master_read[d]
  BY <1>1 DEF RingInv, TypeOK
<1>4. RingShape'
  BY <1>1, <1>3, TakeShape, RingStays DEF RingInv, RingShape
<1>5. BootShape'
  BY <1>1 DEF RingInv, BootShape
<1>6. LoopShape'
  <2>1. f' # NoFrame
    BY <1>1, TakeFindsUnread DEF IsUnread
  <2>2. QED
    BY <1>1, <2>1, TakeShape DEF RingInv, LoopShape
<1>7. BorrowedShape'
  <2>1. ring'[ex][slave_cur[ex]].f = NoFrame \/ ring'[ex][slave_cur[ex]].f = ring[ex][slave_cur[ex]].f
    BY <1>1, <1>2 DEF RingInv, TypeOK, Emptied
  <2>2. slave_cur[ex] \in Ring(ex) BY <1>2 DEF RingInv, TypeOK
  <2>3. QED
    BY <1>1, <1>2, <1>3, <2>1, <2>2, TakeShape DEF RingInv, BorrowedShape, IsPending
<1>8. PipeMatchesRing'
  <2>1. Cardinality(Unread(ex)') = Cardinality(Unread(ex)) - 1
    BY <1>1, <1>2, TakeFindsUnread, TakeShape, UnreadFinite, FS_RemoveElement, ZenonT(30)
  <2>2. \A d \in Channels : d # ex => Unread(d)' = Unread(d)
    BY <1>1, <1>3, RingStays
  <2>3. pipe[ex] \in Nat /\ Cardinality(Unread(ex)) = pipe[ex] + 1
    BY <1>1, <1>2 DEF RingInv, TypeOK, PipeMatchesRing
  <2>4. QED
    BY <1>1, <2>1, <2>2, <2>3 DEF RingInv, PipeMatchesRing
<1>9. QED BY <1>4, <1>5, <1>6, <1>7, <1>8 DEF RingParts

\* The exchange fills the room left, one slot further in the pending run.
LEMMA ExchangeKeepsRings ==
  ASSUME RingInv, Exchange
  PROVE  RingParts'
<1> DEFINE w == master_write[ex]
<1>1. /\ pc = "exchange" /\ pc' = "deliver" /\ newf' = NoFrame
      /\ ExchangeFrame(ex, newf)
      /\ UNCHANGED <<filled, captured, ex, f>>
  BY DEF Exchange
<1>2. ex \in Channels /\ w \in Ring(ex) /\ slave_cur[ex] \in Ring(ex)
  BY DEF RingInv, TypeOK
<1>3. IsVacant(ex, w)
  BY <1>1 DEF RingInv, LoopShape
<1>4. /\ ring' = [ring EXCEPT ![ex][w] = [f |-> newf, pending |-> TRUE]]
      /\ master_write' = [master_write EXCEPT ![ex] = NextSlot(w, Slots[ex])]
      /\ UNCHANGED <<slave_cur, master_read, pipe>>
  BY <1>1, <1>3 DEF ExchangeFrame, IsVacant
<1>5. \A d \in Channels : d # ex =>
        ring'[d] = ring[d] /\ master_write'[d] = master_write[d]
  BY <1>4 DEF RingInv, TypeOK
<1>6. RingShapeOf(ex)'
  BY <1>1, <1>2, <1>3, ExchangeShape DEF RingInv, RingShape
<1>7. RingShape'
  BY <1>1, <1>4, <1>5, <1>6, RingStays DEF RingInv, RingShape
<1>8. \A i \in Ring(ex) : i # w => ring'[ex][i] = ring[ex][i]
  BY <1>2, <1>4 DEF RingInv, TypeOK
<1>9. ring'[ex][w] = [f |-> newf, pending |-> TRUE]
  BY <1>2, <1>4 DEF RingInv, TypeOK
<1>10. BootShape' /\ LoopShape'
  BY <1>1, <1>4 DEF RingInv, BootShape, LoopShape
<1>11. BorrowedShape'
  BY <1>1, <1>2, <1>3, <1>4, <1>5, <1>8
  DEF RingInv, BorrowedShape, IsPending, IsVacant
<1>12. PipeMatchesRing'
  <2>1. Unread(ex)' = Unread(ex)
    BY <1>1, <1>3, <1>8, <1>9 DEF Unread, IsVacant
  <2>2. \A d \in Channels : Unread(d)' = Unread(d)
    BY <1>1, <1>4, <1>5, <2>1, RingStays
  <2>3. QED BY <1>1, <1>4, <2>2 DEF RingInv, PipeMatchesRing
<1>13. QED BY <1>7, <1>10, <1>11, <1>12 DEF RingParts

\* A callback that gives up leaves the ring as it found it: its slot stays
\* pending and empty.
LEMMA AbandonKeepsRings ==
  ASSUME RingInv, NEW c \in Channels, AbandonFrame(c)
  PROVE  RingParts'
<1>1. /\ captured[c] # NoFrame /\ captured' = [captured EXCEPT ![c] = NoFrame]
      /\ UNCHANGED <<ringVars, filled, pc, ex, f, newf, todo>>
  BY DEF AbandonFrame, loopVars
<1>2. \A d \in Channels : /\ RingShapeOf(d)'
                          /\ Unread(d)' = Unread(d)
                          /\ \A i : /\ IsPending(d, i)' <=> IsPending(d, i)
                                    /\ IsVacant(d, i)' <=> IsVacant(d, i)
  BY <1>1, RingStays DEF RingInv, RingShape, ringVars
<1>3. \A d \in Channels : captured'[d] # NoFrame => captured[d] # NoFrame
  BY <1>1 DEF RingInv, TypeOK
<1>4. BootShape' /\ BorrowedShape'
  BY <1>1, <1>2, <1>3 DEF RingInv, BootShape, BorrowedShape, ringVars
<1>5. LoopShape'
  BY <1>1, <1>2 DEF RingInv, TypeOK, LoopShape, ringVars
<1>6. PipeMatchesRing'
  BY <1>1, <1>2 DEF RingInv, PipeMatchesRing, ringVars
<1>7. QED BY <1>2, <1>4, <1>5, <1>6 DEF RingParts, RingShape

\* A step of the loop that touches neither a ring nor a pipe keeps the ring
\* invariant if it keeps what the loop holds.
LEMMA LoopStepKeepsRings ==
  ASSUME RingInv, UNCHANGED <<ringVars, filled, captured>>,
         pc = "boot" /\ pc' # "boot" => \A c \in Channels : filled[c] = Slots[c],
         pc # "take", pc' # "take", LoopShape'
  PROVE  RingParts'
<1>1. /\ RingShape' /\ BootShape' /\ BorrowedShape'
      /\ \A c \in Channels : Unread(c)' = Unread(c)
  BY RingsUntouched
<1>2. PipeMatchesRing'
  BY <1>1 DEF RingInv, PipeMatchesRing, ringVars
<1>3. QED BY <1>1, <1>2 DEF RingParts

\* Reading a byte makes the loop owe the ring one read.
LEMMA ReadByteKeepsRings ==
  ASSUME RingInv, ReadByte
  PROVE  RingParts'
<1>1. /\ pc = "read" /\ pc' \in {"dispatch", "take"} /\ (pc' = "take" <=> pipe[ex] # 0)
      /\ pipe' = IF pipe[ex] = 0 THEN pipe ELSE [pipe EXCEPT ![ex] = @ - 1]
      /\ UNCHANGED <<ring, slave_cur, master_read, master_write, filled, captured,
                     ex, f, newf, todo>>
  BY DEF ReadByte
<1>2. \A d \in Channels : /\ RingShapeOf(d)'
                          /\ Unread(d)' = Unread(d)
                          /\ \A i : IsPending(d, i)' <=> IsPending(d, i)
  BY <1>1, RingStays DEF RingInv, RingShape
<1>3. BootShape' /\ BorrowedShape' /\ LoopShape'
  BY <1>1, <1>2 DEF RingInv, BootShape, BorrowedShape, LoopShape
<1>4. PipeMatchesRing'
  <2>1. CASE pipe[ex] = 0
    BY <1>1, <1>2, <2>1 DEF RingInv, PipeMatchesRing
  <2>2. CASE pipe[ex] # 0
    <3>1. /\ pc' = "take" /\ pipe'[ex] = pipe[ex] - 1 /\ pipe[ex] \in Nat
          /\ \A d \in Channels : d # ex => pipe'[d] = pipe[d]
      BY <1>1, <2>2 DEF RingInv, TypeOK
    <3>2. \A d \in Channels : pipe[d] \in Nat /\ Cardinality(Unread(d)) = pipe[d]
      BY <1>1 DEF RingInv, PipeMatchesRing, TypeOK
    <3>3. QED BY <1>1, <1>2, <3>1, <3>2 DEF PipeMatchesRing
  <2>3. QED BY <2>1, <2>2
<1>5. QED BY <1>2, <1>3, <1>4 DEF RingParts, RingShape

\* Every step keeps the ring invariant.
LEMMA RingStep == RingInv /\ [Next]_vars => RingInv'
<1> SUFFICES ASSUME RingInv, [Next]_vars PROVE RingInv'
  OBVIOUS
<1>1. TypeOK'
  BY TypeStep DEF RingInv
<1> SUFFICES RingParts'
  BY <1>1 DEF RingInv, RingParts
<1>2. ASSUME NEW c \in Channels, Fill(c) PROVE RingParts'
  BY <1>2, FillKeepsRings
<1>3. CASE StartLoop
  <2>1. LoopShape'
    BY <1>3 DEF StartLoop, RingInv, LoopShape
  <2>2. QED BY <1>3, <2>1, LoopStepKeepsRings DEF StartLoop
<1>4. ASSUME NEW c \in Channels, GetNextFrame(c) PROVE RingParts'
  BY <1>4, GetKeepsRings
<1>5. ASSUME NEW c \in Channels, DeliverFrame(c) PROVE RingParts'
  BY <1>5, DeliverKeepsRings
<1>6. ASSUME NEW c \in Channels, AbandonFrame(c) PROVE RingParts'
  BY <1>6, AbandonKeepsRings
<1>7. CASE Select
  <2>1. LoopShape'
    BY <1>7 DEF Select, RingInv, LoopShape
  <2>2. QED BY <1>7, <2>1, LoopStepKeepsRings DEF Select
<1>8. CASE Dispatch
  <2>1. pc = "dispatch" /\ pc' \in {"select", "read"}
    BY <1>8 DEF Dispatch
  <2>2. LoopShape'
    BY <1>8, <2>1 DEF Dispatch, RingInv, LoopShape
  <2>3. QED BY <1>8, <2>1, <2>2, LoopStepKeepsRings DEF Dispatch
<1>9. CASE ReadByte
  BY <1>9, ReadByteKeepsRings
<1>10. CASE TakeDelivered
  BY <1>10, TakeKeepsRings
<1>11. CASE NewFrame
  <2>1. /\ pc = "new" /\ newf' = Available
        /\ pc' = IF Available = NoFrame THEN "deliver" ELSE "exchange"
        /\ UNCHANGED <<ringVars, filled, captured, ex, f, todo>>
    BY <1>11 DEF NewFrame
  <2>2. IsVacant(ex, master_write[ex])'
    BY <2>1, RingsUntouched DEF RingInv, TypeOK, LoopShape, ringVars, IsVacant
  <2>3. LoopShape'
    BY <2>1, <2>2 DEF RingInv, LoopShape
  <2>4. QED BY <2>1, <2>3, LoopStepKeepsRings
<1>12. CASE Exchange
  BY <1>12, ExchangeKeepsRings
<1>13. ASSUME NEW k \in Keepers, Keep(k) PROVE RingParts'
  <2>1. /\ pc = "deliver" /\ UNCHANGED <<ringVars, filled, captured, pc, ex, f, newf>>
    BY <1>13 DEF Keep
  <2>2. LoopShape'
    BY <2>1 DEF RingInv, LoopShape
  <2>3. QED BY <2>1, <2>2, LoopStepKeepsRings
<1>14. CASE Release
  <2>1. /\ pc = "deliver" /\ pc' = "read" /\ f' = NoFrame /\ todo = {}
        /\ UNCHANGED <<ringVars, filled, captured, ex, newf, todo>>
    BY <1>14 DEF Release
  <2>2. LoopShape'
    BY <2>1 DEF RingInv, LoopShape
  <2>3. QED BY <2>1, <2>2, LoopStepKeepsRings
<1>15. CASE UNCHANGED vars
  <2>1. UNCHANGED <<ringVars, filled, captured, pc, ex, f, newf, todo>>
    BY <1>15 DEF vars, loopVars
  <2>2. \A d \in Channels : /\ RingShapeOf(d)'
                            /\ Unread(d)' = Unread(d)
                            /\ \A i : /\ IsPending(d, i)' <=> IsPending(d, i)
                                      /\ IsVacant(d, i)' <=> IsVacant(d, i)
    BY <2>1, RingStays DEF RingInv, RingShape, ringVars
  <2>3. BootShape' /\ BorrowedShape'
    BY <2>1, <2>2 DEF RingInv, BootShape, BorrowedShape, ringVars
  <2>4. LoopShape'
    BY <2>1, <2>2 DEF RingInv, TypeOK, LoopShape, ringVars
  <2>5. PipeMatchesRing'
    BY <2>1, <2>2 DEF RingInv, PipeMatchesRing, ringVars
  <2>6. QED BY <2>2, <2>3, <2>4, <2>5 DEF RingParts, RingShape
<1>16. QED
  BY <1>2, <1>3, <1>4, <1>5, <1>6, <1>7, <1>8, <1>9, <1>10, <1>11, <1>12, <1>13,
     <1>14, <1>15
  DEF Next, Boot, Loop, Capture

-----------------------------------------------------------------------------
(* The heap never overflows                                                 *)

\* Unless every frame is in the heap, the slot at frame_heap_put is empty: this
\* is what keeps unref_frame from returning with the mutex locked.
LEMMA PutSlotFree ==
  ASSUME TypeOK, HeapShape, HeapDistinct, NEW g \in Frames, ~InHeap(g)
  PROVE  heap[frame_heap_put] = NoFrame
<1> SUFFICES ASSUME heap[frame_heap_put] # NoFrame PROVE FALSE
  OBVIOUS
<1>1. \A i \in HeapSlots : heap[i] # NoFrame
  BY DEF TypeOK, HeapShape, Arc, HeapSlots
<1>2. heap \in [HeapSlots -> Frames \ {g}]
  BY <1>1 DEF TypeOK, FrameOrNull, InHeap
<1>3. IsFiniteSet(HeapSlots) /\ Cardinality(HeapSlots) = HeapCount
  BY FS_Interval DEF HeapSlots
<1>4. /\ IsFiniteSet(Frames \ {g})
      /\ Cardinality(Frames \ {g}) = HeapCount - 1
  BY <1>3, FS_RemoveElement DEF Frames
<1>5. \E i, j \in HeapSlots : i # j /\ heap[i] = heap[j]
  BY <1>2, <1>3, <1>4, FS_PigeonHole
<1>6. QED BY <1>1, <1>5 DEF HeapDistinct

\* new_frame removes one frame from the heap.
LEMMA TakeFromHeapOwner ==
  ASSUME TypeOK, HeapDistinct, TakeFromHeap, Available # NoFrame
  PROVE  /\ Available \in Frames /\ InHeap(Available)
         /\ \A g \in Frames : InHeap(g)' <=> InHeap(g) /\ g # Available
         /\ HeapDistinct'
         /\ ref_count' = [ref_count EXCEPT ![Available] = 1]
         /\ heapStuck' = heapStuck
<1>1. /\ heap' = [heap EXCEPT ![frame_heap_take] = NoFrame]
      /\ ref_count' = [ref_count EXCEPT ![Available] = 1]
      /\ heapStuck' = heapStuck
  BY DEF TakeFromHeap
<1>2. Available = heap[frame_heap_take] /\ frame_heap_take \in HeapSlots
  BY DEF Available, TypeOK
<1>3. Available \in Frames /\ InHeap(Available)
  BY <1>2 DEF TypeOK, FrameOrNull, InHeap
<1>4. /\ heap'[frame_heap_take] = NoFrame
      /\ \A i \in HeapSlots : i # frame_heap_take => heap'[i] = heap[i]
  BY <1>1 DEF TypeOK
<1>5. \A g \in Frames : InHeap(g)' <=> InHeap(g) /\ g # Available
  BY <1>2, <1>3, <1>4 DEF InHeap, HeapDistinct
<1>6. HeapDistinct'
  BY <1>4 DEF HeapDistinct
<1>7. QED BY <1>1, <1>3, <1>5, <1>6

\* The tail of unref_frame adds a frame that was outside the heap to it.
LEMMA PutBackOwner ==
  ASSUME TypeOK, HeapShape, HeapDistinct, NEW h \in Frames, ~InHeap(h), PutBack(h)
  PROVE  /\ \A g \in Frames : InHeap(g)' <=> InHeap(g) \/ g = h
         /\ HeapDistinct' /\ HeapShape'
         /\ heapStuck' = heapStuck
<1>1. heap[frame_heap_put] = NoFrame
  BY PutSlotFree
<1>2. heap' = [heap EXCEPT ![frame_heap_put] = h] /\ heapStuck' = heapStuck
  BY <1>1 DEF PutBack
<1>3. frame_heap_put \in HeapSlots BY DEF TypeOK
<1>4. /\ heap'[frame_heap_put] = h
      /\ \A i \in HeapSlots : i # frame_heap_put => heap'[i] = heap[i]
  BY <1>2 DEF TypeOK
<1>5. \A g \in Frames : InHeap(g)' <=> InHeap(g) \/ g = h
  BY <1>1, <1>3, <1>4 DEF InHeap
<1>6. HeapDistinct'
  BY <1>3, <1>4 DEF InHeap, HeapDistinct
<1>7. QED BY <1>2, <1>5, <1>6, PutBackShape

\* exchange_frame at a vacant slot adds its frame to the ring.
LEMMA ExchangeOwner ==
  ASSUME TypeOK, RingDistinct, NEW c \in Channels, IsVacant(c, master_write[c]),
         NEW h \in FrameOrNull, ~InRing(h) \/ h = NoFrame, ExchangeFrame(c, h)
  PROVE  /\ \A g \in Frames : InRing(g)' <=> InRing(g) \/ g = h
         /\ RingDistinct' /\ lost' = lost
<1> DEFINE w == master_write[c]
<1>1. ring' = [ring EXCEPT ![c][w] = [f |-> h, pending |-> TRUE]] /\ lost' = lost
  BY DEF ExchangeFrame, IsVacant
<1>2. w \in Ring(c) /\ ring[c][w].f = NoFrame
  BY DEF TypeOK, IsVacant
<1>3. /\ ring'[c][w].f = h
      /\ \A d \in Channels : \A i \in Ring(d) :
           ~(d = c /\ i = w) => ring'[d][i] = ring[d][i]
  BY <1>1, <1>2 DEF TypeOK
<1>4. \A g \in Frames : InRing(g)' <=> InRing(g) \/ g = h
  BY <1>2, <1>3 DEF InRing
<1>5. RingDistinct'
  BY <1>2, <1>3 DEF InRing, RingDistinct
<1>6. QED BY <1>1, <1>4, <1>5

\* Emptying a slot removes its frame from the ring.
LEMMA EmptiedOwner ==
  ASSUME TypeOK, RingDistinct, NEW c \in Channels, NEW i \in Ring(c),
         ring[c][i].f # NoFrame, ring' = [ring EXCEPT ![c][i] = Emptied(@)]
  PROVE  /\ ring[c][i].f \in Frames /\ InRing(ring[c][i].f)
         /\ \A g \in Frames : InRing(g)' <=> InRing(g) /\ g # ring[c][i].f
         /\ RingDistinct'
<1>1. ring[c][i].f \in Frames
  BY DEF TypeOK, FrameOrNull
<1>2. /\ ring'[c][i].f = NoFrame
      /\ \A d \in Channels : \A j \in Ring(d) :
           ~(d = c /\ j = i) => ring'[d][j] = ring[d][j]
  BY DEF TypeOK, Emptied
<1>3. \A g \in Frames : InRing(g)' <=> InRing(g) /\ g # ring[c][i].f
  BY <1>1, <1>2 DEF InRing, RingDistinct
<1>4. RingDistinct'
  BY <1>2 DEF RingDistinct
<1>5. QED BY <1>1, <1>3, <1>4 DEF InRing

-----------------------------------------------------------------------------
(* The owner invariant is kept by every step                                *)

\* A step that moves no frame keeps every frame's owner.
LEMMA FramesUntouched ==
  ASSUME OwnerInv, UNCHANGED <<heapVars, ref_count, ring, captured, f, newf, kept, lost>>
  PROVE  OwnerInv'
<1>1. \A g : /\ (InHeap(g)' <=> InHeap(g)) /\ (InRing(g)' <=> InRing(g))
             /\ (InCallback(g)' <=> InCallback(g)) /\ (IsSpare(g)' <=> IsSpare(g))
             /\ (InUse(g)' <=> InUse(g)) /\ (IsLost(g)' <=> IsLost(g))
             /\ KeptBy(g)' = KeptBy(g)
  BY DEF InHeap, InRing, InCallback, IsSpare, InUse, IsLost, KeptBy, heapVars
<1>2. \A g \in Frames : SingleOwner(g)'
  BY <1>1 DEF OwnerInv, OneOwner, SingleOwner
<1>3. HeapDistinct' /\ RingDistinct' /\ CallbacksDistinct'
  BY DEF OwnerInv, OneOwner, HeapDistinct, RingDistinct, CallbacksDistinct, heapVars
<1>4. HeapShape' /\ HeapNeverStuck' /\ NothingLost'
  BY DEF OwnerInv, HeapShape, HeapNeverStuck, NothingLost, heapVars
<1>5. RefCountExact'
  BY <1>1 DEF OwnerInv, RefCountExact
<1>6. QED BY <1>2, <1>3, <1>4, <1>5 DEF OwnerInv, OneOwner

\* A start-up exchange moves a frame from the heap to a ring, or moves none.
LEMMA FillKeepsOwners ==
  ASSUME IInv, NEW c \in Channels, Fill(c)
  PROVE  OwnerInv'
<1>1. /\ pc = "boot" /\ filled[c] < Slots[c] /\ TakeFromHeap
      /\ ExchangeFrame(c, Available)
      /\ UNCHANGED <<captured, f, newf, kept>>
  BY DEF Fill, loopVars
<1>2. IsVacant(c, master_write[c]) /\ TypeOK
  <2>1. TypeOK /\ BootShape BY DEF IInv, RingInv
  <2>2. master_write[c] = filled[c] /\ master_write[c] \in Ring(c)
    BY <1>1, <2>1 DEF BootShape, TypeOK
  <2>3. filled[c] \in Nat BY <2>1 DEF TypeOK
  <2>4. ~IsPending(c, master_write[c])
    BY <1>1, <2>1, <2>2, <2>3 DEF BootShape
  <2>5. QED BY <1>1, <2>1, <2>2, <2>4 DEF BootShape
<1>3. HeapShape'
  BY <1>1, <1>2, TakeFromHeapShape DEF IInv, OwnerInv
<1>4. CASE Available = NoFrame
  <2>1. UNCHANGED <<heapVars, ref_count>>
    BY <1>1, <1>4 DEF TakeFromHeap
  <2>2. /\ \A g \in Frames : InRing(g)' <=> InRing(g)
        /\ RingDistinct' /\ lost' = lost
    BY <1>1, <1>2, <1>4, ExchangeOwner DEF IInv, OwnerInv, OneOwner, FrameOrNull
  <2>3. \A g \in Frames : InHeap(g)' <=> InHeap(g)
    BY <2>1 DEF InHeap, heapVars
  <2>4. \A g \in Frames : /\ InCallback(g)' <=> InCallback(g)
                          /\ IsSpare(g)' <=> IsSpare(g)
                          /\ InUse(g)' <=> InUse(g)
                          /\ IsLost(g)' <=> IsLost(g)
                          /\ KeptBy(g)' = KeptBy(g)
    BY <1>1, <2>2 DEF InCallback, IsSpare, InUse, IsLost, KeptBy
  <2>5. OneOwner'
    <3>1. \A g \in Frames : SingleOwner(g)'
      BY <2>2, <2>3, <2>4 DEF IInv, OwnerInv, OneOwner, SingleOwner
    <3>2. HeapDistinct' /\ CallbacksDistinct'
      BY <1>1, <2>1 DEF IInv, OwnerInv, OneOwner, HeapDistinct, CallbacksDistinct, heapVars
    <3>3. QED BY <2>2, <3>1, <3>2 DEF OneOwner
  <2>6. RefCountExact'
    BY <1>1, <2>1, <2>2, <2>3, <2>4 DEF IInv, OwnerInv, RefCountExact
  <2>7. HeapNeverStuck' /\ NothingLost'
    BY <2>1, <2>2 DEF IInv, OwnerInv, HeapNeverStuck, NothingLost, heapVars
  <2>8. QED BY <1>3, <2>5, <2>6, <2>7 DEF OwnerInv
<1>5. CASE Available # NoFrame
  <2> DEFINE h == Available
  <2>1. /\ h \in Frames /\ InHeap(h)
        /\ \A g \in Frames : InHeap(g)' <=> InHeap(g) /\ g # h
        /\ HeapDistinct'
        /\ ref_count' = [ref_count EXCEPT ![h] = 1]
        /\ heapStuck' = heapStuck
    BY <1>1, <1>2, <1>5, TakeFromHeapOwner DEF IInv, OwnerInv, OneOwner
  <2>2. ~InRing(h)
    BY <2>1 DEF IInv, OwnerInv, OneOwner, SingleOwner
  <2>3. /\ \A g \in Frames : InRing(g)' <=> InRing(g) \/ g = h
        /\ RingDistinct' /\ lost' = lost
    BY <1>1, <1>2, <2>1, <2>2, ExchangeOwner DEF IInv, OwnerInv, OneOwner, FrameOrNull
  <2>4. \A g \in Frames : /\ InCallback(g)' <=> InCallback(g)
                          /\ IsSpare(g)' <=> IsSpare(g)
                          /\ InUse(g)' <=> InUse(g)
                          /\ IsLost(g)' <=> IsLost(g)
                          /\ KeptBy(g)' = KeptBy(g)
    BY <1>1, <2>3 DEF InCallback, IsSpare, InUse, IsLost, KeptBy
  <2> HIDE DEF h
  <2>5. OneOwner'
    <3>1. \A g \in Frames : SingleOwner(g)'
      BY <2>1, <2>3, <2>4 DEF IInv, OwnerInv, OneOwner, SingleOwner
    <3>2. CallbacksDistinct'
      BY <1>1 DEF IInv, OwnerInv, OneOwner, CallbacksDistinct
    <3>3. QED BY <2>1, <2>3, <3>1, <3>2 DEF OneOwner
  <2>6. RefCountExact'
    <3>1. \A g \in Frames : ref_count'[g] = IF g = h THEN 1 ELSE ref_count[g]
      BY <1>2, <2>1 DEF TypeOK
    <3>2. SingleOwner(h)
      BY <2>1 DEF IInv, OwnerInv, OneOwner
    <3>3. QED
      BY <1>1, <2>1, <2>3, <2>4, <3>1, <3>2
      DEF IInv, OwnerInv, RefCountExact, SingleOwner
  <2>7. HeapNeverStuck' /\ NothingLost'
    BY <2>1, <2>3 DEF IInv, OwnerInv, HeapNeverStuck, NothingLost
  <2>8. QED BY <1>3, <2>5, <2>6, <2>7 DEF OwnerInv
<1>6. QED BY <1>4, <1>5

\* get_next_frame moves a frame from the ring to the callback.
LEMMA GetKeepsOwners ==
  ASSUME IInv, NEW c \in Channels, GetNextFrame(c)
  PROVE  OwnerInv'
<1> DEFINE cur == slave_cur[c]  h == ring[c][cur].f
<1>1. /\ captured[c] = NoFrame /\ h # NoFrame
      /\ captured' = [captured EXCEPT ![c] = h]
      /\ ring' = [ring EXCEPT ![c][cur] = Emptied(@)]
      /\ UNCHANGED <<heapVars, ref_count, f, newf, kept, lost>>
  BY DEF GetNextFrame, NextFrame, loopVars
<1>2. TypeOK /\ RingDistinct /\ cur \in Ring(c)
  BY DEF IInv, RingInv, TypeOK, OwnerInv, OneOwner
<1>3. /\ h \in Frames /\ InRing(h)
      /\ \A g \in Frames : InRing(g)' <=> InRing(g) /\ g # h
      /\ RingDistinct'
  BY <1>1, <1>2, EmptiedOwner
<1> HIDE DEF h
<1>4. /\ captured'[c] = h
      /\ \A d \in Channels : d # c => captured'[d] = captured[d]
  BY <1>1, <1>2 DEF TypeOK
<1>5. \A g \in Frames : InCallback(g)' <=> InCallback(g) \/ g = h
  BY <1>1, <1>3, <1>4 DEF InCallback
<1>6. SingleOwner(h)
  BY <1>3 DEF IInv, OwnerInv, OneOwner
<1>7. CallbacksDistinct'
  BY <1>3, <1>4, <1>6 DEF IInv, OwnerInv, OneOwner, CallbacksDistinct, SingleOwner, InCallback
<1>8. \A g \in Frames : /\ InHeap(g)' <=> InHeap(g)
                        /\ IsSpare(g)' <=> IsSpare(g)
                        /\ InUse(g)' <=> InUse(g)
                        /\ IsLost(g)' <=> IsLost(g)
                        /\ KeptBy(g)' = KeptBy(g)
  BY <1>1 DEF InHeap, IsSpare, InUse, IsLost, KeptBy, heapVars
<1>9. \A g \in Frames : SingleOwner(g)'
  BY <1>3, <1>5, <1>8 DEF IInv, OwnerInv, OneOwner, SingleOwner
<1>10. HeapDistinct' /\ HeapShape' /\ HeapNeverStuck' /\ NothingLost'
  BY <1>1 DEF IInv, OwnerInv, OneOwner, HeapDistinct, HeapShape, HeapNeverStuck,
              NothingLost, heapVars
<1>11. RefCountExact'
  BY <1>1, <1>3, <1>5, <1>6, <1>8 DEF IInv, OwnerInv, RefCountExact
<1>12. QED BY <1>3, <1>7, <1>9, <1>10, <1>11 DEF OwnerInv, OneOwner

\* deliver_frame moves it back, into an empty slot: none is overwritten.
LEMMA DeliverKeepsOwners ==
  ASSUME IInv, NEW c \in Channels, DeliverFrame(c)
  PROVE  OwnerInv'
<1> DEFINE cur == slave_cur[c]  h == captured[c]
<1>1. /\ h # NoFrame
      /\ captured' = [captured EXCEPT ![c] = NoFrame]
      /\ ring' = [ring EXCEPT ![c][cur] = [f |-> h, pending |-> FALSE]]
      /\ lost' = [lost EXCEPT ![c] = @ \cup ({ring[c][cur].f} \ {NoFrame})]
      /\ UNCHANGED <<heapVars, ref_count, f, newf, kept>>
  BY DEF DeliverFrame, loopVars
<1>2. TypeOK /\ RingDistinct /\ cur \in Ring(c) /\ h \in Frames /\ InCallback(h)
  BY <1>1 DEF IInv, RingInv, TypeOK, OwnerInv, OneOwner, FrameOrNull, InCallback
<1>3. ring[c][cur].f = NoFrame
  BY <1>1 DEF IInv, RingInv, BorrowedShape
<1>4. lost' = lost
  BY <1>1, <1>2, <1>3 DEF TypeOK
<1>5. SingleOwner(h)
  BY <1>2 DEF IInv, OwnerInv, OneOwner
<1>6. /\ ring'[c][cur].f = h
      /\ \A d \in Channels : \A i \in Ring(d) :
           ~(d = c /\ i = cur) => ring'[d][i] = ring[d][i]
  BY <1>1, <1>2 DEF TypeOK
<1>7. /\ captured'[c] = NoFrame
      /\ \A d \in Channels : d # c => captured'[d] = captured[d]
  BY <1>1, <1>2 DEF TypeOK
<1>8. CallbacksDistinct' /\ \A g \in Frames : InCallback(g)' <=> InCallback(g) /\ g # h
  BY <1>2, <1>7 DEF IInv, OwnerInv, OneOwner, CallbacksDistinct, InCallback
<1> HIDE DEF h, cur
<1>9. \A g \in Frames : InRing(g)' <=> InRing(g) \/ g = h
  BY <1>2, <1>3, <1>6 DEF InRing
<1>10. RingDistinct'
  <2>1. \A d \in Channels : \A i \in Ring(d) : ring[d][i].f # h
    BY <1>2, <1>5 DEF SingleOwner, InRing
  <2>2. QED BY <1>2, <1>6, <2>1 DEF RingDistinct
<1>11. \A g \in Frames : /\ InHeap(g)' <=> InHeap(g)
                         /\ IsSpare(g)' <=> IsSpare(g)
                         /\ InUse(g)' <=> InUse(g)
                         /\ IsLost(g)' <=> IsLost(g)
                         /\ KeptBy(g)' = KeptBy(g)
  BY <1>1, <1>4 DEF InHeap, IsSpare, InUse, IsLost, KeptBy, heapVars
<1>12. \A g \in Frames : SingleOwner(g)'
  BY <1>2, <1>8, <1>9, <1>11 DEF IInv, OwnerInv, OneOwner, SingleOwner
<1>13. HeapDistinct' /\ HeapShape' /\ HeapNeverStuck' /\ NothingLost'
  BY <1>1, <1>4 DEF IInv, OwnerInv, OneOwner, HeapDistinct, HeapShape,
                    HeapNeverStuck, NothingLost, heapVars
<1>14. RefCountExact'
  BY <1>1, <1>2, <1>8, <1>9, <1>11 DEF IInv, OwnerInv, RefCountExact
<1>15. QED BY <1>8, <1>10, <1>12, <1>13, <1>14 DEF OwnerInv, OneOwner

\* Only a callback that may fail abandons its frame, which is lost.
LEMMA AbandonKeepsOwners ==
  ASSUME IInv, NEW c \in Channels, AbandonFrame(c)
  PROVE  OwnerInv'
<1> DEFINE h == captured[c]
<1>1. /\ c \in CanFail /\ h # NoFrame
      /\ captured' = [captured EXCEPT ![c] = NoFrame]
      /\ lost' = [lost EXCEPT ![c] = @ \cup {h}]
      /\ UNCHANGED <<heapVars, ref_count, ring, f, newf, kept>>
  BY DEF AbandonFrame, loopVars, ringVars
<1>2. TypeOK /\ h \in Frames /\ InCallback(h)
  BY <1>1 DEF IInv, RingInv, TypeOK, FrameOrNull, InCallback
<1>3. /\ captured'[c] = NoFrame
      /\ \A d \in Channels : d # c => captured'[d] = captured[d]
  BY <1>1, <1>2 DEF TypeOK
<1>4. CallbacksDistinct' /\ \A g \in Frames : InCallback(g)' <=> InCallback(g) /\ g # h
  BY <1>2, <1>3 DEF IInv, OwnerInv, OneOwner, CallbacksDistinct, InCallback
<1>5. /\ lost'[c] = lost[c] \cup {h}
      /\ \A d \in Channels : d # c => lost'[d] = lost[d]
  BY <1>1, <1>2 DEF TypeOK
<1> HIDE DEF h
<1>6. \A g \in Frames : IsLost(g)' <=> IsLost(g) \/ g = h
  BY <1>5 DEF IsLost
<1>7. \A g \in Frames : /\ InHeap(g)' <=> InHeap(g)
                        /\ InRing(g)' <=> InRing(g)
                        /\ IsSpare(g)' <=> IsSpare(g)
                        /\ InUse(g)' <=> InUse(g)
                        /\ KeptBy(g)' = KeptBy(g)
  BY <1>1 DEF InHeap, InRing, IsSpare, InUse, KeptBy, heapVars
<1>8. \A g \in Frames : SingleOwner(g)'
  BY <1>2, <1>4, <1>6, <1>7 DEF IInv, OwnerInv, OneOwner, SingleOwner
<1>9. HeapDistinct' /\ RingDistinct' /\ HeapShape' /\ HeapNeverStuck'
  BY <1>1 DEF IInv, OwnerInv, OneOwner, HeapDistinct, RingDistinct, HeapShape,
              HeapNeverStuck, heapVars
<1>10. NothingLost'
  BY <1>1, <1>5 DEF IInv, OwnerInv, NothingLost
<1>11. RefCountExact'
  BY <1>1, <1>4, <1>7 DEF IInv, OwnerInv, RefCountExact
<1>12. QED BY <1>4, <1>8, <1>9, <1>10, <1>11 DEF OwnerInv, OneOwner

\* exchanger_read moves a frame from the ring to the hands of the loop, which
\* held none.
LEMMA TakeKeepsOwners ==
  ASSUME IInv, TakeDelivered
  PROVE  OwnerInv'
<1> DEFINE rd == master_read[ex]  h == ring[ex][rd].f
<1>1. /\ pc = "take" /\ f' = h
      /\ ring' = [ring EXCEPT ![ex][rd] = Emptied(@)]
      /\ UNCHANGED <<heapVars, ref_count, captured, newf, kept, lost>>
  BY DEF TakeDelivered
<1>2. TypeOK /\ RingDistinct /\ ex \in Channels /\ rd \in Ring(ex) /\ RingInv
  BY DEF IInv, RingInv, TypeOK, OwnerInv, OneOwner
<1>3. h # NoFrame /\ f = NoFrame
  BY <1>1, <1>2, TakeFindsUnread DEF IsUnread, RingInv, LoopShape
<1>4. /\ h \in Frames /\ InRing(h)
      /\ \A g \in Frames : InRing(g)' <=> InRing(g) /\ g # h
      /\ RingDistinct'
  BY <1>1, <1>2, <1>3, EmptiedOwner
<1>5. SingleOwner(h)
  BY <1>4 DEF IInv, OwnerInv, OneOwner
<1> HIDE DEF h
<1>6. \A g \in Frames : /\ KeptBy(g)' = KeptBy(g)
                        /\ InUse(g)' <=> InUse(g) \/ g = h
  BY <1>1, <1>3 DEF KeptBy, InUse
<1>7. \A g \in Frames : /\ InHeap(g)' <=> InHeap(g)
                        /\ InCallback(g)' <=> InCallback(g)
                        /\ IsSpare(g)' <=> IsSpare(g)
                        /\ IsLost(g)' <=> IsLost(g)
  BY <1>1 DEF InHeap, InCallback, IsSpare, IsLost, heapVars
<1>8. \A g \in Frames : SingleOwner(g)'
  BY <1>4, <1>6, <1>7 DEF IInv, OwnerInv, OneOwner, SingleOwner
<1>9. HeapDistinct' /\ CallbacksDistinct' /\ HeapShape' /\ HeapNeverStuck' /\ NothingLost'
  BY <1>1 DEF IInv, OwnerInv, OneOwner, HeapDistinct, CallbacksDistinct, HeapShape,
              HeapNeverStuck, NothingLost, heapVars
<1>10. RefCountExact'
  <2>1. ref_count[h] = 1 /\ KeptBy(h) = {}
    BY <1>4, <1>5 DEF IInv, OwnerInv, RefCountExact, SingleOwner, InUse
  <2>2. ASSUME NEW g \in Frames, InUse(g)'
        PROVE  ref_count'[g] = Cardinality(KeptBy(g)') + (IF f' = g THEN 1 ELSE 0)
    <3>1. CASE g = h
      <4>1. f' = g /\ ref_count'[g] = 1 /\ KeptBy(g)' = {}
        BY <1>1, <1>6, <2>1, <3>1
      <4>2. QED BY <4>1, FS_EmptySet
    <3>2. CASE g # h
      BY <1>1, <1>3, <1>6, <2>2, <3>2 DEF IInv, OwnerInv, RefCountExact
    <3>3. QED BY <3>1, <3>2
  <2>3. QED
    BY <1>1, <1>4, <1>7, <2>2 DEF IInv, OwnerInv, RefCountExact
<1>11. QED BY <1>4, <1>8, <1>9, <1>10 DEF OwnerInv, OneOwner

\* get_back_frame's new_frame moves a frame from the heap to the loop's spare.
LEMMA NewFrameKeepsOwners ==
  ASSUME IInv, NewFrame
  PROVE  OwnerInv'
<1>1. /\ pc = "new" /\ TakeFromHeap /\ newf' = Available
      /\ UNCHANGED <<ring, captured, f, kept, lost>>
  BY DEF NewFrame, ringVars
<1>2. TypeOK /\ newf = NoFrame
  BY <1>1 DEF IInv, RingInv, LoopShape
<1>3. CASE Available = NoFrame
  BY <1>1, <1>2, <1>3, FramesUntouched DEF TakeFromHeap, IInv
<1>4. CASE Available # NoFrame
  <2> DEFINE h == Available
  <2>1. /\ h \in Frames /\ InHeap(h)
        /\ \A g \in Frames : InHeap(g)' <=> InHeap(g) /\ g # h
        /\ HeapDistinct'
        /\ ref_count' = [ref_count EXCEPT ![h] = 1]
        /\ heapStuck' = heapStuck
    BY <1>1, <1>2, <1>4, TakeFromHeapOwner DEF IInv, OwnerInv, OneOwner
  <2>2. HeapShape'
    BY <1>1, <1>2, TakeFromHeapShape DEF IInv, OwnerInv
  <2>3. \A g \in Frames : /\ InRing(g)' <=> InRing(g)
                          /\ InCallback(g)' <=> InCallback(g)
                          /\ InUse(g)' <=> InUse(g)
                          /\ IsLost(g)' <=> IsLost(g)
                          /\ KeptBy(g)' = KeptBy(g)
    BY <1>1 DEF InRing, InCallback, InUse, IsLost, KeptBy
  <2> HIDE DEF h
  <2>4. \A g \in Frames : ~IsSpare(g) /\ (IsSpare(g)' <=> g = h)
    BY <1>1, <1>2 DEF IsSpare, h
  <2>5. SingleOwner(h)
    BY <2>1 DEF IInv, OwnerInv, OneOwner
  <2>6. \A g \in Frames : SingleOwner(g)'
    BY <2>1, <2>3, <2>4 DEF IInv, OwnerInv, OneOwner, SingleOwner
  <2>7. RingDistinct' /\ CallbacksDistinct' /\ HeapNeverStuck' /\ NothingLost'
    BY <1>1, <2>1 DEF IInv, OwnerInv, OneOwner, RingDistinct, CallbacksDistinct,
                      HeapNeverStuck, NothingLost
  <2>8. RefCountExact'
    <3>1. \A g \in Frames : ref_count'[g] = IF g = h THEN 1 ELSE ref_count[g]
      BY <1>2, <2>1 DEF TypeOK
    <3>2. QED
      BY <1>1, <2>1, <2>3, <2>4, <2>5, <3>1
      DEF IInv, OwnerInv, RefCountExact, SingleOwner
  <2>9. QED BY <2>1, <2>2, <2>6, <2>7, <2>8 DEF OwnerInv, OneOwner
<1>5. QED BY <1>3, <1>4

\* get_back_frame's exchange_frame moves the spare to the ring: the slot is free.
LEMMA ExchangeKeepsOwners ==
  ASSUME IInv, Exchange
  PROVE  OwnerInv'
<1> DEFINE h == newf
<1>1. /\ pc = "exchange" /\ ExchangeFrame(ex, h) /\ newf' = NoFrame
      /\ UNCHANGED <<heapVars, ref_count, captured, f, kept>>
  BY DEF Exchange
<1>2. TypeOK /\ ex \in Channels /\ h \in Frames /\ IsVacant(ex, master_write[ex])
  BY <1>1 DEF IInv, RingInv, TypeOK, LoopShape, FrameOrNull
<1>3. SingleOwner(h) /\ IsSpare(h)
  BY <1>2 DEF IInv, OwnerInv, OneOwner, IsSpare
<1>4. /\ \A g \in Frames : InRing(g)' <=> InRing(g) \/ g = h
      /\ RingDistinct' /\ lost' = lost
  <2>1. ~InRing(h) /\ RingDistinct /\ h \in FrameOrNull
    BY <1>2, <1>3 DEF IInv, OwnerInv, OneOwner, SingleOwner, FrameOrNull
  <2>2. QED BY <1>1, <1>2, <2>1, ExchangeOwner
<1>5. \A g \in Frames : ~IsSpare(g)' /\ (IsSpare(g) <=> g = h)
  BY <1>1 DEF IsSpare, Frames, FrameOrNull
<1> HIDE DEF h
<1>6. \A g \in Frames : /\ InHeap(g)' <=> InHeap(g)
                        /\ InCallback(g)' <=> InCallback(g)
                        /\ InUse(g)' <=> InUse(g)
                        /\ IsLost(g)' <=> IsLost(g)
                        /\ KeptBy(g)' = KeptBy(g)
  BY <1>1, <1>4 DEF InHeap, InCallback, InUse, IsLost, KeptBy, heapVars
<1>7. \A g \in Frames : SingleOwner(g)'
  BY <1>4, <1>5, <1>6 DEF IInv, OwnerInv, OneOwner, SingleOwner
<1>8. HeapDistinct' /\ CallbacksDistinct' /\ HeapShape' /\ HeapNeverStuck' /\ NothingLost'
  BY <1>1, <1>4 DEF IInv, OwnerInv, OneOwner, HeapDistinct, CallbacksDistinct, HeapShape,
              HeapNeverStuck, NothingLost, heapVars
<1>9. RefCountExact'
  BY <1>1, <1>4, <1>5, <1>6 DEF IInv, OwnerInv, RefCountExact
<1>10. QED BY <1>4, <1>7, <1>8, <1>9 DEF OwnerInv, OneOwner

\* The locations that keep a frame are finitely many.
LEMMA KeptByFinite ==
  ASSUME NEW g
  PROVE  IsFiniteSet(KeptBy(g)) /\ Cardinality(KeptBy(g)) \in Nat
<1>1. KeptBy(g) \subseteq Keepers BY DEF KeptBy
<1>2. QED BY <1>1, FS_Subset, FS_CardinalityType

\* A step in which frames only change users, one of them perhaps for the heap,
\* keeps the owners if it keeps the counts.
LEMMA UsersMove ==
  ASSUME IInv, UNCHANGED <<ring, captured, newf, lost>>,
         NEW h \in Frames, InUse(h), HeapDistinct', HeapShape', heapStuck' = heapStuck,
         \/ /\ \A g \in Frames : InUse(g)' <=> InUse(g)
            /\ \A g \in Frames : InHeap(g)' <=> InHeap(g)
         \/ /\ \A g \in Frames : InUse(g)' <=> InUse(g) /\ g # h
            /\ \A g \in Frames : InHeap(g)' <=> InHeap(g) \/ g = h,
         \A g \in Frames : ~InUse(g) => ref_count'[g] = ref_count[g],
         \A g \in Frames : InHeap(g)' /\ ~InHeap(g) => ref_count'[g] = 0,
         \A g \in Frames : InUse(g)' =>
           ref_count'[g] = Cardinality(KeptBy(g)') + (IF f' = g THEN 1 ELSE 0)
  PROVE  OwnerInv'
<1>1. \A g \in Frames : /\ InRing(g)' <=> InRing(g)
                        /\ InCallback(g)' <=> InCallback(g)
                        /\ IsSpare(g)' <=> IsSpare(g)
                        /\ IsLost(g)' <=> IsLost(g)
  BY DEF InRing, InCallback, IsSpare, IsLost
<1>2. \A g \in Frames : SingleOwner(g)
  BY DEF IInv, OwnerInv, OneOwner
<1>3. \A g \in Frames : SingleOwner(g)'
  BY <1>1, <1>2 DEF SingleOwner
<1>4. RingDistinct' /\ CallbacksDistinct' /\ HeapNeverStuck' /\ NothingLost'
  BY DEF IInv, OwnerInv, OneOwner, RingDistinct, CallbacksDistinct,
         HeapNeverStuck, NothingLost
<1>5. RefCountExact'
  BY <1>1, <1>2 DEF IInv, OwnerInv, RefCountExact, SingleOwner
<1>6. QED BY <1>3, <1>4, <1>5 DEF OwnerInv, OneOwner

\* The last unref_frame of get_back_frame frees the frame unless a location
\* keeps it.
LEMMA ReleaseKeepsOwners ==
  ASSUME IInv, Release
  PROVE  OwnerInv'
<1> DEFINE h == f
<1>1. /\ pc = "deliver" /\ UnrefFrame(h, ref_count) /\ f' = NoFrame
      /\ UNCHANGED <<ring, captured, newf, kept, lost>>
  BY DEF Release, ringVars
<1>2. TypeOK /\ h \in Frames /\ InUse(h) /\ HeapShape /\ HeapDistinct
  BY <1>1 DEF IInv, RingInv, TypeOK, LoopShape, FrameOrNull, InUse, OwnerInv, OneOwner
<1>3. ref_count[h] = Cardinality(KeptBy(h)) + 1
  BY <1>2 DEF IInv, OwnerInv, RefCountExact
<1>4. \A g \in Frames : InUse(g) =>
        ref_count[g] = Cardinality(KeptBy(g)) + (IF h = g THEN 1 ELSE 0)
  BY DEF IInv, OwnerInv, RefCountExact
<1>5. SingleOwner(h)
  BY <1>2 DEF IInv, OwnerInv, OneOwner
<1>6. \A g \in Frames : /\ KeptBy(g)' = KeptBy(g)
                        /\ InUse(g) <=> h = g \/ KeptBy(g) # {}
                        /\ InUse(g)' <=> KeptBy(g) # {}
  BY <1>1, NoFrameAssumption DEF KeptBy, InUse
<1>7. \A g \in Frames : ref_count'[g] = IF g = h THEN Cardinality(KeptBy(h)) ELSE ref_count[g]
  <2>1. ref_count' = [ref_count EXCEPT ![h] = @ - 1]
    BY <1>1 DEF UnrefFrame
  <2>2. QED BY <1>2, <1>3, <2>1, KeptByFinite DEF TypeOK
<1> HIDE DEF h
<1>8. \A g \in Frames : InUse(g)' =>
        ref_count'[g] = Cardinality(KeptBy(g)') + (IF f' = g THEN 1 ELSE 0)
  <2> SUFFICES ASSUME NEW g \in Frames, InUse(g)'
               PROVE  ref_count'[g] = Cardinality(KeptBy(g)') + (IF f' = g THEN 1 ELSE 0)
    OBVIOUS
  <2>1. f' # g /\ KeptBy(g)' = KeptBy(g) /\ Cardinality(KeptBy(g)) \in Nat
    BY <1>1, <1>6, KeptByFinite, NoFrameAssumption
  <2>2. ref_count'[g] = Cardinality(KeptBy(g))
    <3>1. CASE g = h BY <1>7, <3>1
    <3>2. CASE g # h
      <4>1. InUse(g) BY <1>6
      <4>2. ref_count[g] = Cardinality(KeptBy(g)) + 0
        BY <1>4, <3>2, <4>1
      <4>3. QED BY <1>7, <2>1, <3>2, <4>2
    <3>3. QED BY <3>1, <3>2
  <2>3. QED BY <2>1, <2>2
<1>9. CASE KeptBy(h) # {}
  <2>1. Cardinality(KeptBy(h)) > 0
    BY <1>9, KeptByFinite, FS_EmptySet
  <2>2. UNCHANGED heapVars
    BY <1>1, <1>3, <2>1, KeptByFinite DEF UnrefFrame, h
  <2>3. HeapDistinct' /\ HeapShape' /\ heapStuck' = heapStuck
        /\ \A g \in Frames : InHeap(g)' <=> InHeap(g)
    BY <1>2, <2>2 DEF HeapDistinct, HeapShape, InHeap, heapVars
  <2>4. \A g \in Frames : InUse(g)' <=> InUse(g)
    BY <1>6, <1>9
  <2>5. QED BY <1>1, <1>2, <1>7, <1>8, <2>3, <2>4, UsersMove
<1>10. CASE KeptBy(h) = {}
  <2>1. Cardinality(KeptBy(h)) = 0
    BY <1>10, FS_EmptySet
  <2>2. PutBack(h) /\ ~InHeap(h)
    BY <1>1, <1>2, <1>3, <1>5, <2>1 DEF UnrefFrame, SingleOwner, h
  <2>3. /\ HeapDistinct' /\ HeapShape' /\ heapStuck' = heapStuck
        /\ \A g \in Frames : InHeap(g)' <=> InHeap(g) \/ g = h
    BY <1>2, <2>2, PutBackOwner
  <2>4. \A g \in Frames : InUse(g)' <=> InUse(g) /\ g # h
    BY <1>6, <1>10
  <2>5. QED BY <1>1, <1>2, <1>7, <1>8, <2>1, <2>3, <2>4, UsersMove
<1>11. QED BY <1>9, <1>10

\* jpeg_next_frame drops the reference of the frame it kept, which is freed if
\* nothing else uses it, and keeps the new one.
LEMMA KeepKeepsOwners ==
  ASSUME IInv, NEW k \in Keepers, Keep(k)
  PROVE  OwnerInv'
<1> PICK new : new = f OBVIOUS
<1> PICK old : old = kept[k] OBVIOUS
<1> DEFINE referenced == [ref_count EXCEPT ![new] = @ + 1]
<1>1. /\ pc = "deliver" /\ kept' = [kept EXCEPT ![k] = new] /\ f' = f
      /\ IF old = NoFrame THEN ref_count' = referenced /\ UNCHANGED heapVars
                          ELSE UnrefFrame(old, referenced)
      /\ UNCHANGED <<ring, captured, newf, lost>>
  BY DEF Keep, ringVars
<1>2. TypeOK /\ new \in Frames /\ InUse(new) /\ HeapShape /\ HeapDistinct
  BY <1>1 DEF IInv, RingInv, TypeOK, LoopShape, FrameOrNull, InUse, OwnerInv, OneOwner
<1>3. /\ kept'[k] = new
      /\ \A j \in Keepers : j # k => kept'[j] = kept[j]
  BY <1>1, <1>2 DEF TypeOK
<1>4. \A g \in Frames : InUse(g) =>
        ref_count[g] = Cardinality(KeptBy(g)) + (IF new = g THEN 1 ELSE 0)
  BY DEF IInv, OwnerInv, RefCountExact
<1>5. /\ referenced[new] = ref_count[new] + 1
      /\ \A g \in Frames : g # new => referenced[g] = ref_count[g]
      /\ referenced \in [Frames -> Int] /\ ref_count \in [Frames -> Int]
  BY <1>2 DEF TypeOK
<1> HIDE DEF referenced
<1>6. CASE old = new
  <2>1. ref_count' = ref_count
    <3>1. ref_count' = [referenced EXCEPT ![new] = @ - 1]
      BY <1>1, <1>2, <1>6, NoFrameAssumption DEF UnrefFrame
    <3>2. ASSUME NEW g \in Frames PROVE ref_count'[g] = ref_count[g]
      BY <1>2, <1>5, <3>1
    <3>3. ref_count' \in [Frames -> Int]
      BY <1>2, <1>5, <3>1
    <3>4. QED BY <1>5, <3>2, <3>3
  <2>2. kept' = kept
    BY <1>1, <1>2, <1>6 DEF TypeOK
  <2>3. UNCHANGED heapVars
    <3>1. ref_count[new] = Cardinality(KeptBy(new)) + 1
      BY <1>2, <1>4
    <3>2. k \in KeptBy(new) BY <1>6 DEF KeptBy
    <3>3. Cardinality(KeptBy(new)) > 0 BY <3>2, KeptByFinite, FS_EmptySet
    <3>4. referenced[new] - 1 > 0
      BY <1>5, <3>1, <3>3, KeptByFinite
    <3>5. QED BY <1>1, <1>2, <1>6, <3>4, NoFrameAssumption DEF UnrefFrame
  <2>4. QED BY <1>1, <2>1, <2>2, <2>3, FramesUntouched DEF IInv
<1>7. CASE old # new
  <2>1. /\ KeptBy(new)' = KeptBy(new) \cup {k} /\ k \notin KeptBy(new)
        /\ \A g \in Frames : g # new /\ g # old => KeptBy(g)' = KeptBy(g)
        /\ \A g \in Frames : g = old => KeptBy(g)' = KeptBy(g) \ {k} /\ k \in KeptBy(g)
    <3>1. KeptBy(new)' = KeptBy(new) \cup {k} /\ k \notin KeptBy(new)
      BY <1>3, <1>7 DEF KeptBy
    <3>2. ASSUME NEW g \in Frames, g # new, g # old PROVE KeptBy(g)' = KeptBy(g)
      BY <1>3, <3>2 DEF KeptBy
    <3>3. KeptBy(old)' = KeptBy(old) \ {k} /\ k \in KeptBy(old)
      BY <1>3, <1>7 DEF KeptBy
    <3>4. QED BY <3>1, <3>2, <3>3
  <2>2. Cardinality(KeptBy(new)') = Cardinality(KeptBy(new)) + 1
    BY <2>1, KeptByFinite, FS_AddElement
  <2>3. \A g \in Frames : /\ InUse(g) <=> new = g \/ KeptBy(g) # {}
                          /\ InUse(g)' <=> new = g \/ KeptBy(g)' # {}
    BY <1>1 DEF InUse
  <2>4. CASE old = NoFrame
    <3>1. ref_count' = referenced /\ UNCHANGED heapVars
      BY <1>1, <2>4
    <3>2. HeapDistinct' /\ HeapShape' /\ heapStuck' = heapStuck
          /\ \A g \in Frames : InHeap(g)' <=> InHeap(g)
      BY <1>2, <3>1 DEF HeapDistinct, HeapShape, InHeap, heapVars
    <3>3. \A g \in Frames : InUse(g)' <=> InUse(g)
      BY <2>1, <2>3, <2>4, NoFrameAssumption
    <3>4. \A g \in Frames : InUse(g)' =>
            ref_count'[g] = Cardinality(KeptBy(g)') + (IF f' = g THEN 1 ELSE 0)
      <4> SUFFICES ASSUME NEW g \in Frames, InUse(g)'
                   PROVE  ref_count'[g] = Cardinality(KeptBy(g)') + (IF f' = g THEN 1 ELSE 0)
        OBVIOUS
      <4>1. CASE g = new
        BY <1>1, <1>2, <1>4, <1>5, <2>2, <3>1, <4>1, KeptByFinite
      <4>2. CASE g # new
        BY <1>1, <1>4, <1>5, <2>1, <2>4, <3>1, <3>3, <4>2, NoFrameAssumption
      <4>3. QED BY <4>1, <4>2
    <3>5. \A g \in Frames : ~InUse(g) => ref_count'[g] = ref_count[g]
      BY <1>2, <1>5, <3>1
    <3>6. QED BY <1>1, <1>2, <3>2, <3>3, <3>4, <3>5, UsersMove
  <2>5. CASE old # NoFrame
    <3>1. old \in Frames /\ UnrefFrame(old, referenced)
      BY <1>1, <1>2, <2>5 DEF TypeOK, FrameOrNull
    <3>2. InUse(old) /\ ref_count[old] = Cardinality(KeptBy(old))
      <4>1. InUse(old) BY <2>1, <2>3, <3>1
      <4>2. ref_count[old] = Cardinality(KeptBy(old)) + 0
        BY <1>4, <1>7, <3>1, <4>1
      <4>3. QED BY <4>1, <4>2, KeptByFinite
    <3>3. Cardinality(KeptBy(old)') = Cardinality(KeptBy(old)) - 1
      BY <2>1, <3>1, KeptByFinite, FS_RemoveElement
    <3>4. \A g \in Frames : ref_count'[g] = IF g = old THEN ref_count[g] - 1
                                            ELSE IF g = new THEN ref_count[g] + 1
                                            ELSE ref_count[g]
      <4>1. ref_count' = [referenced EXCEPT ![old] = @ - 1]
        BY <3>1 DEF UnrefFrame
      <4>2. QED BY <1>2, <1>5, <1>7, <3>1, <4>1
    <3>5. \A g \in Frames : InUse(g)' =>
            ref_count'[g] = Cardinality(KeptBy(g)') + (IF f' = g THEN 1 ELSE 0)
      <4> SUFFICES ASSUME NEW g \in Frames, InUse(g)'
                   PROVE  ref_count'[g] = Cardinality(KeptBy(g)') + (IF f' = g THEN 1 ELSE 0)
        OBVIOUS
      <4>1. CASE g = new
        BY <1>1, <1>2, <1>4, <1>5, <1>7, <2>2, <3>4, <4>1, KeptByFinite
      <4>2. CASE g = old
        <5>1. ref_count'[g] = Cardinality(KeptBy(old)) - 1 /\ f' # g
          BY <1>1, <1>7, <3>1, <3>2, <3>4, <4>2
        <5>2. QED BY <3>3, <4>2, <5>1, KeptByFinite
      <4>3. CASE g # new /\ g # old
        BY <1>1, <1>4, <2>1, <2>3, <3>4, <4>3
      <4>4. QED BY <4>1, <4>2, <4>3
    <3>6. \A g \in Frames : ~InUse(g) => ref_count'[g] = ref_count[g]
      BY <1>2, <3>2, <3>4
    <3>7. referenced[old] = Cardinality(KeptBy(old))
      BY <1>5, <1>7, <3>1, <3>2
    <3>8. CASE Cardinality(KeptBy(old)) - 1 > 0
      <4>1. UNCHANGED heapVars
        BY <3>1, <3>7, <3>8 DEF UnrefFrame
      <4>2. HeapDistinct' /\ HeapShape' /\ heapStuck' = heapStuck
            /\ \A g \in Frames : InHeap(g)' <=> InHeap(g)
        BY <1>2, <4>1 DEF HeapDistinct, HeapShape, InHeap, heapVars
      <4>3. KeptBy(old)' # {}
        BY <3>3, <3>8, KeptByFinite, FS_EmptySet, SMTT(30)
      <4>4. \A g \in Frames : InUse(g)' <=> InUse(g)
        BY <2>1, <2>3, <3>1, <3>2, <4>3
      <4>5. QED BY <1>1, <1>2, <3>5, <3>6, <4>2, <4>4, UsersMove
    <3>9. CASE ~(Cardinality(KeptBy(old)) - 1 > 0)
      <4>1. PutBack(old)
        BY <3>1, <3>7, <3>9 DEF UnrefFrame
      <4>2. ~InHeap(old)
        BY <3>1, <3>2 DEF IInv, OwnerInv, OneOwner, SingleOwner
      <4>3. /\ HeapDistinct' /\ HeapShape' /\ heapStuck' = heapStuck
            /\ \A g \in Frames : InHeap(g)' <=> InHeap(g) \/ g = old
        BY <1>2, <3>1, <4>1, <4>2, PutBackOwner
      <4>4. Cardinality(KeptBy(old)) = 1
        <5>1. KeptBy(old) # {} BY <2>1, <3>1
        <5>2. Cardinality(KeptBy(old)) # 0 BY <5>1, KeptByFinite, FS_EmptySet
        <5>3. QED BY <3>9, <5>2, KeptByFinite
      <4>5. KeptBy(old)' = {} /\ ref_count'[old] = 0
        <5>1. IsFiniteSet(KeptBy(old)')
          BY <2>1, <3>1, KeptByFinite, FS_Subset
        <5>2. Cardinality(KeptBy(old)') = 0 BY <3>3, <4>4
        <5>3. QED BY <3>1, <3>2, <3>4, <4>4, <5>1, <5>2, FS_EmptySet
      <4>6. \A g \in Frames : InUse(g)' <=> InUse(g) /\ g # old
        BY <1>7, <2>1, <2>3, <3>1, <4>5
      <4>7. QED BY <1>1, <3>1, <3>2, <3>5, <3>6, <4>3, <4>5, <4>6, UsersMove
    <3>10. QED BY <3>8, <3>9
  <2>6. QED BY <2>4, <2>5
<1>8. QED BY <1>6, <1>7

-----------------------------------------------------------------------------
(* The invariant holds at start-up and in every step                        *)

\* At start-up the heap is full, the rings are empty and nobody holds a frame.
LEMMA InitIInv == Init => IInv
<1> SUFFICES ASSUME Init PROVE IInv
  OBVIOUS
<1>1. TypeOK
  BY InitType
<1>2. \A c \in Channels : \A i \in Ring(c) :
        ~IsPending(c, i) /\ ~IsUnread(c, i) /\ IsVacant(c, i) /\ i \in Nat
  BY DEF Init, IsPending, IsUnread, IsVacant, Ring
<1>3. \A c \in Channels : /\ slave_cur[c] = 0 /\ master_read[c] = 0 /\ master_write[c] = 0
                          /\ pipe[c] = 0 /\ filled[c] = 0 /\ captured[c] = NoFrame
                          /\ lost[c] = {} /\ Slots[c] \in Nat \ {0}
  BY DEF Init
<1>4. RingShape
  BY <1>2, <1>3 DEF RingShape, RingShapeOf
<1>5. BootShape
  BY <1>2, <1>3 DEF Init, BootShape
<1>6. LoopShape /\ BorrowedShape
  BY <1>3 DEF Init, LoopShape, BorrowedShape
<1>7. PipeMatchesRing
  <2>1. \A c \in Channels : Unread(c) = {}
    BY <1>2 DEF Unread, IsVacant
  <2>2. pc # "take" /\ \A c \in Channels : Cardinality(Unread(c)) = 0
    BY <2>1, FS_EmptySet DEF Init
  <2>3. QED BY <1>3, <2>2 DEF PipeMatchesRing
<1>8. \A i \in HeapSlots : heap[i] = i /\ heap[i] # NoFrame
  BY DEF Init, Frames
<1>9. HeapShape /\ HeapDistinct /\ HeapNeverStuck
  BY <1>8 DEF Init, HeapShape, HeapDistinct, HeapNeverStuck
<1>10. RingDistinct /\ CallbacksDistinct /\ NothingLost
  BY <1>2, <1>3 DEF RingDistinct, CallbacksDistinct, NothingLost, IsVacant
<1>11. \A g \in Frames : /\ InHeap(g) /\ ref_count[g] = 0
                         /\ ~InRing(g) /\ ~InCallback(g) /\ ~IsSpare(g)
                         /\ ~InUse(g) /\ ~IsLost(g)
  <2> TAKE g \in Frames
  <2>1. InHeap(g) /\ ref_count[g] = 0
    BY <1>8 DEF Init, InHeap, Frames
  <2>2. ~InRing(g) BY <1>2 DEF InRing, IsVacant
  <2>3. ~InCallback(g) /\ ~IsLost(g)
    BY <1>3 DEF InCallback, IsLost
  <2>4. ~IsSpare(g) /\ ~InUse(g)
    BY DEF Init, IsSpare, InUse, KeptBy
  <2>5. QED BY <2>1, <2>2, <2>3, <2>4
<1>12. OneOwner /\ RefCountExact
  BY <1>9, <1>10, <1>11 DEF OneOwner, SingleOwner, RefCountExact
<1>13. QED
  BY <1>1, <1>4, <1>5, <1>6, <1>7, <1>9, <1>10, <1>12 DEF IInv, RingInv, OwnerInv


\* Every step keeps the owner invariant.
LEMMA OwnerStep == IInv /\ [Next]_vars => OwnerInv'
<1> SUFFICES ASSUME IInv, [Next]_vars PROVE OwnerInv'
  OBVIOUS
<1>1. OwnerInv
  BY DEF IInv
<1>2. CASE StartLoop
  BY <1>1, <1>2, FramesUntouched DEF StartLoop, ringVars
<1>3. CASE Select
  BY <1>1, <1>3, FramesUntouched DEF Select, ringVars
<1>4. CASE Dispatch
  BY <1>1, <1>4, FramesUntouched DEF Dispatch, ringVars
<1>5. CASE ReadByte
  BY <1>1, <1>5, FramesUntouched DEF ReadByte
<1>6. CASE UNCHANGED vars
  BY <1>1, <1>6, FramesUntouched DEF vars, ringVars, loopVars
<1>7. QED
  BY <1>2, <1>3, <1>4, <1>5, <1>6, FillKeepsOwners, GetKeepsOwners,
     DeliverKeepsOwners, AbandonKeepsOwners, TakeKeepsOwners, NewFrameKeepsOwners,
     ExchangeKeepsOwners, KeepKeepsOwners, ReleaseKeepsOwners
  DEF Next, Boot, Loop, Capture

-----------------------------------------------------------------------------
(* The invariants of every behaviour                                        *)

\* The inductive invariant: where the runs of pending, unread and vacant slots
\* begin and end, who owns every frame and what its count says.
THEOREM InductiveInvariant == Spec => []IInv
<1>1. IInv /\ [Next]_vars => IInv'
  BY RingStep, OwnerStep DEF IInv
<1>2. QED BY <1>1, InitIInv, PTL DEF Spec

\* Whatever the capture threads, the event loop and the HTTP locations do, no
\* frame is at two places: new_frame never hands out a frame in use.
THEOREM FramesHaveOneOwner == Spec => []OneOwner
<1>1. IInv => OneOwner BY DEF IInv, OwnerInv
<1>2. QED BY <1>1, InductiveInvariant, PTL

\* ref_frame and unref_frame keep exact count of the users of a frame.
THEOREM CountsAreExact == Spec => []RefCountExact
<1>1. IInv => RefCountExact BY DEF IInv, OwnerInv
<1>2. QED BY <1>1, InductiveInvariant, PTL

\* unref_frame never returns with frame_heap_mutex locked.
THEOREM HeapMutexIsReleased == Spec => []HeapNeverStuck
<1>1. IInv => HeapNeverStuck BY DEF IInv, OwnerInv
<1>2. QED BY <1>1, InductiveInvariant, PTL

\* exchange_frame never fails and deliver_frame never overwrites a frame.
THEOREM NoFrameIsDropped == Spec => []NothingLost
<1>1. IInv => NothingLost BY DEF IInv, OwnerInv
<1>2. QED BY <1>1, InductiveInvariant, PTL

\* The pipe holds one byte per delivered frame the loop has not taken.
THEOREM PipeCountsDeliveries == Spec => []PipeMatchesRing
<1>1. IInv => PipeMatchesRing BY DEF IInv, RingInv
<1>2. QED BY <1>1, InductiveInvariant, PTL

\* exchanger_read never passes a NULL frame on.
THEOREM EveryByteHasItsFrame == Spec => []ReadFindsFrame
<1>1. IInv => ReadFindsFrame
  BY TakeFindsUnread DEF IInv, ReadFindsFrame
<1>2. QED BY <1>1, InductiveInvariant, PTL

\* The master never writes to the slot of the frame a callback is filling.
THEOREM BorrowedSlotIsReserved == Spec => []BorrowedSlotReserved
<1>1. IInv => BorrowedSlotReserved
  <2> SUFFICES ASSUME IInv, NEW c \in Channels, captured[c] # NoFrame
               PROVE  /\ ring[c][slave_cur[c]] = [f |-> NoFrame, pending |-> TRUE]
                      /\ pc = "exchange" /\ ex = c => master_write[c] # slave_cur[c]
    BY DEF BorrowedSlotReserved
  <2>1. /\ ring[c][slave_cur[c]] \in [f : FrameOrNull, pending : BOOLEAN]
        /\ ring[c][slave_cur[c]].pending /\ ring[c][slave_cur[c]].f = NoFrame
    BY DEF IInv, RingInv, TypeOK, BorrowedShape, IsPending
  <2>2. ring[c][slave_cur[c]] = [f |-> NoFrame, pending |-> TRUE]
    BY <2>1
  <2>3. pc = "exchange" /\ ex = c => ~ring[c][master_write[c]].pending
    BY DEF IInv, RingInv, LoopShape, IsVacant
  <2>4. QED BY <2>1, <2>2, <2>3
<1>2. QED BY <1>1, InductiveInvariant, PTL

-----------------------------------------------------------------------------
(* The heap never runs dry                                                  *)

\* What a place outside the heap holds: a slot its frame or, being the slave's,
\* the one its callback has or has given up.
HeldAt(p) ==
  LET c == p[1]  i == p[2] IN
  IF ring[c][i].f # NoFrame THEN ring[c][i].f
  ELSE IF captured[c] # NoFrame THEN captured[c]
  ELSE CHOOSE g \in lost[c] : TRUE

\* A set whose members are values of a function on a finite set is no larger.
LEMMA ImageBound ==
  ASSUME NEW S, NEW T, NEW h, IsFiniteSet(S),
         \A t \in T : \E x \in S : h[x] = t
  PROVE  IsFiniteSet(T) /\ Cardinality(T) <= Cardinality(S)
<1> DEFINE U == {h[x] : x \in S}
           g == [x \in S |-> h[x]]
<1>1. g \in Surjection(S, U)
  BY DEF Surjection
<1>2. T \in SUBSET U
  OBVIOUS
<1> HIDE DEF g, U
<1>3. IsFiniteSet(U) /\ Cardinality(U) <= Cardinality(S)
  BY <1>1, FS_Surjection
<1>4. IsFiniteSet(T) /\ Cardinality(T) <= Cardinality(U)
  BY <1>2, <1>3, FS_Subset
<1>5. Cardinality(S) \in Nat /\ Cardinality(T) \in Nat /\ Cardinality(U) \in Nat
  BY <1>3, <1>4, FS_CardinalityType
<1>6. QED BY <1>3, <1>4, <1>5

\* The slots of all rings are finitely many.
LEMMA AllSlotsFinite ==
  ASSUME IsFiniteSet(Channels)
  PROVE  IsFiniteSet(AllSlots)
<1> DEFINE slots == [c \in Channels |-> {c} \X Ring(c)]
           Parts == {{c} \X Ring(c) : c \in Channels}
<1>1. \A T \in Parts : IsFiniteSet(T)
  <2> SUFFICES ASSUME NEW c \in Channels PROVE IsFiniteSet({c} \X Ring(c))
    OBVIOUS
  <2>1. IsFiniteSet({c})
    BY FS_Singleton
  <2>2. IsFiniteSet(Ring(c))
    BY FS_Interval DEF Ring
  <2>3. QED BY <2>1, <2>2, FS_Product
<1>2. \A T \in Parts : \E c \in Channels : slots[c] = T
  OBVIOUS
<1>3. AllSlots = UNION Parts
  BY DEF AllSlots
<1> HIDE DEF slots, Parts
<1>4. IsFiniteSet(Parts)
  BY <1>2, ImageBound
<1>5. QED
  BY <1>1, <1>3, <1>4, FS_UNION

\* While some slot is vacant and nothing is spare, the heap has a frame: each of
\* those outside has a slot, a keeper or the loop's hands to itself.
LEMMA HeapHasFrame ==
  ASSUME HeapCovers, SupplyInv, newf = NoFrame,
         NEW c \in Channels, NEW w \in Ring(c), IsVacant(c, w)
  PROVE  Available # NoFrame
<1> SUFFICES ASSUME Available = NoFrame PROVE FALSE
  OBVIOUS
<1> DEFINE Others == AllSlots \ {<<c, w>>}
           InSlots == {HeldAt(p) : p \in Others}
           InKeepers == {kept[k] : k \in Keepers}
<1>1. TypeOK /\ HeapShape /\ BorrowedShape /\ LostShape
  BY DEF SupplyInv, IInv, RingInv, OwnerInv
<1>2. \A g \in Frames : ~InHeap(g)
  <2>1. heap[frame_heap_take] = NoFrame /\ frame_heap_take \in HeapSlots
    BY <1>1 DEF Available, TypeOK
  <2>2. \A i \in HeapSlots : heap[i] = NoFrame
    BY <1>1, <2>1 DEF HeapShape, Arc, HeapSlots, TypeOK
  <2>3. QED BY <2>2 DEF InHeap
<1>3. \A g \in Frames : InRing(g) \/ InCallback(g) \/ InUse(g) \/ IsLost(g)
  BY <1>2 DEF SupplyInv, IInv, OwnerInv, OneOwner, SingleOwner, IsSpare
<1>4. ring[c][w].f = NoFrame /\ ~IsPending(c, w)
  BY DEF IsVacant, IsPending
<1>5. \A d \in Channels : \A i \in Ring(d) : <<d, i>> \in AllSlots
  BY DEF AllSlots
<1>6. ASSUME NEW g \in Frames PROVE g \in InSlots \cup InKeepers \cup {f}
  <2>1. CASE InRing(g)
    <3>1. PICK d \in Channels : \E i \in Ring(d) : ring[d][i].f = g
      BY <2>1 DEF InRing
    <3>2. PICK i \in Ring(d) : ring[d][i].f = g
      BY <3>1
    <3>3. <<d, i>> \in Others
      BY <1>4, <1>5, <3>2
    <3>4. HeldAt(<<d, i>>) = g
      BY <3>2 DEF HeldAt
    <3>5. QED BY <3>3, <3>4
  <2>2. CASE InCallback(g)
    <3>1. PICK d \in Channels : captured[d] = g
      BY <2>2 DEF InCallback
    <3>2. /\ IsPending(d, slave_cur[d]) /\ ring[d][slave_cur[d]].f = NoFrame
          /\ slave_cur[d] \in Ring(d)
      BY <1>1, <3>1 DEF BorrowedShape, TypeOK
    <3>3. <<d, slave_cur[d]>> \in Others
      BY <1>4, <1>5, <3>2
    <3>4. HeldAt(<<d, slave_cur[d]>>) = g
      BY <3>1, <3>2 DEF HeldAt
    <3>5. QED BY <3>3, <3>4
  <2>3. CASE IsLost(g)
    <3>1. PICK d \in Channels : g \in lost[d]
      BY <2>3 DEF IsLost
    <3>2. /\ IsPending(d, slave_cur[d]) /\ ring[d][slave_cur[d]].f = NoFrame
          /\ slave_cur[d] \in Ring(d) /\ captured[d] = NoFrame
          /\ \A h \in lost[d] : h = g
      BY <1>1, <3>1 DEF LostShape, TypeOK
    <3>3. <<d, slave_cur[d]>> \in Others
      BY <1>4, <1>5, <3>2
    <3>4. HeldAt(<<d, slave_cur[d]>>) = g
      BY <3>1, <3>2 DEF HeldAt
    <3>5. QED BY <3>3, <3>4
  <2>4. CASE InUse(g)
    BY <2>4 DEF InUse, KeptBy
  <2>5. QED BY <1>3, <2>1, <2>2, <2>3, <2>4
<1>7. /\ IsFiniteSet(Others) /\ Cardinality(Others) = Cardinality(AllSlots) - 1
      /\ Cardinality(AllSlots) \in Nat
  BY <1>5, AllSlotsFinite, FS_RemoveElement, FS_CardinalityType DEF HeapCovers
<1>8. /\ IsFiniteSet(InSlots) /\ Cardinality(InSlots) <= Cardinality(Others)
      /\ IsFiniteSet(InKeepers) /\ Cardinality(InKeepers) <= Cardinality(Keepers)
      /\ Cardinality(InSlots) \in Nat /\ Cardinality(InKeepers) \in Nat
      /\ Cardinality(Keepers) \in Nat
  <2>1. IsFiniteSet(InSlots) /\ Cardinality(InSlots) <= Cardinality(Others)
    <3> DEFINE h == [p \in Others |-> HeldAt(p)]
    <3>1. \A t \in InSlots : \E p \in Others : h[p] = t OBVIOUS
    <3> HIDE DEF h, InSlots, Others
    <3>2. QED BY <1>7, <3>1, ImageBound
  <2>2. IsFiniteSet(InKeepers) /\ Cardinality(InKeepers) <= Cardinality(Keepers)
    <3>1. \A t \in InKeepers : \E k \in Keepers : kept[k] = t OBVIOUS
    <3> HIDE DEF InKeepers
    <3>2. QED BY <3>1, ImageBound
  <2>3. IsFiniteSet(Keepers)
    BY KeepersAssumption
  <2> HIDE DEF InSlots, InKeepers, Others
  <2>4. QED BY <2>1, <2>2, <2>3, FS_CardinalityType
<1> HIDE DEF InSlots, InKeepers, Others
<1> DEFINE Both == InSlots \cup InKeepers
<1>9. IsFiniteSet(Both) /\ Cardinality(Both) <= Cardinality(InSlots) + Cardinality(InKeepers)
  <2>1. IsFiniteSet(InSlots \cap InKeepers)
    BY <1>8, FS_Intersection
  <2>2. Cardinality(InSlots \cap InKeepers) \in Nat
    BY <2>1, FS_CardinalityType
  <2>3. /\ IsFiniteSet(InSlots \cup InKeepers)
        /\ Cardinality(InSlots \cup InKeepers) =
             Cardinality(InSlots) + Cardinality(InKeepers) - Cardinality(InSlots \cap InKeepers)
    BY <1>8, FS_Union
  <2>4. QED BY <1>8, <2>2, <2>3
<1> HIDE DEF Both
<1>10. /\ IsFiniteSet(Both \cup {f}) /\ Cardinality(Both) \in Nat
       /\ Cardinality(Both \cup {f}) <= Cardinality(Both) + 1
       /\ Cardinality(Both \cup {f}) \in Nat
  <2>1. IsFiniteSet(Both \cup {f}) /\ Cardinality(Both) \in Nat
    BY <1>9, FS_AddElement, FS_CardinalityType
  <2>2. QED BY <1>9, <2>1, FS_AddElement, FS_CardinalityType
<1>11. Cardinality(Frames) = HeapCount /\ IsFiniteSet(Frames)
  BY FS_Interval DEF Frames, HeapSlots
<1>12. Cardinality(Frames) <= Cardinality(Both \cup {f})
  <2>1. Frames \in SUBSET (Both \cup {f})
    BY <1>6 DEF Both
  <2>2. QED BY <1>10, <2>1, FS_Subset
<1>13. QED
  BY <1>7, <1>8, <1>9, <1>10, <1>11, <1>12 DEF HeapCovers

\* What the supply of frames adds to the inductive invariant.
SupplyParts == LostShape /\ FullShape

\* A step of the loop between two dispatches touches neither slots nor losses.
LEMMA LoopStepKeepsSupply ==
  ASSUME SupplyInv, UNCHANGED <<ringVars, filled, captured, lost>>,
         \/ pc \notin {"new", "exchange"} /\ pc' \notin {"new", "exchange"}
         \/ pc = "new" /\ pc' = "exchange" /\ ex' = ex
  PROVE  SupplyParts'
<1>1. \A c, i : /\ IsPending(c, i)' <=> IsPending(c, i)
                /\ IsVacant(c, i)' <=> IsVacant(c, i)
                /\ ring'[c][i] = ring[c][i]
  BY DEF IsPending, IsVacant, ringVars
<1>2. LostShape'
  BY <1>1 DEF SupplyInv, LostShape, ringVars
<1>3. FullShape'
  BY <1>1 DEF SupplyInv, FullShape, ringVars
<1>4. QED BY <1>2, <1>3 DEF SupplyParts

\* new_frame finds a frame for the slot the loop has just emptied.
LEMMA NewFrameKeepsSupply ==
  ASSUME HeapCovers, SupplyInv, NewFrame
  PROVE  SupplyParts'
<1>1. pc = "new" /\ ex' = ex /\ UNCHANGED <<ringVars, filled, captured, lost>>
  BY DEF NewFrame
<1>2. newf = NoFrame /\ IsVacant(ex, master_write[ex])
  BY <1>1 DEF SupplyInv, IInv, RingInv, LoopShape
<1>3. ex \in Channels /\ master_write[ex] \in Ring(ex)
  BY DEF SupplyInv, IInv, RingInv, TypeOK
<1>4. Available # NoFrame
  BY <1>2, <1>3, HeapHasFrame
<1>5. pc' = "exchange"
  BY <1>4 DEF NewFrame
<1>6. QED BY <1>1, <1>5, LoopStepKeepsSupply

\* A capture thread's step concerns its own channel only.
LEMMA OthersKeepSupply ==
  ASSUME SupplyInv, NEW c \in Channels,
         UNCHANGED <<master_write, filled, pc, ex>>,
         \A d \in Channels : d # c =>
           /\ ring'[d] = ring[d] /\ captured'[d] = captured[d]
           /\ slave_cur'[d] = slave_cur[d] /\ lost'[d] = lost[d],
         lost'[c] # {} =>
           /\ captured'[c] = NoFrame
           /\ IsPending(c, slave_cur[c])' /\ ring'[c][slave_cur'[c]].f = NoFrame
           /\ \A g, h \in lost'[c] : g = h,
         slave_cur'[c] = slave_cur[c] \/ lost'[c] = {},
         \A i \in Ring(c) :
           /\ IsVacant(c, i)' => IsVacant(c, i)
           /\ IsPending(c, i)' /\ ring'[c][i].f = NoFrame =>
                i = slave_cur'[c] /\ (captured'[c] # NoFrame \/ lost'[c] # {})
  PROVE  SupplyParts'
<1>1. \A d \in Channels : d # c => \A i :
        /\ IsPending(d, i)' <=> IsPending(d, i)
        /\ IsVacant(d, i)' <=> IsVacant(d, i)
        /\ ring'[d][i] = ring[d][i]
  BY DEF IsPending, IsVacant
<1>2. LostShape'
  BY <1>1 DEF SupplyInv, LostShape, IsPending
<1>3. FullShape'
  BY <1>1 DEF SupplyInv, FullShape, Ring
<1>4. QED BY <1>2, <1>3 DEF SupplyParts

\* get_next_frame finds a frame, so the channel has lost none.
LEMMA GetKeepsSupply ==
  ASSUME SupplyInv, NEW c \in Channels, GetNextFrame(c)
  PROVE  SupplyParts'
<1>1. /\ captured' = [captured EXCEPT ![c] = NextFrame(c)] /\ NextFrame(c) # NoFrame
      /\ ring' = [ring EXCEPT ![c][slave_cur[c]] = Emptied(@)]
      /\ UNCHANGED <<slave_cur, master_write, filled, pc, ex, lost>>
  BY DEF GetNextFrame, loopVars
<1>2. TypeOK /\ RingInv /\ LostShape /\ FullShape
  BY DEF SupplyInv, IInv, RingInv
<1>3. /\ \A d \in Channels : d # c => ring'[d] = ring[d] /\ captured'[d] = captured[d]
      /\ captured'[c] = NextFrame(c)
      /\ \A i \in Ring(c) : i # slave_cur[c] => ring'[c][i] = ring[c][i]
  BY <1>1, <1>2 DEF TypeOK
<1>4. lost[c] = {}
  BY <1>1, <1>2 DEF LostShape, NextFrame
<1>5. \A i \in Ring(c) : /\ IsPending(c, i)' <=> IsPending(c, i)
                         /\ IsVacant(c, i)' <=> IsVacant(c, i)
  BY <1>2, GetShape
<1>6. \A i \in Ring(c) : IsPending(c, i)' /\ ring'[c][i].f = NoFrame => i = slave_cur[c]
  BY <1>2, <1>3, <1>5 DEF FullShape
<1>7. QED BY <1>1, <1>3, <1>4, <1>5, <1>6, OthersKeepSupply

\* deliver_frame fills the slot its callback had emptied: the ring is full.
LEMMA DeliverKeepsSupply ==
  ASSUME SupplyInv, NEW c \in Channels, DeliverFrame(c)
  PROVE  SupplyParts'
<1> DEFINE cur == slave_cur[c]
<1>1. /\ captured[c] # NoFrame /\ captured' = [captured EXCEPT ![c] = NoFrame]
      /\ ring' = [ring EXCEPT ![c][cur] = [f |-> captured[c], pending |-> FALSE]]
      /\ lost' = [lost EXCEPT ![c] = @ \cup ({ring[c][cur].f} \ {NoFrame})]
      /\ slave_cur' = [slave_cur EXCEPT ![c] = NextSlot(cur, Slots[c])]
      /\ UNCHANGED <<master_write, filled, pc, ex>>
  BY DEF DeliverFrame, loopVars
<1>2. TypeOK /\ RingInv /\ LostShape /\ FullShape /\ BorrowedShape
  BY DEF SupplyInv, IInv, RingInv
<1>3. /\ \A d \in Channels : d # c => /\ ring'[d] = ring[d] /\ captured'[d] = captured[d]
                                      /\ slave_cur'[d] = slave_cur[d] /\ lost'[d] = lost[d]
      /\ ring'[c][cur] = [f |-> captured[c], pending |-> FALSE]
      /\ \A i \in Ring(c) : i # cur => ring'[c][i] = ring[c][i]
      /\ cur \in Ring(c)
  BY <1>1, <1>2 DEF TypeOK
<1>4. lost'[c] = {}
  <2>1. ring[c][cur].f = NoFrame /\ lost[c] = {}
    BY <1>1, <1>2 DEF BorrowedShape, LostShape
  <2>2. QED BY <1>1, <1>2, <2>1 DEF TypeOK
<1>5. \A i \in Ring(c) : IsVacant(c, i)' <=> IsVacant(c, i)
  BY <1>2, DeliverShape
<1>6. \A i \in Ring(c) : ~(IsPending(c, i)' /\ ring'[c][i].f = NoFrame)
  BY <1>2, <1>3 DEF FullShape, IsPending
<1>7. QED BY <1>1, <1>3, <1>4, <1>5, <1>6, OthersKeepSupply

\* A chunk is given up: its frame is the channel's only loss.
LEMMA AbandonKeepsSupply ==
  ASSUME SupplyInv, NEW c \in Channels, AbandonFrame(c)
  PROVE  SupplyParts'
<1>1. /\ captured[c] # NoFrame /\ captured' = [captured EXCEPT ![c] = NoFrame]
      /\ lost' = [lost EXCEPT ![c] = @ \cup {captured[c]}]
      /\ UNCHANGED <<ring, slave_cur, master_write, filled, pc, ex>>
  BY DEF AbandonFrame, loopVars, ringVars
<1>2. TypeOK /\ LostShape /\ FullShape /\ BorrowedShape
  BY DEF SupplyInv, IInv, RingInv
<1>3. /\ \A d \in Channels : d # c => captured'[d] = captured[d] /\ lost'[d] = lost[d]
      /\ captured'[c] = NoFrame
  BY <1>1, <1>2 DEF TypeOK
<1>4. lost'[c] = {captured[c]}
  BY <1>1, <1>2 DEF LostShape, TypeOK
<1>5. IsPending(c, slave_cur[c])' /\ ring'[c][slave_cur'[c]].f = NoFrame
  BY <1>1, <1>2 DEF BorrowedShape, IsPending
<1>6. \A i \in Ring(c) : /\ IsVacant(c, i)' <=> IsVacant(c, i)
                         /\ IsPending(c, i)' <=> IsPending(c, i)
  BY <1>1 DEF IsVacant, IsPending
<1>7. \A i \in Ring(c) : IsPending(c, i)' /\ ring'[c][i].f = NoFrame => i = slave_cur[c]
  BY <1>1, <1>2, <1>6 DEF FullShape
<1>8. QED BY <1>1, <1>3, <1>4, <1>5, <1>6, <1>7, OthersKeepSupply

\* A frame goes to the slot at master_write, which is vacant: one fewer vacancy.
LEMMA ExchangeFrameSupply ==
  ASSUME SupplyInv, NEW c \in Channels, NEW g \in Frames, ExchangeFrame(c, g),
         IsVacant(c, master_write[c]), UNCHANGED captured
  PROVE  /\ LostShape'
         /\ \A d \in Channels : \A i \in Ring(d) :
              /\ IsVacant(d, i)' <=> IsVacant(d, i) /\ ~(d = c /\ i = master_write[c])
              /\ IsPending(d, i)' /\ ring'[d][i].f = NoFrame =>
                   i = slave_cur'[d] /\ (captured'[d] # NoFrame \/ lost'[d] # {})
         /\ \A d \in Channels : d # c => master_write'[d] = master_write[d]
<1> DEFINE w == master_write[c]
<1>1. /\ ring' = [ring EXCEPT ![c][w] = [f |-> g, pending |-> TRUE]]
      /\ master_write' = [master_write EXCEPT ![c] = NextSlot(w, Slots[c])]
      /\ UNCHANGED <<slave_cur, lost>>
  BY DEF ExchangeFrame, IsVacant
<1>2. TypeOK /\ LostShape /\ FullShape /\ w \in Ring(c)
  BY DEF SupplyInv, IInv, RingInv, TypeOK
<1>3. /\ ring'[c][w] = [f |-> g, pending |-> TRUE] /\ g # NoFrame
      /\ \A d \in Channels : \A i \in Ring(d) :
           ~(d = c /\ i = w) => ring'[d][i] = ring[d][i]
      /\ \A d \in Channels : d # c => master_write'[d] = master_write[d]
  BY <1>1, <1>2, NoFrameAssumption DEF TypeOK
<1>4. \A d \in Channels : \A i \in Ring(d) :
        IsVacant(d, i)' <=> IsVacant(d, i) /\ ~(d = c /\ i = w)
  BY <1>3 DEF IsVacant
<1>5. \A d \in Channels : \A i \in Ring(d) :
        IsPending(d, i)' /\ ring'[d][i].f = NoFrame =>
          IsPending(d, i) /\ ring[d][i].f = NoFrame
  BY <1>3 DEF IsPending
<1>6. LostShape'
  <2> SUFFICES ASSUME NEW d \in Channels, lost'[d] # {}
               PROVE  /\ captured'[d] = NoFrame
                      /\ IsPending(d, slave_cur[d])' /\ ring'[d][slave_cur'[d]].f = NoFrame
                      /\ \A g1, h1 \in lost'[d] : g1 = h1
    BY DEF LostShape
  <2>1. /\ captured[d] = NoFrame /\ \A g1, h1 \in lost[d] : g1 = h1
        /\ ring[d][slave_cur[d]].pending /\ ring[d][slave_cur[d]].f = NoFrame
        /\ slave_cur[d] \in Ring(d)
    BY <1>1, <1>2 DEF LostShape, IsPending, TypeOK
  <2>2. ~(d = c /\ slave_cur[d] = w)
    BY <2>1 DEF IsVacant
  <2>3. ring'[d][slave_cur[d]] = ring[d][slave_cur[d]]
    BY <1>3, <2>1, <2>2
  <2>4. QED BY <1>1, <2>1, <2>3 DEF IsPending
<1>7. QED BY <1>1, <1>2, <1>3, <1>4, <1>5, <1>6 DEF FullShape

\* end_block's loop: new_frame has a frame for every slot of every ring.
LEMMA FillKeepsSupply ==
  ASSUME HeapCovers, SupplyInv, NEW c \in Channels, Fill(c)
  PROVE  SupplyParts'
<1> DEFINE w == master_write[c]
<1>1. /\ pc = "boot" /\ pc' = "boot" /\ filled[c] < Slots[c] /\ ExchangeFrame(c, Available)
      /\ filled' = [filled EXCEPT ![c] = @ + 1]
      /\ UNCHANGED <<captured, newf>>
  BY DEF Fill, loopVars
<1>2. TypeOK /\ BootShape /\ FullShape /\ newf = NoFrame
  BY <1>1 DEF SupplyInv, IInv, RingInv, LoopShape
<1>3. w = filled[c] /\ w \in Ring(c) /\ IsVacant(c, w)
  BY <1>1, <1>2 DEF BootShape, TypeOK
<1>4. Available \in Frames
  <2>1. Available # NoFrame BY <1>2, <1>3, HeapHasFrame
  <2>2. QED BY <1>2, <2>1 DEF Available, TypeOK, FrameOrNull
<1>5. FullShape'
  <2> SUFFICES ASSUME NEW d \in Channels, NEW i \in Ring(d)
               PROVE  /\ IsVacant(d, i)' => filled'[d] <= i
                      /\ IsPending(d, i)' /\ ring'[d][i].f = NoFrame =>
                           i = slave_cur'[d] /\ (captured'[d] # NoFrame \/ lost'[d] # {})
    BY DEF FullShape
  <2>1. IsVacant(d, i)' => IsVacant(d, i) /\ ~(d = c /\ i = w)
    BY <1>1, <1>3, <1>4, ExchangeFrameSupply
  <2>2. IsVacant(d, i) => filled[d] <= i
    BY <1>1, <1>2 DEF FullShape
  <2>3. filled'[d] = IF d = c THEN filled[d] + 1 ELSE filled[d]
    BY <1>1, <1>2 DEF TypeOK
  <2>4. filled[d] \in Nat /\ i \in Nat
    BY <1>2 DEF TypeOK, Ring
  <2>5. IsVacant(d, i)' => filled'[d] <= i
    BY <1>3, <2>1, <2>2, <2>3, <2>4
  <2>6. QED BY <1>1, <1>3, <1>4, <2>5, ExchangeFrameSupply
<1>6. QED BY <1>1, <1>3, <1>4, <1>5, ExchangeFrameSupply DEF SupplyParts

\* get_back_frame hands the new frame over: the ring is full again.
LEMMA ExchangeKeepsSupply ==
  ASSUME SupplyInv, Exchange
  PROVE  SupplyParts'
<1> DEFINE w == master_write[ex]
<1>1. /\ pc = "exchange" /\ pc' = "deliver" /\ ExchangeFrame(ex, newf)
      /\ UNCHANGED <<filled, captured, ex>>
  BY DEF Exchange
<1>2. /\ TypeOK /\ FullShape /\ newf \in Frames /\ IsVacant(ex, w)
      /\ ex \in Channels /\ w \in Ring(ex)
  BY <1>1 DEF SupplyInv, IInv, RingInv, LoopShape, TypeOK, FrameOrNull
<1>3. /\ LostShape'
      /\ \A d \in Channels : \A i \in Ring(d) :
           /\ IsVacant(d, i)' <=> IsVacant(d, i) /\ ~(d = ex /\ i = w)
           /\ IsPending(d, i)' /\ ring'[d][i].f = NoFrame =>
                i = slave_cur'[d] /\ (captured'[d] # NoFrame \/ lost'[d] # {})
  BY <1>1, <1>2, ExchangeFrameSupply
<1>4. FullShape'
  BY <1>1, <1>2, <1>3 DEF FullShape
<1>5. QED BY <1>3, <1>4 DEF SupplyParts

\* exchanger_read vacates the slot at master_write, and only that one.
LEMMA TakeKeepsSupply ==
  ASSUME SupplyInv, TakeDelivered
  PROVE  SupplyParts'
<1> DEFINE rd == master_read[ex]
<1>1. /\ pc = "take" /\ pc' = "new"
      /\ ring' = [ring EXCEPT ![ex][rd] = Emptied(@)]
      /\ UNCHANGED <<slave_cur, master_write, filled, captured, ex, lost>>
  BY DEF TakeDelivered
<1>2. /\ TypeOK /\ LostShape /\ FullShape /\ RingInv /\ BootShape
      /\ ex \in Channels /\ rd \in Ring(ex) /\ master_write[ex] \in Ring(ex)
  BY DEF SupplyInv, IInv, RingInv, TypeOK
<1>3. /\ \A d \in Channels : \A i \in Ring(d) :
           ~(d = ex /\ i = rd) => ring'[d][i] = ring[d][i]
      /\ ring'[ex][rd].pending = ring[ex][rd].pending
  BY <1>1, <1>2 DEF TypeOK, Emptied
<1>4. ~ring[ex][rd].pending
  BY <1>1, <1>2, TakeFindsUnread DEF IsUnread
<1>5. \A d \in Channels : \A i \in Ring(d) : ~IsVacant(d, i)
  BY <1>1, <1>2 DEF FullShape, BootShape, TypeOK, Ring
<1>6. IsVacant(ex, master_write[ex])'
  BY <1>1, <1>2, TakeShape
<1>7. rd = master_write[ex]
  BY <1>1, <1>2, <1>3, <1>5, <1>6 DEF IsVacant
<1>8. \A d \in Channels : \A i \in Ring(d) : IsVacant(d, i)' => d = ex /\ i = rd
  BY <1>3, <1>5 DEF IsVacant
<1>9. \A d \in Channels : \A i \in Ring(d) :
        IsPending(d, i)' => IsPending(d, i) /\ ring'[d][i] = ring[d][i]
  BY <1>3, <1>4 DEF IsPending
<1>10. FullShape'
  BY <1>1, <1>2, <1>7, <1>8, <1>9 DEF FullShape
<1>11. LostShape'
  <2> SUFFICES ASSUME NEW d \in Channels, lost[d] # {}
               PROVE  /\ captured'[d] = NoFrame
                      /\ IsPending(d, slave_cur[d])' /\ ring'[d][slave_cur'[d]].f = NoFrame
                      /\ \A g, h \in lost[d] : g = h
    BY <1>1 DEF LostShape
  <2>1. /\ captured[d] = NoFrame /\ \A g, h \in lost[d] : g = h
        /\ ring[d][slave_cur[d]].pending /\ ring[d][slave_cur[d]].f = NoFrame
        /\ slave_cur[d] \in Ring(d)
    BY <1>2 DEF LostShape, IsPending, TypeOK
  <2>2. ring'[d][slave_cur[d]] = ring[d][slave_cur[d]]
    BY <1>3, <1>4, <2>1
  <2>3. QED BY <1>1, <2>1, <2>2 DEF IsPending
<1>12. QED BY <1>10, <1>11 DEF SupplyParts

\* With a heap that covers the slots, no step makes a ring short of frames.
LEMMA SupplyStep == HeapCovers /\ SupplyInv /\ [Next]_vars => SupplyInv'
<1> SUFFICES ASSUME HeapCovers, SupplyInv, [Next]_vars PROVE SupplyInv'
  OBVIOUS
<1>1. IInv'
  BY RingStep, OwnerStep DEF SupplyInv, IInv
<1> SUFFICES SupplyParts'
  BY <1>1 DEF SupplyInv, SupplyParts
<1>2. ASSUME NEW c \in Channels, Fill(c) PROVE SupplyParts'
  BY <1>2, FillKeepsSupply
<1>3. CASE StartLoop
  BY <1>3, LoopStepKeepsSupply DEF StartLoop
<1>4. CASE Select
  BY <1>4, LoopStepKeepsSupply DEF Select
<1>5. CASE Dispatch
  BY <1>5, LoopStepKeepsSupply DEF Dispatch
<1>6. CASE ReadByte
  <2>1. /\ pc = "read" /\ pc' \in {"dispatch", "take"}
        /\ UNCHANGED <<ring, slave_cur, master_read, master_write, filled, captured, lost, ex>>
    BY <1>6 DEF ReadByte
  <2>2. \A c, i : /\ IsPending(c, i)' <=> IsPending(c, i)
                  /\ IsVacant(c, i)' <=> IsVacant(c, i)
    BY <2>1 DEF IsPending, IsVacant
  <2>3. QED BY <2>1, <2>2 DEF SupplyInv, SupplyParts, LostShape, FullShape
<1>7. CASE TakeDelivered
  BY <1>7, TakeKeepsSupply
<1>8. CASE NewFrame
  BY <1>8, NewFrameKeepsSupply
<1>9. CASE Exchange
  BY <1>9, ExchangeKeepsSupply
<1>10. ASSUME NEW k \in Keepers, Keep(k) PROVE SupplyParts'
  BY <1>10, LoopStepKeepsSupply DEF Keep
<1>11. CASE Release
  BY <1>11, LoopStepKeepsSupply DEF Release
<1>12. ASSUME NEW c \in Channels, Capture(c) PROVE SupplyParts'
  BY <1>12, GetKeepsSupply, DeliverKeepsSupply, AbandonKeepsSupply DEF Capture
<1>13. CASE UNCHANGED vars
  <2>1. UNCHANGED <<ringVars, filled, captured, lost, pc, ex>>
    BY <1>13 DEF vars, loopVars
  <2>2. \A c, i : /\ IsPending(c, i)' <=> IsPending(c, i)
                  /\ IsVacant(c, i)' <=> IsVacant(c, i)
    BY <2>1 DEF IsPending, IsVacant, ringVars
  <2>3. QED BY <2>1, <2>2 DEF SupplyInv, SupplyParts, LostShape, FullShape, ringVars
<1>14. QED
  BY <1>2, <1>3, <1>4, <1>5, <1>6, <1>7, <1>8, <1>9, <1>10, <1>11, <1>12, <1>13
  DEF Next, Boot, Loop

\* At start-up every slot is to be filled and nothing is lost.
LEMMA InitSupply == Init => SupplyInv
<1> SUFFICES ASSUME Init PROVE SupplyInv
  OBVIOUS
<1>1. \A c \in Channels : lost[c] = {} /\ filled[c] = 0
  BY DEF Init
<1>2. \A c \in Channels : \A i \in Ring(c) : ~IsPending(c, i) /\ 0 <= i
  BY DEF Init, IsPending, Ring
<1>3. LostShape /\ FullShape
  BY <1>1, <1>2 DEF LostShape, FullShape
<1>4. QED BY <1>3, InitIInv DEF SupplyInv

\* A channel that loses nothing has a frame for every slot: in the slot, in the
\* callback's hands, or in the loop's.
LEMMA FullRing == SupplyInv => RingNeverShrinks
<1> SUFFICES ASSUME SupplyInv, pc # "boot", NEW c \in Channels \ CanFail
             PROVE  Circulating(c) = Slots[c]
  BY DEF RingNeverShrinks
<1> DEFINE Full == {i \in Ring(c) : ring[c][i].f # NoFrame}
           owed == pc \in {"new", "exchange"} /\ ex = c
           w == master_write[c]
           cur == slave_cur[c]
<1>1. /\ TypeOK /\ BootShape /\ LoopShape /\ BorrowedShape /\ LostShape /\ FullShape
      /\ lost[c] = {} /\ w \in Ring(c) /\ cur \in Ring(c)
  BY DEF SupplyInv, IInv, RingInv, OwnerInv, NothingLost, TypeOK
<1>2. IsFiniteSet(Ring(c)) /\ Cardinality(Ring(c)) = Slots[c] /\ Slots[c] \in Nat
  BY FS_Interval DEF Ring
<1>3. \A i \in Ring(c) : ~(filled[c] <= i)
  BY <1>1 DEF BootShape, Ring, TypeOK
<1>4. \A i \in Ring(c) : ring[c][i].f = NoFrame =>
        \/ owed /\ i = w
        \/ captured[c] # NoFrame /\ i = cur
  BY <1>1, <1>3 DEF FullShape, IsVacant, IsPending
<1>5. owed => ring[c][w].f = NoFrame /\ ~ring[c][w].pending
  BY <1>1 DEF LoopShape, IsVacant
<1>6. captured[c] # NoFrame => ring[c][cur].f = NoFrame /\ ring[c][cur].pending
  BY <1>1 DEF BorrowedShape, IsPending
<1>7. \A S, x : IsFiniteSet(S) /\ x \in S =>
        IsFiniteSet(S \ {x}) /\ Cardinality(S \ {x}) = Cardinality(S) - 1
  BY FS_RemoveElement
<1>8. /\ IsFiniteSet(Ring(c) \ {w}) /\ Cardinality(Ring(c) \ {w}) = Slots[c] - 1
      /\ Cardinality(Ring(c) \ {cur}) = Slots[c] - 1
  BY <1>1, <1>2, <1>7
<1>9. cur # w => Cardinality((Ring(c) \ {w}) \ {cur}) = Slots[c] - 2
  <2> SUFFICES ASSUME cur # w PROVE Cardinality((Ring(c) \ {w}) \ {cur}) = Slots[c] - 2
    OBVIOUS
  <2>1. cur \in Ring(c) \ {w}
    BY <1>1
  <2>2. Cardinality((Ring(c) \ {w}) \ {cur}) = Cardinality(Ring(c) \ {w}) - 1
    BY <1>7, <1>8, <2>1
  <2>3. QED BY <1>2, <1>8, <2>2
<1>10. Circulating(c) = Cardinality(Full) + (IF captured[c] # NoFrame THEN 1 ELSE 0)
                          + (IF owed THEN 1 ELSE 0)
  BY DEF Circulating
<1>11. CASE owed /\ captured[c] # NoFrame
  <2>1. cur # w /\ Full = (Ring(c) \ {w}) \ {cur}
    BY <1>4, <1>5, <1>6, <1>11
  <2> HIDE DEF Full, owed
  <2>2. QED BY <1>2, <1>9, <1>10, <1>11, <2>1
<1>12. CASE owed /\ captured[c] = NoFrame
  <2>1. Full = Ring(c) \ {w}
    BY <1>4, <1>5, <1>12
  <2> HIDE DEF Full, owed
  <2>2. QED BY <1>2, <1>8, <1>10, <1>12, <2>1
<1>13. CASE ~owed /\ captured[c] # NoFrame
  <2>1. Full = Ring(c) \ {cur}
    BY <1>4, <1>6, <1>13
  <2> HIDE DEF Full, owed
  <2>2. QED BY <1>2, <1>8, <1>10, <1>13, <2>1
<1>14. CASE ~owed /\ captured[c] = NoFrame
  <2>1. Full = Ring(c)
    BY <1>4, <1>14
  <2> HIDE DEF Full, owed
  <2>2. QED BY <1>2, <1>10, <1>14, <2>1
<1>15. QED BY <1>11, <1>12, <1>13, <1>14

\* A heap with a frame per slot, per keeper and one more never fails new_frame,
\* and no ring ever runs with fewer frames than it has slots: frames are only
\* lost by chunks that are given up.
THEOREM RingsStayFull ==
  ASSUME HeapCovers
  PROVE  Spec => []RingNeverShrinks
<1>1. SupplyInv /\ [Next]_vars => SupplyInv'
  BY SupplyStep
<1>2. SupplyInv => RingNeverShrinks
  BY FullRing
<1>3. QED BY <1>1, <1>2, InitSupply, PTL DEF Spec

-----------------------------------------------------------------------------
(* The pool that the exchangers implement: who owns a frame                 *)

Places == {<<"heap">>, <<"spare">>, <<"use">>, <<"lost">>}
            \cup ({"empty", "callback", "queue"} \X Channels)

\* Some pointer of place p is g.
PointsTo(p, g) ==
  \/ p = <<"heap">>  /\ InHeap(g)
  \/ p = <<"spare">> /\ IsSpare(g)
  \/ p = <<"use">>   /\ InUse(g)
  \/ p = <<"lost">>  /\ IsLost(g)
  \/ \E c \in Channels :
       \/ p = <<"callback", c>> /\ captured[c] = g
       \/ p = <<"queue", c>>    /\ \E i \in Unread(c) : ring[c][i].f = g
       \/ p = <<"empty", c>>    /\ \E i \in Empty(c) : ring[c][i].f = g

\* Two names of places are the same place only if they are written alike.
LEMMA PlacesDiffer ==
  /\ <<"heap">> # <<"spare">> /\ <<"heap">> # <<"use">> /\ <<"heap">> # <<"lost">>
  /\ <<"spare">> # <<"use">> /\ <<"spare">> # <<"lost">> /\ <<"use">> # <<"lost">>
  /\ \A w \in {"heap", "spare", "use", "lost"} : \A v, x : <<w>> # <<v, x>>
  /\ \A v, w, x, y : <<v, x>> = <<w, y>> => v = w /\ x = y
OBVIOUS

\* A frame that one place points to is owned there.
LEMMA OwnerIs ==
  ASSUME OneOwner, NEW g \in Frames, NEW p \in Places, PointsTo(p, g)
  PROVE  OwnerOf(g) = p
<1>1. SingleOwner(g) /\ RingDistinct /\ CallbacksDistinct /\ g # NoFrame
  BY DEF OneOwner
<1>2. CASE p \in {<<"heap">>, <<"spare">>, <<"use">>} /\ (InHeap(g) \/ IsSpare(g) \/ InUse(g))
  BY <1>1, <1>2, PlacesDiffer DEF SingleOwner, PointsTo, OwnerOf
<1>3. ASSUME NEW c \in Channels, p = <<"callback", c>>, HasCaptured(c, g)
      PROVE  OwnerOf(g) = p
  <2>1. InCallback(g) /\ ~InHeap(g) /\ ~IsSpare(g) /\ ~InUse(g)
    BY <1>1, <1>3 DEF SingleOwner, InCallback, HasCaptured
  <2>2. \A d \in Channels : HasCaptured(d, g) => d = c
    BY <1>1, <1>3 DEF CallbacksDistinct, HasCaptured
  <2>3. (CHOOSE d \in Channels : HasCaptured(d, g)) = c
    BY <1>3, <2>2
  <2>4. QED BY <1>3, <2>1, <2>3 DEF OwnerOf
<1>4. ASSUME NEW c \in Channels, NEW i \in Ring(c), ring[c][i].f = g
      PROVE  /\ ~InHeap(g) /\ ~IsSpare(g) /\ ~InUse(g)
             /\ \A d \in Channels : ~HasCaptured(d, g)
             /\ \A d \in Channels : HasUnread(d, g) \/ HasEmpty(d, g) => d = c
             /\ HasUnread(c, g) <=> ~ring[c][i].pending
             /\ HasEmpty(c, g) <=> ring[c][i].pending
  <2>1. InRing(g)
    BY <1>4 DEF InRing
  <2>2. /\ ~InHeap(g) /\ ~IsSpare(g) /\ ~InUse(g)
        /\ \A d \in Channels : ~HasCaptured(d, g)
    BY <1>1, <2>1 DEF SingleOwner, InCallback, HasCaptured
  <2>3. \A d \in Channels : \A j \in Ring(d) : ring[d][j].f = g => d = c /\ j = i
    BY <1>1, <1>4 DEF RingDistinct
  <2>4. QED BY <1>4, <2>2, <2>3 DEF HasUnread, HasEmpty
<1>5. ASSUME NEW c \in Channels, p = <<"queue", c>>, NEW i \in Unread(c), ring[c][i].f = g
      PROVE  OwnerOf(g) = p
  <2>1. i \in Ring(c) /\ ~ring[c][i].pending
    BY DEF Unread
  <2>2. (CHOOSE d \in Channels : HasUnread(d, g)) = c
    BY <1>4, <1>5, <2>1
  <2>3. QED BY <1>4, <1>5, <2>1, <2>2 DEF OwnerOf
<1>6. ASSUME NEW c \in Channels, p = <<"empty", c>>, NEW i \in Empty(c), ring[c][i].f = g
      PROVE  OwnerOf(g) = p
  <2>1. i \in Ring(c) /\ ring[c][i].pending
    BY DEF Empty
  <2>2. /\ (CHOOSE d \in Channels : HasEmpty(d, g)) = c
        /\ \A d \in Channels : ~HasUnread(d, g)
    BY <1>4, <1>6, <2>1
  <2>3. QED BY <1>4, <1>6, <2>1, <2>2 DEF OwnerOf
<1>7. CASE p = <<"lost">> /\ IsLost(g)
  BY <1>1, <1>7 DEF SingleOwner, InRing, InCallback, HasCaptured, HasUnread, HasEmpty, OwnerOf
<1>8. QED BY <1>2, <1>3, <1>5, <1>6, <1>7 DEF PointsTo, HasCaptured

\* Some place points to every frame.
LEMMA OwnerExists ==
  ASSUME OneOwner, NEW g \in Frames
  PROVE  \E p \in Places : PointsTo(p, g)
<1>1. SingleOwner(g) /\ g # NoFrame
  BY DEF OneOwner
<1>2. ASSUME InRing(g) PROVE \E p \in Places : PointsTo(p, g)
  <2>1. PICK c \in Channels : \E i \in Ring(c) : ring[c][i].f = g
    BY <1>2 DEF InRing
  <2>2. \/ \E i \in Unread(c) : ring[c][i].f = g
        \/ \E i \in Empty(c) : ring[c][i].f = g
    BY <1>1, <2>1 DEF Unread, Empty
  <2>3. <<"queue", c>> \in Places /\ <<"empty", c>> \in Places
    BY DEF Places
  <2>4. QED BY <2>2, <2>3 DEF PointsTo
<1>3. ASSUME InCallback(g) PROVE \E p \in Places : PointsTo(p, g)
  <2>1. PICK c \in Channels : captured[c] = g
    BY <1>3 DEF InCallback
  <2>2. <<"callback", c>> \in Places
    BY DEF Places
  <2>3. QED BY <2>1, <2>2 DEF PointsTo
<1>4. {<<"heap">>, <<"spare">>, <<"use">>, <<"lost">>} \subseteq Places
  BY DEF Places
<1>5. QED BY <1>1, <1>2, <1>3, <1>4 DEF SingleOwner, PointsTo
\* What the owners and the queues are read off, they are.
OwnersSound ==
  \A g \in Frames : \A p \in Places : PointsTo(p, g) => OwnerOf(g) = p

QueuesSound ==
  \A c \in Channels :
    /\ QueueOf(c) \in Seq(Frames)
    /\ Len(QueueOf(c)) = Cardinality(Unread(c))
    /\ \A n \in 1 .. Cardinality(Unread(c)) :
         QueueOf(c)[n] = ring[c][SlotAfter(master_read[c], n - 1, Slots[c])].f

RefInv == IInv /\ OwnersSound /\ QueuesSound

Moved(g, from, to) == PointsTo(from, g) /\ PointsTo(to, g)'

\* Every place keeps pointing to h.
Stays(h) == \A p \in Places : PointsTo(p, h) => PointsTo(p, h)'

\* A frame whose place keeps pointing to it keeps its owner.
LEMMA OwnerKept ==
  ASSUME OneOwner, OwnersSound, OwnersSound', NEW h \in Frames, Stays(h)
  PROVE  OwnerOf(h)' = OwnerOf(h)
<1>1. PICK p \in Places : PointsTo(p, h)
  BY OwnerExists
<1>2. PointsTo(p, h)'
  BY <1>1 DEF Stays
<1>3. OwnerOf(h) = p
  BY <1>1 DEF OwnersSound
<1>4. OwnerOf(h)' = p
  BY <1>2 DEF OwnersSound
<1>5. QED BY <1>3, <1>4

\* When one frame changes its place, the pool moves that frame.
LEMMA PoolMoves ==
  ASSUME OneOwner, OwnersSound, OwnersSound', NEW g \in Frames,
         NEW from \in Places, NEW to \in Places, from # to, Moved(g, from, to),
         \A h \in Frames : h # g => Stays(h)
  PROVE  /\ Pool!Move(g, from, to)
         /\ OwnerOf(g) = from /\ OwnerOf(g)' = to
<1>1. OwnerOf(g) = from
  BY DEF Moved, OwnersSound
<1>2. OwnerOf(g)' = to
  BY DEF Moved, OwnersSound
<1>3. \A h \in Frames : h # g => OwnerOf(h)' = OwnerOf(h)
  BY OwnerKept
<1>4. [h \in Frames |-> OwnerOf(h)'] = [[h \in Frames |-> OwnerOf(h)] EXCEPT ![g] = to]
  BY <1>2, <1>3
<1>5. QED BY <1>1, <1>2, <1>4 DEF Pool!Move

-----------------------------------------------------------------------------
(* The queue of a channel                                                   *)

\* U is the arc from a to b of a ring of n slots, or nothing or all of it.
IsArc(U, a, b, n) ==
  IF a # b THEN \A i \in 0 .. n - 1 : i \in U <=> Arc(a, b, i)
           ELSE U = {} \/ U = 0 .. n - 1

LEMMA IntervalSize ==
  ASSUME NEW i \in Int, NEW j \in Int, NEW m \in Int, m = j - 1, i <= j
  PROVE  IsFiniteSet(i .. m) /\ Cardinality(i .. m) = j - i
BY FS_Interval

\* An arc of a ring of n slots that starts at a and ends before b: b is as many
\* slots after a as the arc has, and the arc has the slots in between.
LEMMA ArcCount ==
  ASSUME NEW n \in Nat \ {0}, NEW a \in 0 .. n - 1, NEW b \in 0 .. n - 1,
         NEW U \in SUBSET (0 .. n - 1),
         IsArc(U, a, b, n)
  PROVE  /\ Cardinality(U) \in 0 .. n
         /\ SlotAfter(a, Cardinality(U), n) = b
         /\ \A k \in 0 .. n - 1 : k < Cardinality(U) => SlotAfter(a, k, n) \in U
<1>1. CASE a < b
  <2>1. \A i \in 0 .. n - 1 : i \in U <=> a <= i /\ i < b
    BY <1>1 DEF Arc, IsArc
  <2>2. U = a .. b - 1
    <3>1. \A i \in 0 .. n - 1 : i \in U <=> i \in a .. b - 1
      BY <1>1, <2>1
    <3>2. \A i \in a .. b - 1 : i \in 0 .. n - 1
      BY <1>1
    <3>3. \A i \in U : i \in 0 .. n - 1
      OBVIOUS
    <3>4. QED BY ONLY <3>1, <3>2, <3>3
  <2>3. Cardinality(U) = b - a
    <3>1. PICK m \in Int : m = b - 1
      OBVIOUS
    <3>2. Cardinality(a .. m) = b - a
      BY <1>1, <3>1, IntervalSize
    <3>3. QED BY <2>2, <3>1, <3>2
  <2>4. QED BY <1>1, <2>2, <2>3 DEF SlotAfter
<1>2. CASE b < a
  <2>1. \A i \in 0 .. n - 1 : i \in U <=> a <= i \/ i < b
    BY <1>2 DEF Arc, IsArc
  <2>2. PICK m \in Int, l \in Int : m = n - 1 /\ l = b - 1
    OBVIOUS
  <2> DEFINE V == a .. m
             W == 0 .. l
  <2>3. U = V \cup W /\ V \cap W = {}
    <3>1. \A i \in 0 .. n - 1 : i \in U <=> i \in V \/ i \in W
      BY <1>2, <2>1, <2>2
    <3>2. \A i : ~(i \in V /\ i \in W)
      BY <1>2, <2>2
    <3>3. \A i : i \in V \/ i \in W => i \in 0 .. n - 1
      BY <1>2, <2>2
    <3>4. \A i \in U : i \in 0 .. n - 1
      OBVIOUS
    <3> HIDE DEF V, W
    <3>5. QED BY ONLY <3>1, <3>2, <3>3, <3>4
  <2>4. IsFiniteSet(V) /\ Cardinality(V) = n - a
    BY <1>2, <2>2, IntervalSize
  <2>5. IsFiniteSet(W) /\ Cardinality(W) = b
    <3>1. Cardinality(W) = b - 0 /\ IsFiniteSet(W)
      BY <1>2, <2>2, IntervalSize
    <3>2. QED BY <3>1
  <2>6. \A k \in 0 .. n - 1 : k < n - a + b => SlotAfter(a, k, n) \in V \cup W
    BY <1>2, <2>2 DEF SlotAfter
  <2> HIDE DEF V, W
  <2>7. Cardinality(V \cap W) = 0
    BY <2>3, FS_EmptySet
  <2>8. Cardinality(U) = n - a + b
    <3>1. Cardinality(V \cup W) = Cardinality(V) + Cardinality(W) - Cardinality(V \cap W)
      BY <2>4, <2>5, FS_Union
    <3>2. QED BY <2>3, <2>4, <2>5, <2>7, <3>1
  <2>9. n - a + b \in 0 .. n /\ SlotAfter(a, n - a + b, n) = b
    BY <1>2 DEF SlotAfter
  <2>10. QED BY <2>3, <2>6, <2>8, <2>9
<1>3. CASE a = b /\ U = {}
  <2>1. Cardinality(U) = 0
    BY <1>3, FS_EmptySet
  <2>2. QED BY <1>3, <2>1 DEF SlotAfter
<1>4. CASE a = b /\ U = 0 .. n - 1
  <2>1. Cardinality(U) = n
    <3>1. PICK m \in Int : m = n - 1
      OBVIOUS
    <3>2. Cardinality(0 .. m) = n - 0
      BY <3>1, IntervalSize
    <3>3. QED BY <1>4, <3>1, <3>2
  <2>2. \A k \in 0 .. n - 1 : SlotAfter(a, k, n) \in U
    BY <1>4 DEF SlotAfter
  <2>3. QED BY <1>4, <2>1, <2>2 DEF SlotAfter
<1>5. QED BY <1>1, <1>2, <1>3, <1>4 DEF IsArc

\* The unread slots of a ring, from master_read on, end before slave_cur.
LEMMA UnreadRun ==
  ASSUME RingInv, NEW c \in Channels
  PROVE  /\ Cardinality(Unread(c)) \in 0 .. Slots[c]
         /\ SlotAfter(master_read[c], Cardinality(Unread(c)), Slots[c]) = slave_cur[c]
         /\ \A k \in Ring(c) :
              k < Cardinality(Unread(c)) =>
                SlotAfter(master_read[c], k, Slots[c]) \in Unread(c)
<1> DEFINE U == Unread(c)  rd == master_read[c]  cur == slave_cur[c]  n == Slots[c]
<1>1. n \in Nat \ {0} /\ rd \in 0 .. n - 1 /\ cur \in 0 .. n - 1
  BY DEF RingInv, TypeOK, Ring
<1>2. U \in SUBSET (0 .. n - 1)
  BY DEF Unread, Ring
<1>3. RingShapeOf(c)
  BY DEF RingInv, RingShape
<1>4. \A i \in 0 .. n - 1 : i \in U <=> IsUnread(c, i)
  BY DEF Unread, IsUnread, Ring
<1>5. IsArc(U, rd, cur, n)
  <2>1. CASE rd # cur
    BY <1>3, <1>4, <2>1 DEF RingShapeOf, Ring, IsArc
  <2>2. CASE rd = cur
    <3>1. \/ \A i \in Ring(c) : IsUnread(c, i)
          \/ \A i \in Ring(c) : ~IsUnread(c, i)
      BY <1>3, <2>2 DEF RingShapeOf
    <3>2. QED BY <1>2, <1>4, <2>2, <3>1 DEF Ring, IsArc
  <2>3. QED BY <2>1, <2>2
<1> HIDE DEF U, rd, cur, n
<1>6. /\ Cardinality(U) \in 0 .. n /\ SlotAfter(rd, Cardinality(U), n) = cur
      /\ \A k \in 0 .. n - 1 : k < Cardinality(U) => SlotAfter(rd, k, n) \in U
  BY <1>1, <1>2, <1>5, ArcCount
<1>7. QED BY <1>6 DEF U, rd, cur, n, Ring

\* A channel whose delivered slots and their frames stay keeps its queue.
LEMMA QueueKept ==
  ASSUME RingInv, NEW c \in Channels, Unread(c)' = Unread(c),
         master_read'[c] = master_read[c],
         \A i \in Unread(c) : ring'[c][i].f = ring[c][i].f
  PROVE  QueueOf(c)' = QueueOf(c)
<1> DEFINE N == Cardinality(Unread(c))
           At(n) == SlotAfter(master_read[c], n - 1, Slots[c])
<1>1. N \in 0 .. Slots[c] /\ Slots[c] \in Nat
  BY UnreadRun DEF RingInv, TypeOK
<1>2. ASSUME NEW n \in 1 .. N
      PROVE  At(n) \in Unread(c)
  <2>1. PICK k \in Ring(c) : k = n - 1 /\ k < N
    BY <1>1 DEF Ring
  <2>2. QED BY <2>1, UnreadRun
<1>3. \A n \in 1 .. N : ring'[c][At(n)].f = ring[c][At(n)].f
  BY <1>2
<1>4. QED BY <1>3 DEF QueueOf

\* A queue is a sequence of frames, as long as there are unread slots.
LEMMA QueueIsSeq ==
  ASSUME RingInv, NEW c \in Channels
  PROVE  /\ QueueOf(c) \in Seq(Frames)
         /\ Len(QueueOf(c)) = Cardinality(Unread(c))
         /\ \A n \in 1 .. Cardinality(Unread(c)) :
              QueueOf(c)[n] = ring[c][SlotAfter(master_read[c], n - 1, Slots[c])].f
<1> DEFINE N == Cardinality(Unread(c))
<1>1. N \in 0 .. Slots[c] /\ Slots[c] \in Nat
  BY UnreadRun DEF RingInv, TypeOK
<1>2. ASSUME NEW n \in 1 .. N
      PROVE  ring[c][SlotAfter(master_read[c], n - 1, Slots[c])].f \in Frames
  <2>1. PICK k \in Ring(c) : k = n - 1 /\ k < N
    BY <1>1 DEF Ring
  <2>2. PICK i \in Unread(c) : i = SlotAfter(master_read[c], k, Slots[c])
    BY <2>1, UnreadRun
  <2>3. ring[c][i].f \in Frames
    BY <2>2 DEF RingInv, TypeOK, Unread, FrameOrNull
  <2>4. QED BY <2>1, <2>2, <2>3
<1> HIDE DEF N
<1>3. QueueOf(c) = [n \in 1 .. N |-> ring[c][SlotAfter(master_read[c], n - 1, Slots[c])].f]
  BY DEF QueueOf, N
<1>4. QueueOf(c) \in Seq(Frames) /\ Len(QueueOf(c)) = N
  BY <1>1, <1>2, <1>3
<1>5. QED BY <1>3, <1>4 DEF N

LEMMA ReadOff == IInv => RefInv
<1> SUFFICES ASSUME IInv PROVE RefInv
  OBVIOUS
<1>1. OneOwner /\ RingInv
  BY DEF IInv, OwnerInv
<1>2. OwnersSound
  BY <1>1, OwnerIs DEF OwnersSound
<1>3. QueuesSound
  BY <1>1, QueueIsSeq DEF QueuesSound
<1>4. QED BY <1>2, <1>3 DEF RefInv

\* Sequences are told by their lengths and members.
LEMMA AppendIs ==
  ASSUME NEW S, NEW s \in Seq(S), NEW t \in Seq(S), NEW e \in S,
         Len(t) = Len(s) + 1, t[Len(s) + 1] = e,
         \A n \in 1 .. Len(s) : t[n] = s[n]
  PROVE  t = Append(s, e)
OBVIOUS

LEMMA TailIs ==
  ASSUME NEW S, NEW s \in Seq(S), NEW t \in Seq(S),
         Len(s) = Len(t) + 1, \A n \in 1 .. Len(t) : t[n] = s[n + 1]
  PROVE  s # <<>> /\ t = Tail(s)
OBVIOUS

\* deliver_frame puts its frame at the end of the queue.
LEMMA QueueDelivered ==
  ASSUME RefInv, RefInv', NEW c \in Channels, DeliverFrame(c)
  PROVE  QueueOf(c)' = Append(QueueOf(c), captured[c])
<1>1. RingInv
  BY DEF RefInv, IInv
<1> DEFINE cur == slave_cur[c]  rd == master_read[c]
           N == Cardinality(Unread(c))
<1>2. /\ ring' = [ring EXCEPT ![c][cur] = [f |-> captured[c], pending |-> FALSE]]
      /\ UNCHANGED master_read /\ captured[c] # NoFrame
  BY DEF DeliverFrame
<1>3. captured[c] \in Frames /\ cur \in Ring(c) /\ rd \in Ring(c) /\ Slots[c] \in Nat \ {0}
  BY <1>1, <1>2 DEF RingInv, TypeOK, FrameOrNull
<1>4. /\ ring'[c][cur].f = captured[c]
      /\ \A i \in Ring(c) : i # cur => ring'[c][i] = ring[c][i]
  BY <1>1, <1>2, <1>3 DEF RingInv, TypeOK
<1>5. Unread(c)' = Unread(c) \cup {cur} /\ cur \notin Unread(c)
  BY <1>1, DeliverShape
<1>6. Cardinality(Unread(c)') = N + 1
  BY <1>5, UnreadFinite, FS_AddElement
<1>7. /\ N \in 0 .. Slots[c]
      /\ SlotAfter(rd, N, Slots[c]) = cur
      /\ \A k \in Ring(c) : k < N => SlotAfter(rd, k, Slots[c]) \in Unread(c)
  BY <1>1, UnreadRun
<1>8. /\ QueueOf(c) \in Seq(Frames) /\ Len(QueueOf(c)) = N
      /\ \A n \in 1 .. N : QueueOf(c)[n] = ring[c][SlotAfter(rd, n - 1, Slots[c])].f
  BY DEF RefInv, QueuesSound
<1>9. /\ QueueOf(c)' \in Seq(Frames) /\ Len(QueueOf(c)') = N + 1
      /\ \A n \in 1 .. N + 1 : QueueOf(c)'[n] = ring'[c][SlotAfter(rd, n - 1, Slots[c])].f
  BY <1>2, <1>6 DEF RefInv, QueuesSound
<1>10. ASSUME NEW n \in 1 .. N PROVE QueueOf(c)'[n] = QueueOf(c)[n]
  <2>1. PICK k \in Ring(c) : k = n - 1 /\ k < N
    BY <1>7 DEF Ring
  <2>2. SlotAfter(rd, k, Slots[c]) \in Unread(c)
    BY <1>7, <2>1
  <2>3. PICK i \in Ring(c) : i # cur /\ i = SlotAfter(rd, n - 1, Slots[c])
    BY <1>5, <2>1, <2>2 DEF Unread
  <2>4. QueueOf(c)'[n] = ring'[c][i].f
    BY <1>7, <1>9, <2>3
  <2>5. QueueOf(c)[n] = ring[c][i].f
    BY <1>8, <2>3
  <2>6. QED BY <1>4, <2>3, <2>4, <2>5
<1>11. QueueOf(c)'[N + 1] = captured[c]
  <2>1. N + 1 \in 1 .. N + 1 /\ (N + 1) - 1 = N
    BY <1>7
  <2>2. QED BY <1>4, <1>7, <1>9, <2>1
<1> HIDE DEF N, cur, rd
<1>12. QED BY <1>3, <1>8, <1>9, <1>10, <1>11, AppendIs

\* exchanger_read takes the first frame of the queue.
LEMMA QueueTaken ==
  ASSUME RefInv, RefInv', TakeDelivered, NEW c \in Channels, c = ex
  PROVE  /\ QueueOf(c) # <<>> /\ QueueOf(c)' = Tail(QueueOf(c))
         /\ Head(QueueOf(c)) = ring[c][master_read[c]].f
<1>1. RingInv
  BY DEF RefInv, IInv
<1> DEFINE rd == master_read[c]
           N == Cardinality(Unread(c))
<1>2. /\ ring' = [ring EXCEPT ![c][rd] = Emptied(@)]
      /\ master_read' = [master_read EXCEPT ![c] = NextSlot(rd, Slots[c])]
      /\ UNCHANGED ex /\ pc = "take"
  BY DEF TakeDelivered
<1>3. ex \in Channels /\ rd \in Ring(c) /\ Slots[c] \in Nat \ {0}
  BY <1>1 DEF RingInv, TypeOK
<1>4. \A i \in Ring(c) : i # rd => ring'[c][i] = ring[c][i]
  BY <1>1, <1>2, <1>3 DEF RingInv, TypeOK
<1>5. Unread(c)' = Unread(c) \ {rd} /\ rd \in Unread(c)
  BY <1>1, <1>2, TakeShape, TakeFindsUnread
<1>6. Cardinality(Unread(c)') = N - 1 /\ N \in Nat
  <2>1. IsFiniteSet(Unread(c))
    BY <1>2, <1>3, UnreadFinite
  <2>2. PICK U : U = Unread(c) /\ IsFiniteSet(U) /\ rd \in U /\ Unread(c)' = U \ {rd}
    BY ONLY <2>1, <1>5
  <2>3. Cardinality(U \ {rd}) = Cardinality(U) - 1
    BY ONLY <2>2, FS_RemoveElement
  <2>4. Cardinality(U) \in Nat
    BY ONLY <2>2, FS_CardinalityType
  <2>5. QED BY ONLY <2>2, <2>3, <2>4
<1>7. N \in 1 .. Slots[c]
  <2>1. N # 0
    BY <1>3, <1>5, UnreadFinite, FS_EmptySet
  <2>2. QED BY <1>1, <1>3, <1>6, <2>1, UnreadRun
<1>8. /\ QueueOf(c) \in Seq(Frames) /\ Len(QueueOf(c)) = N
      /\ \A n \in 1 .. N : QueueOf(c)[n] = ring[c][SlotAfter(rd, n - 1, Slots[c])].f
  BY DEF RefInv, QueuesSound
<1>9. master_read'[c] = NextSlot(rd, Slots[c])
  BY <1>1, <1>2, <1>3 DEF RingInv, TypeOK
<1>10. /\ QueueOf(c)' \in Seq(Frames) /\ Len(QueueOf(c)') = N - 1
       /\ \A n \in 1 .. N - 1 :
            QueueOf(c)'[n] = ring'[c][SlotAfter(NextSlot(rd, Slots[c]), n - 1, Slots[c])].f
  BY <1>6, <1>9 DEF RefInv, QueuesSound
<1>11. ASSUME NEW n \in 1 .. N - 1 PROVE QueueOf(c)'[n] = QueueOf(c)[n + 1]
  <2>1. PICK m \in 1 .. N : m = n + 1 /\ m - 1 = n
    BY <1>7
  <2>2. PICK i \in Ring(c) : i # rd /\ i = SlotAfter(rd, m - 1, Slots[c])
                              /\ i = SlotAfter(NextSlot(rd, Slots[c]), n - 1, Slots[c])
    BY <1>3, <1>7, <2>1 DEF SlotAfter, NextSlot, Ring
  <2>3. QueueOf(c)'[n] = ring'[c][i].f
    BY <1>10, <2>2
  <2>4. QueueOf(c)[m] = ring[c][i].f
    BY <1>8, <2>1, <2>2
  <2>5. QED BY <1>4, <2>1, <2>2, <2>3, <2>4
<1>12. QueueOf(c)[1] = ring[c][rd].f
  <2>1. SlotAfter(rd, 1 - 1, Slots[c]) = rd /\ 1 \in 1 .. N
    BY <1>3, <1>7 DEF SlotAfter, Ring
  <2>2. QED BY <1>8, <2>1
<1> HIDE DEF N, rd
<1>13. QueueOf(c) # <<>> /\ QueueOf(c)' = Tail(QueueOf(c))
  <2>1. Len(QueueOf(c)) = Len(QueueOf(c)') + 1
    BY <1>7, <1>8, <1>10
  <2>2. \A n \in 1 .. Len(QueueOf(c)') : QueueOf(c)'[n] = QueueOf(c)[n + 1]
    BY <1>10, <1>11
  <2>3. QED BY <1>2, <1>8, <1>10, <2>1, <2>2, TailIs
<1>14. QED BY <1>8, <1>12, <1>13 DEF rd

-----------------------------------------------------------------------------
(* Every step of the exchangers is a step of the pool                       *)

\* The places, one by one.
LEMMA StaysPut ==
  ASSUME NEW h \in Frames,
         InHeap(h) => InHeap(h)', IsSpare(h) => IsSpare(h)',
         InUse(h) => InUse(h)', IsLost(h) => IsLost(h)',
         \A c \in Channels : captured[c] = h => captured'[c] = h,
         \A c \in Channels : \A i \in Unread(c) :
           ring[c][i].f = h => i \in Unread(c)' /\ ring'[c][i].f = h,
         \A c \in Channels : \A i \in Empty(c) :
           ring[c][i].f = h => i \in Empty(c)' /\ ring'[c][i].f = h
  PROVE  Stays(h)
BY DEF Stays, PointsTo

\* A step that moves no frame and no queue is none of the pool's.
LEMMA PoolStays ==
  ASSUME RefInv, RefInv', \A g \in Frames : Stays(g),
         \A c \in Channels : QueueOf(c)' = QueueOf(c)
  PROVE  UNCHANGED Pool!poolVars
<1>1. \A g \in Frames : OwnerOf(g)' = OwnerOf(g)
  BY OwnerKept DEF RefInv, IInv, OwnerInv
<1>2. QED BY <1>1 DEF Pool!poolVars

\* One that touches neither rings nor hands keeps all that is in the channels.
LEMMA ChannelsStay ==
  ASSUME RefInv, RefInv', UNCHANGED <<ring, master_read>>
  PROVE  /\ \A c \in Channels : QueueOf(c)' = QueueOf(c)
         /\ \A c \in Channels : Unread(c)' = Unread(c) /\ Empty(c)' = Empty(c)
<1>1. \A c \in Channels : Unread(c)' = Unread(c) /\ Empty(c)' = Empty(c)
  BY DEF Unread, Empty
<1>2. \A c \in Channels : QueueOf(c)' = QueueOf(c)
  BY <1>1, QueueKept DEF RefInv, IInv
<1>3. QED BY <1>1, <1>2

\* One place for a frame is where its owner is.
LEMMA OwnerPoints ==
  ASSUME RefInv, NEW g \in Frames
  PROVE  OwnerOf(g) \in Places /\ PointsTo(OwnerOf(g), g)
<1>1. PICK p \in Places : PointsTo(p, g)
  BY OwnerExists DEF RefInv, IInv, OwnerInv
<1>2. QED BY <1>1 DEF RefInv, OwnersSound

\* A ring with a vacant slot has room: every frame of the channel has a slot to
\* itself, the one in the callback's hands that at slave_cur.
LEMMA RoomInChannel ==
  ASSUME RefInv, NEW c \in Channels, NEW w \in Ring(c), IsVacant(c, w)
  PROVE  Cardinality(Pool!InChannel(c)) < Slots[c]
<1> DEFINE S == Ring(c) \ {w}
           T == Pool!InChannel(c)
           h == [i \in S |-> IF ring[c][i].f # NoFrame THEN ring[c][i].f ELSE captured[c]]
<1>1. ASSUME NEW t \in T PROVE \E i \in S : h[i] = t
  <2>1. /\ t \in Frames /\ PointsTo(OwnerOf(t), t) /\ t # NoFrame
        /\ OwnerOf(t) \in {<<"empty", c>>, <<"callback", c>>, <<"queue", c>>}
    BY OwnerPoints DEF Pool!InChannel, Pool!EmptyIn, Pool!FilledBy, Pool!QueuedIn
  <2>2. CASE OwnerOf(t) \in {<<"empty", c>>, <<"queue", c>>}
    <3>1. \E i \in Ring(c) : ring[c][i].f = t
      BY <2>1, <2>2, PlacesDiffer DEF PointsTo, Unread, Empty
    <3>2. PICK i \in Ring(c) : ring[c][i].f = t
      BY <3>1
    <3>3. i # w
      BY <2>1, <3>2 DEF IsVacant
    <3>4. QED BY <2>1, <3>2, <3>3
  <2>3. CASE OwnerOf(t) = <<"callback", c>>
    <3>1. captured[c] = t
      BY <2>1, <2>3, PlacesDiffer DEF PointsTo
    <3>2. /\ slave_cur[c] \in Ring(c) /\ IsPending(c, slave_cur[c])
          /\ ring[c][slave_cur[c]].f = NoFrame
      BY <2>1, <3>1 DEF RefInv, IInv, RingInv, TypeOK, BorrowedShape
    <3>3. slave_cur[c] \in S
      BY <3>2 DEF IsVacant, IsPending
    <3>4. QED BY <3>1, <3>2, <3>3
  <2>4. QED BY <2>1, <2>2, <2>3
<1>2. IsFiniteSet(Ring(c)) /\ Cardinality(Ring(c)) = Slots[c]
  <2>1. Slots[c] \in Nat \ {0}
    OBVIOUS
  <2>2. PICK m \in Int : m = Slots[c] - 1
    BY <2>1
  <2>3. IsFiniteSet(0 .. m) /\ Cardinality(0 .. m) = Slots[c] - 0
    BY <2>1, <2>2, IntervalSize, SMTT(30)
  <2>4. QED BY <2>1, <2>2, <2>3 DEF Ring
<1>3. IsFiniteSet(S) /\ Cardinality(S) = Slots[c] - 1
  BY <1>2, FS_RemoveElement
<1> HIDE DEF h, T, S
<1>4. IsFiniteSet(T) /\ Cardinality(T) <= Cardinality(S)
  BY <1>1, <1>3, ImageBound
<1>5. Cardinality(T) \in Nat /\ Slots[c] \in Nat
  BY <1>4, FS_CardinalityType
<1>6. QED BY <1>3, <1>4, <1>5 DEF T

\* exchange_frame at a vacant slot moves nothing but the frame it is given.
LEMMA ExchangePlaces ==
  ASSUME RefInv, NEW c \in Channels, IsVacant(c, master_write[c]),
         NEW g \in FrameOrNull, ExchangeFrame(c, g)
  PROVE  /\ UNCHANGED <<master_read, lost>>
         /\ \A d \in Channels :
              /\ Unread(d)' = Unread(d)
              /\ \A i \in Unread(d) : ring'[d][i].f = ring[d][i].f
              /\ \A i \in Empty(d) : i \in Empty(d)' /\ ring'[d][i].f = ring[d][i].f
         /\ g # NoFrame => \E i \in Empty(c)' : ring'[c][i].f = g
<1> DEFINE w == master_write[c]
<1>1. /\ ring' = [ring EXCEPT ![c][w] = [f |-> g, pending |-> TRUE]]
      /\ UNCHANGED <<master_read, lost>>
  BY DEF ExchangeFrame, IsVacant
<1>2. TypeOK /\ w \in Ring(c) /\ ring[c][w].f = NoFrame
  BY DEF RefInv, IInv, RingInv, TypeOK, IsVacant
<1>3. /\ ring'[c][w] = [f |-> g, pending |-> TRUE]
      /\ \A d \in Channels : \A i \in Ring(d) :
           d # c \/ i # w => ring'[d][i] = ring[d][i]
  BY <1>1, <1>2 DEF TypeOK
<1> HIDE DEF w
<1>4. \A d \in Channels : \A i : i \in Unread(d)' <=> i \in Unread(d)
  BY <1>2, <1>3 DEF Unread
<1>5. \A d \in Channels : \A i \in Unread(d) : ring'[d][i].f = ring[d][i].f
  BY <1>2, <1>3 DEF Unread
<1>6. \A d \in Channels : \A i \in Empty(d) : i \in Empty(d)' /\ ring'[d][i].f = ring[d][i].f
  BY <1>2, <1>3 DEF Empty
<1>7. g # NoFrame => w \in Empty(c)' /\ ring'[c][w].f = g
  BY <1>2, <1>3 DEF Empty
<1>8. \A d \in Channels : Unread(d)' = Unread(d)
  BY <1>4
<1>9. QED BY <1>1, <1>5, <1>6, <1>7, <1>8

\* A step of the pool is a move of one frame that changes its owner.
PoolStep == [Pool!PoolNext]_(Pool!poolVars)

\* The move of a frame, with the queues as they were.
LEMMA PoolMovesOnly ==
  ASSUME RefInv, RefInv', NEW g \in Frames,
         NEW from \in Places, NEW to \in Places, from # to, Moved(g, from, to),
         \A h \in Frames : h # g => Stays(h),
         \A c \in Channels : QueueOf(c)' = QueueOf(c)
  PROVE  /\ Pool!Move(g, from, to)
         /\ UNCHANGED [c \in Channels |-> QueueOf(c)]
         /\ g \in {h \in Frames : [x \in Frames |-> OwnerOf(x)]'[h] # [x \in Frames |-> OwnerOf(x)][h]}
<1>1. Pool!Move(g, from, to) /\ OwnerOf(g) = from /\ OwnerOf(g)' = to
  BY PoolMoves DEF RefInv, IInv, OwnerInv
<1>2. QED BY <1>1

\* get_next_frame: an empty frame goes to the callback.
LEMMA GetIsPool ==
  ASSUME RefInv, RefInv', NEW c \in Channels, GetNextFrame(c)
  PROVE  PoolStep
<1> DEFINE cur == slave_cur[c]
<1> PICK g : g = ring[c][cur].f
  OBVIOUS
<1>1. /\ captured[c] = NoFrame
      /\ captured' = [captured EXCEPT ![c] = g]
      /\ ring' = [ring EXCEPT ![c][cur] = Emptied(@)]
      /\ g # NoFrame /\ ring[c][cur].pending
      /\ UNCHANGED <<heapVars, master_read, f, newf, kept, lost>>
  BY DEF GetNextFrame, NextFrame, loopVars
<1>2. TypeOK /\ cur \in Ring(c) /\ RingInv /\ RingDistinct
  BY DEF RefInv, IInv, RingInv, TypeOK, OwnerInv, OneOwner
<1>3. g \in Frames
  BY <1>1, <1>2 DEF TypeOK, FrameOrNull
<1>4. /\ ring'[c][cur].f = NoFrame
      /\ \A d \in Channels : \A i \in Ring(d) :
           d # c \/ i # cur => ring'[d][i] = ring[d][i]
  BY <1>1, <1>2 DEF TypeOK, Emptied
<1>5. /\ captured'[c] = g
      /\ \A d \in Channels : d # c => captured'[d] = captured[d]
  BY <1>1, <1>2 DEF TypeOK
<1>6. \A d \in Channels : Unread(d)' = Unread(d)
  <2>1. Unread(c)' = Unread(c)
    BY <1>2, GetShape
  <2>2. \A d \in Channels : d # c => Unread(d)' = Unread(d)
    BY <1>4 DEF Unread
  <2>3. QED BY <2>1, <2>2
<1>7. \A d \in Channels : \A i \in Unread(d) : ring'[d][i].f = ring[d][i].f
  BY <1>1, <1>4 DEF Unread
<1>8. \A d \in Channels : QueueOf(d)' = QueueOf(d)
  BY <1>1, <1>2, <1>6, <1>7, QueueKept
<1>9. ASSUME NEW h \in Frames, h # g PROVE Stays(h)
  <2>1. \A d \in Channels : \A i \in Empty(d) :
          ring[d][i].f = h => i \in Empty(d)' /\ ring'[d][i].f = h
    BY <1>4, <1>9 DEF Empty
  <2>2. \A d \in Channels : captured[d] = h => captured'[d] = h
    BY <1>1, <1>5
  <2>3. /\ InHeap(h) => InHeap(h)'
        /\ IsSpare(h) => IsSpare(h)'
        /\ InUse(h) => InUse(h)'
        /\ IsLost(h) => IsLost(h)'
    BY <1>1 DEF InHeap, IsSpare, InUse, KeptBy, IsLost, heapVars
  <2>4. \A d \in Channels : \A i \in Unread(d) :
          ring[d][i].f = h => i \in Unread(d)' /\ ring'[d][i].f = h
    BY <1>6, <1>7
  <2>5. QED BY <2>1, <2>2, <2>3, <2>4, StaysPut
<1>10. Moved(g, <<"empty", c>>, <<"callback", c>>)
  <2>1. cur \in Empty(c)
    BY <1>1, <1>2 DEF Empty
  <2>2. PointsTo(<<"empty", c>>, g)
    BY <2>1 DEF PointsTo
  <2>3. PointsTo(<<"callback", c>>, g)'
    BY <1>5 DEF PointsTo
  <2>4. QED BY <2>2, <2>3 DEF Moved
<1>11. <<"empty", c>> \in Places /\ <<"callback", c>> \in Places
  BY DEF Places
<1>12. <<"empty", c>> # <<"callback", c>>
  OBVIOUS
<1>13. Pool!Obtain(g, c)
  BY <1>3, <1>8, <1>9, <1>10, <1>11, <1>12, PoolMovesOnly DEF Pool!Obtain, Pool!EmptyIn, Pool!FilledBy
<1>14. QED
  BY <1>3, <1>8, <1>9, <1>10, <1>11, <1>12, <1>13, PoolMovesOnly DEF PoolStep, Pool!PoolNext

\* A step that moves no frame.
LEMMA IdleIsPool ==
  ASSUME RefInv, RefInv', UNCHANGED <<heapVars, ring, master_read, captured, f, newf, kept, lost>>
  PROVE  PoolStep
<1>1. /\ \A c \in Channels : QueueOf(c)' = QueueOf(c)
      /\ \A c \in Channels : Unread(c)' = Unread(c) /\ Empty(c)' = Empty(c)
  BY ChannelsStay
<1>2. ASSUME NEW h \in Frames PROVE Stays(h)
  <2>1. /\ InHeap(h) => InHeap(h)'
        /\ IsSpare(h) => IsSpare(h)'
        /\ InUse(h) => InUse(h)'
        /\ IsLost(h) => IsLost(h)'
    BY DEF InHeap, IsSpare, InUse, KeptBy, IsLost, heapVars
  <2>2. QED BY <1>1, <2>1, StaysPut
<1>3. QED BY <1>1, <1>2, PoolStays DEF PoolStep

\* exchange_frame at a vacant slot: the queues stay, and so does every frame that
\* does not leave the heap or the loop's hands.
LEMMA ExchangeStays ==
  ASSUME RefInv, RefInv', NEW c \in Channels, IsVacant(c, master_write[c]),
         NEW g \in FrameOrNull, ExchangeFrame(c, g), UNCHANGED captured
  PROVE  /\ \A d \in Channels : QueueOf(d)' = QueueOf(d)
         /\ \A h \in Frames :
              /\ InHeap(h) => InHeap(h)'
              /\ IsSpare(h) => IsSpare(h)'
              /\ InUse(h) => InUse(h)'
              => Stays(h)
         /\ g # NoFrame => PointsTo(<<"empty", c>>, g)'
<1>1. /\ UNCHANGED <<master_read, lost>>
      /\ \A d \in Channels :
           /\ Unread(d)' = Unread(d)
           /\ \A i \in Unread(d) : ring'[d][i].f = ring[d][i].f
           /\ \A i \in Empty(d) : i \in Empty(d)' /\ ring'[d][i].f = ring[d][i].f
      /\ g # NoFrame => \E i \in Empty(c)' : ring'[c][i].f = g
  BY ExchangePlaces
<1>2. \A d \in Channels : QueueOf(d)' = QueueOf(d)
  BY <1>1, QueueKept DEF RefInv, IInv
<1>3. ASSUME NEW h \in Frames, InHeap(h) => InHeap(h)', IsSpare(h) => IsSpare(h)',
             InUse(h) => InUse(h)'
      PROVE  Stays(h)
  <2>1. IsLost(h) => IsLost(h)'
    BY <1>1 DEF IsLost
  <2>2. \A d \in Channels : captured[d] = h => captured'[d] = h
    OBVIOUS
  <2>3. \A d \in Channels : \A i \in Unread(d) :
          ring[d][i].f = h => i \in Unread(d)' /\ ring'[d][i].f = h
    BY <1>1
  <2>4. \A d \in Channels : \A i \in Empty(d) :
          ring[d][i].f = h => i \in Empty(d)' /\ ring'[d][i].f = h
    BY <1>1
  <2>5. QED BY <1>3, <2>1, <2>2, <2>3, <2>4, StaysPut
<1>4. g # NoFrame => PointsTo(<<"empty", c>>, g)'
  BY <1>1 DEF PointsTo
<1>5. QED BY <1>2, <1>3, <1>4

\* An exchange moves a frame from the heap or the loop's hands into the channel.
LEMMA ExchangeLends ==
  ASSUME RefInv, RefInv', NEW c \in Channels, IsVacant(c, master_write[c]),
         NEW g \in Frames, ExchangeFrame(c, g), UNCHANGED captured,
         NEW from \in {<<"heap">>, <<"spare">>}, PointsTo(from, g),
         \A h \in Frames : h # g => /\ InHeap(h) => InHeap(h)'
                                    /\ IsSpare(h) => IsSpare(h)'
                                    /\ InUse(h) => InUse(h)'
  PROVE  PoolStep
<1>1. /\ \A d \in Channels : QueueOf(d)' = QueueOf(d)
      /\ \A h \in Frames : h # g => Stays(h)
      /\ PointsTo(<<"empty", c>>, g)'
  BY ExchangeStays DEF FrameOrNull
<1>2. /\ from \in Places /\ <<"empty", c>> \in Places /\ from # <<"empty", c>>
      /\ Moved(g, from, <<"empty", c>>)
  BY <1>1, PlacesDiffer DEF Places, Moved
<1>3. /\ Pool!Move(g, from, <<"empty", c>>)
      /\ UNCHANGED [d \in Channels |-> QueueOf(d)]
      /\ g \in {h \in Frames : [x \in Frames |-> OwnerOf(x)]'[h] # [x \in Frames |-> OwnerOf(x)][h]}
  BY <1>1, <1>2, PoolMovesOnly
<1>4. Cardinality(Pool!InChannel(c)) < Slots[c]
  <2>1. master_write[c] \in Ring(c)
    BY DEF RefInv, IInv, RingInv, TypeOK
  <2>2. QED BY <2>1, RoomInChannel
<1>5. Pool!Lend(g, c)
  BY <1>3, <1>4 DEF Pool!Lend, Pool!EmptyIn, Pool!Cardinality, Cardinality
<1>6. QED BY <1>3, <1>5 DEF PoolStep, Pool!PoolNext

\* Start-up: a frame of the heap, or none, for the next slot.
LEMMA FillIsPool ==
  ASSUME RefInv, RefInv', NEW c \in Channels, Fill(c)
  PROVE  PoolStep
<1> PICK g : g = Available
  OBVIOUS
<1>1. /\ pc = "boot" /\ filled[c] < Slots[c] /\ TakeFromHeap
      /\ ExchangeFrame(c, g)
      /\ UNCHANGED <<captured, f, newf, kept>>
  BY DEF Fill, loopVars
<1>2. IsVacant(c, master_write[c]) /\ TypeOK /\ HeapDistinct
  <2>1. TypeOK /\ BootShape BY DEF RefInv, IInv, RingInv
  <2>2. master_write[c] = filled[c] /\ master_write[c] \in Ring(c)
    BY <1>1, <2>1 DEF BootShape, TypeOK
  <2>3. filled[c] \in Nat BY <2>1 DEF TypeOK
  <2>4. ~IsPending(c, master_write[c])
    BY <1>1, <2>1, <2>2, <2>3 DEF BootShape
  <2>5. QED BY <1>1, <2>1, <2>2, <2>4 DEF BootShape, RefInv, IInv, OwnerInv, OneOwner
<1>3. \A h \in Frames : /\ IsSpare(h) => IsSpare(h)'
                        /\ InUse(h) => InUse(h)'
  BY <1>1 DEF IsSpare, InUse, KeptBy
<1>4. CASE g = NoFrame
  <2>1. \A h \in Frames : InHeap(h) => InHeap(h)'
    BY <1>1, <1>4 DEF TakeFromHeap, heapVars, InHeap
  <2>2. /\ \A d \in Channels : QueueOf(d)' = QueueOf(d)
        /\ \A h \in Frames : Stays(h)
    BY <1>1, <1>2, <1>3, <1>4, <2>1, ExchangeStays DEF FrameOrNull
  <2>3. QED BY <2>2, PoolStays DEF PoolStep
<1>5. CASE g # NoFrame
  <2>1. /\ g \in Frames /\ InHeap(g)
        /\ \A h \in Frames : InHeap(h)' <=> InHeap(h) /\ h # g
    BY <1>1, <1>2, <1>5, TakeFromHeapOwner
  <2>2. PointsTo(<<"heap">>, g)
    BY <2>1 DEF PointsTo
  <2>3. QED BY <1>1, <1>2, <1>3, <2>1, <2>2, ExchangeLends
<1>6. QED BY <1>4, <1>5

\* get_back_frame's exchange_frame: the new frame goes into the channel.
LEMMA ExchangeIsPool ==
  ASSUME RefInv, RefInv', Exchange
  PROVE  PoolStep
<1> PICK g : g = newf
  OBVIOUS
<1> PICK c : c = ex
  OBVIOUS
<1>1. /\ pc = "exchange" /\ ExchangeFrame(c, g)
      /\ UNCHANGED <<heapVars, captured, f, kept>>
  BY DEF Exchange
<1>2. c \in Channels /\ g \in Frames /\ IsVacant(c, master_write[c])
  BY <1>1 DEF RefInv, IInv, RingInv, TypeOK, LoopShape, FrameOrNull
<1>3. PointsTo(<<"spare">>, g)
  BY DEF PointsTo, IsSpare
<1>4. \A h \in Frames : h # g => /\ InHeap(h) => InHeap(h)'
                                 /\ IsSpare(h) => IsSpare(h)'
                                 /\ InUse(h) => InUse(h)'
  BY <1>1 DEF heapVars, InHeap, IsSpare, InUse, KeptBy
<1>5. QED BY <1>1, <1>2, <1>3, <1>4, ExchangeLends

\* get_back_frame's new_frame: a frame of the heap, or none, is at hand.
LEMMA NewFrameIsPool ==
  ASSUME RefInv, RefInv', NewFrame
  PROVE  PoolStep
<1> PICK g : g = Available
  OBVIOUS
<1>1. /\ pc = "new" /\ TakeFromHeap /\ newf' = g
      /\ UNCHANGED <<ring, master_read, captured, f, kept, lost>>
  BY DEF NewFrame, ringVars
<1>2. newf = NoFrame /\ TypeOK /\ HeapDistinct
  BY <1>1 DEF RefInv, IInv, RingInv, LoopShape, OwnerInv, OneOwner
<1>3. CASE g = NoFrame
  BY <1>1, <1>2, <1>3, IdleIsPool DEF TakeFromHeap
<1>4. CASE g # NoFrame
  <2>1. /\ g \in Frames /\ InHeap(g)
        /\ \A h \in Frames : InHeap(h)' <=> InHeap(h) /\ h # g
    BY <1>1, <1>2, <1>4, TakeFromHeapOwner
  <2>2. /\ \A c \in Channels : QueueOf(c)' = QueueOf(c)
        /\ \A c \in Channels : Unread(c)' = Unread(c) /\ Empty(c)' = Empty(c)
    BY <1>1, ChannelsStay
  <2>3. ASSUME NEW h \in Frames, h # g PROVE Stays(h)
    <3>1. /\ InHeap(h) => InHeap(h)'
          /\ IsSpare(h) => IsSpare(h)'
          /\ InUse(h) => InUse(h)'
          /\ IsLost(h) => IsLost(h)'
      BY <1>1, <1>2, <2>1, <2>3 DEF IsSpare, InUse, KeptBy, IsLost
    <3>2. QED BY <1>1, <2>2, <3>1, StaysPut
  <2>4. Moved(g, <<"heap">>, <<"spare">>)
    BY <1>1, <2>1 DEF Moved, PointsTo, IsSpare
  <2>5. <<"heap">> \in Places /\ <<"spare">> \in Places /\ <<"heap">> # <<"spare">>
    BY DEF Places
  <2>6. /\ Pool!Move(g, <<"heap">>, <<"spare">>)
        /\ UNCHANGED [c \in Channels |-> QueueOf(c)]
        /\ g \in {h \in Frames : [x \in Frames |-> OwnerOf(x)]'[h] # [x \in Frames |-> OwnerOf(x)][h]}
    BY <2>1, <2>2, <2>3, <2>4, <2>5, PoolMovesOnly
  <2>7. Pool!Allocate(g)
    BY <2>6 DEF Pool!Allocate
  <2>8. QED BY <2>6, <2>7 DEF PoolStep, Pool!PoolNext
<1>5. QED BY <1>3, <1>4

\* deliver_frame: the callback's frame goes to the end of the queue.
LEMMA DeliverIsPool ==
  ASSUME RefInv, RefInv', NEW c \in Channels, DeliverFrame(c)
  PROVE  PoolStep
<1> DEFINE cur == slave_cur[c]
<1> PICK g : g = captured[c]
  OBVIOUS
<1>1. /\ g # NoFrame
      /\ ring' = [ring EXCEPT ![c][cur] = [f |-> g, pending |-> FALSE]]
      /\ lost' = [lost EXCEPT ![c] = @ \cup ({ring[c][cur].f} \ {NoFrame})]
      /\ captured' = [captured EXCEPT ![c] = NoFrame]
      /\ UNCHANGED <<heapVars, master_read, f, newf, kept>>
  BY DEF DeliverFrame, loopVars
<1>2. /\ TypeOK /\ RingInv /\ cur \in Ring(c) /\ g \in Frames /\ CallbacksDistinct
      /\ ring[c][cur].f = NoFrame
  BY <1>1 DEF RefInv, IInv, RingInv, TypeOK, FrameOrNull, BorrowedShape, OwnerInv, OneOwner
<1>3. lost' = lost
  BY <1>1, <1>2 DEF TypeOK
<1>4. /\ ring'[c][cur] = [f |-> g, pending |-> FALSE]
      /\ \A d \in Channels : \A i \in Ring(d) :
           d # c \/ i # cur => ring'[d][i] = ring[d][i]
  BY <1>1, <1>2 DEF TypeOK
<1>5. /\ captured'[c] = NoFrame
      /\ \A d \in Channels : d # c => captured'[d] = captured[d]
  BY <1>1, <1>2 DEF TypeOK
<1>6. QueueOf(c)' = Append(QueueOf(c), g)
  BY QueueDelivered
<1>7. \A d \in Channels : d # c => QueueOf(d)' = QueueOf(d)
  <2>1. \A d \in Channels : d # c => /\ Unread(d)' = Unread(d)
                                     /\ \A i \in Unread(d) : ring'[d][i].f = ring[d][i].f
    BY <1>4 DEF Unread
  <2>2. QED BY <1>1, <1>2, <2>1, QueueKept
<1>8. ASSUME NEW h \in Frames, h # g PROVE Stays(h)
  <2>1. /\ InHeap(h) => InHeap(h)'
        /\ IsSpare(h) => IsSpare(h)'
        /\ InUse(h) => InUse(h)'
        /\ IsLost(h) => IsLost(h)'
    BY <1>1, <1>3 DEF InHeap, IsSpare, InUse, KeptBy, IsLost, heapVars
  <2>2. \A d \in Channels : captured[d] = h => captured'[d] = h
    BY <1>5, <1>8
  <2>3. \A d \in Channels : \A i \in Unread(d) :
          ring[d][i].f = h => i \in Unread(d)' /\ ring'[d][i].f = h
    BY <1>2, <1>4 DEF Unread
  <2>4. \A d \in Channels : \A i \in Empty(d) :
          ring[d][i].f = h => i \in Empty(d)' /\ ring'[d][i].f = h
    BY <1>2, <1>4 DEF Empty
  <2>5. QED BY <2>1, <2>2, <2>3, <2>4, StaysPut
<1>9. Moved(g, <<"callback", c>>, <<"queue", c>>)
  <2>1. cur \in Unread(c)' /\ ring'[c][cur].f = g
    BY <1>1, <1>2, <1>4 DEF Unread
  <2>2. PointsTo(<<"callback", c>>, g)
    BY DEF PointsTo
  <2>3. PointsTo(<<"queue", c>>, g)'
    BY <2>1 DEF PointsTo
  <2>4. QED BY <2>2, <2>3 DEF Moved
<1>10. /\ <<"callback", c>> \in Places /\ <<"queue", c>> \in Places
       /\ <<"callback", c>> # <<"queue", c>>
  BY DEF Places
<1>11. /\ Pool!Move(g, <<"callback", c>>, <<"queue", c>>)
       /\ OwnerOf(g) # OwnerOf(g)'
  BY <1>2, <1>8, <1>9, <1>10, PoolMoves DEF RefInv, IInv, OwnerInv
<1>12. [d \in Channels |-> QueueOf(d)'] =
         [[d \in Channels |-> QueueOf(d)] EXCEPT ![c] = Append(@, g)]
  BY <1>6, <1>7
<1>13. Pool!Deliver(g, c)
  BY <1>11, <1>12 DEF Pool!Deliver, Pool!FilledBy, Pool!QueuedIn
<1>14. QED BY <1>2, <1>11, <1>13 DEF PoolStep, Pool!PoolNext

\* A chunk that is given up: the callback's frame is lost.
LEMMA AbandonIsPool ==
  ASSUME RefInv, RefInv', NEW c \in Channels, AbandonFrame(c)
  PROVE  PoolStep
<1> PICK g : g = captured[c]
  OBVIOUS
<1>1. /\ c \in CanFail /\ g # NoFrame
      /\ lost' = [lost EXCEPT ![c] = @ \cup {g}]
      /\ captured' = [captured EXCEPT ![c] = NoFrame]
      /\ UNCHANGED <<heapVars, ring, master_read, f, newf, kept>>
  BY DEF AbandonFrame, loopVars, ringVars
<1>2. TypeOK /\ g \in Frames
  BY <1>1 DEF RefInv, IInv, RingInv, TypeOK, FrameOrNull
<1>3. /\ \A d \in Channels : d # c => captured'[d] = captured[d]
      /\ g \in lost'[c]
      /\ \A d \in Channels : lost[d] \subseteq lost'[d]
  BY <1>1, <1>2 DEF TypeOK
<1>4. /\ \A d \in Channels : QueueOf(d)' = QueueOf(d)
      /\ \A d \in Channels : Unread(d)' = Unread(d) /\ Empty(d)' = Empty(d)
  BY <1>1, ChannelsStay
<1>5. ASSUME NEW h \in Frames, h # g PROVE Stays(h)
  <2>1. /\ InHeap(h) => InHeap(h)'
        /\ IsSpare(h) => IsSpare(h)'
        /\ InUse(h) => InUse(h)'
        /\ IsLost(h) => IsLost(h)'
    BY <1>1, <1>3 DEF InHeap, IsSpare, InUse, KeptBy, IsLost, heapVars
  <2>2. \A d \in Channels : captured[d] = h => captured'[d] = h
    BY <1>3, <1>5
  <2>3. QED BY <1>1, <1>4, <2>1, <2>2, StaysPut
<1>6. Moved(g, <<"callback", c>>, <<"lost">>)
  BY <1>3 DEF Moved, PointsTo, IsLost
<1>7. /\ <<"callback", c>> \in Places /\ <<"lost">> \in Places
      /\ <<"callback", c>> # <<"lost">>
  BY PlacesDiffer DEF Places
<1>8. /\ Pool!Move(g, <<"callback", c>>, <<"lost">>)
      /\ UNCHANGED [d \in Channels |-> QueueOf(d)]
      /\ g \in {h \in Frames : [x \in Frames |-> OwnerOf(x)]'[h] # [x \in Frames |-> OwnerOf(x)][h]}
  BY <1>2, <1>4, <1>5, <1>6, <1>7, PoolMovesOnly
<1>9. Pool!Abandon(g, c)
  BY <1>1, <1>8 DEF Pool!Abandon, Pool!FilledBy
<1>10. QED BY <1>8, <1>9 DEF PoolStep, Pool!PoolNext

\* exchanger_read: the frame that was delivered first is in use.
LEMMA TakeIsPool ==
  ASSUME RefInv, RefInv', TakeDelivered
  PROVE  PoolStep
<1> PICK c : c = ex
  OBVIOUS
<1> DEFINE rd == master_read[c]
<1> PICK g : g = ring[c][rd].f
  OBVIOUS
<1>1. /\ pc = "take" /\ f' = g
      /\ ring' = [ring EXCEPT ![c][rd] = Emptied(@)]
      /\ master_read' = [master_read EXCEPT ![c] = NextSlot(rd, Slots[c])]
      /\ UNCHANGED <<heapVars, captured, newf, kept, lost>>
  BY DEF TakeDelivered
<1>2. c \in Channels /\ TypeOK /\ RingInv /\ f = NoFrame /\ rd \in Ring(c)
  BY <1>1 DEF RefInv, IInv, RingInv, TypeOK, LoopShape
<1>3. rd \in Unread(c) /\ ~ring[c][rd].pending /\ g \in Frames
  <2>1. rd \in Unread(c)
    BY <1>1, <1>2, TakeFindsUnread
  <2>2. QED BY <1>2, <2>1 DEF Unread, TypeOK, FrameOrNull
<1>4. \A d \in Channels : \A i \in Ring(d) :
        d # c \/ i # rd => ring'[d][i] = ring[d][i]
  BY <1>1, <1>2 DEF TypeOK
<1>5. /\ QueueOf(c) # <<>> /\ QueueOf(c)' = Tail(QueueOf(c))
      /\ Head(QueueOf(c)) = g
  BY <1>2, QueueTaken
<1>6. \A d \in Channels : d # c => QueueOf(d)' = QueueOf(d)
  <2>1. \A d \in Channels : d # c => /\ Unread(d)' = Unread(d)
                                     /\ \A i \in Unread(d) : ring'[d][i].f = ring[d][i].f
    BY <1>4 DEF Unread
  <2>2. \A d \in Channels : d # c => master_read'[d] = master_read[d]
    BY <1>1, <1>2 DEF TypeOK
  <2>3. QED BY <1>2, <2>1, <2>2, QueueKept
<1>7. ASSUME NEW h \in Frames, h # g PROVE Stays(h)
  <2>1. /\ InHeap(h) => InHeap(h)'
        /\ IsSpare(h) => IsSpare(h)'
        /\ InUse(h) => InUse(h)'
        /\ IsLost(h) => IsLost(h)'
    BY <1>1, <1>2 DEF InHeap, IsSpare, InUse, KeptBy, IsLost, heapVars
  <2>2. \A d \in Channels : captured[d] = h => captured'[d] = h
    BY <1>1
  <2>3. \A d \in Channels : \A i \in Unread(d) :
          ring[d][i].f = h => i \in Unread(d)' /\ ring'[d][i].f = h
    BY <1>4, <1>7 DEF Unread
  <2>4. \A d \in Channels : \A i \in Empty(d) :
          ring[d][i].f = h => i \in Empty(d)' /\ ring'[d][i].f = h
    BY <1>4, <1>7 DEF Empty
  <2>5. QED BY <2>1, <2>2, <2>3, <2>4, StaysPut
<1>8. Moved(g, <<"queue", c>>, <<"use">>)
  <2>1. PointsTo(<<"queue", c>>, g)
    BY <1>2, <1>3 DEF PointsTo
  <2>2. PointsTo(<<"use">>, g)'
    BY <1>1 DEF PointsTo, InUse
  <2>3. QED BY <2>1, <2>2 DEF Moved
<1>9. /\ <<"queue", c>> \in Places /\ <<"use">> \in Places
      /\ <<"queue", c>> # <<"use">>
  BY <1>2, PlacesDiffer DEF Places
<1>10. /\ Pool!Move(g, <<"queue", c>>, <<"use">>)
       /\ OwnerOf(g) # OwnerOf(g)'
  BY <1>3, <1>7, <1>8, <1>9, PoolMoves DEF RefInv, IInv, OwnerInv
<1>11. [d \in Channels |-> QueueOf(d)'] =
         [[d \in Channels |-> QueueOf(d)] EXCEPT ![c] = Tail(@)]
  BY <1>5, <1>6
<1>12. Pool!Receive(g, c)
  BY <1>2, <1>5, <1>10, <1>11 DEF Pool!Receive, Pool!QueuedIn
<1>13. QED BY <1>2, <1>3, <1>10, <1>12 DEF PoolStep, Pool!PoolNext

\* unref_frame: the frame stays in use, or it was its last user's and is free.
LEMMA UnrefIsPool ==
  ASSUME RefInv, RefInv', NEW g \in Frames, InUse(g), NEW counts, UnrefFrame(g, counts),
         UNCHANGED <<ring, master_read, captured, newf, lost>>,
         \A h \in Frames : h # g /\ InUse(h) => InUse(h)'
  PROVE  PoolStep
<1>1. /\ \A c \in Channels : QueueOf(c)' = QueueOf(c)
      /\ \A c \in Channels : Unread(c)' = Unread(c) /\ Empty(c)' = Empty(c)
  BY ChannelsStay
<1>2. /\ TypeOK /\ HeapShape /\ HeapDistinct /\ ~InHeap(g)
      /\ SingleOwner(g) /\ SingleOwner(g)'
  BY DEF RefInv, IInv, RingInv, OwnerInv, OneOwner, SingleOwner
<1>3. ASSUME NEW h \in Frames, InHeap(h) => InHeap(h)', InUse(h) => InUse(h)'
      PROVE  Stays(h)
  <2>1. /\ IsSpare(h) => IsSpare(h)'
        /\ IsLost(h) => IsLost(h)'
    BY DEF IsSpare, IsLost
  <2>2. QED BY <1>1, <1>3, <2>1, StaysPut
<1>4. CASE UNCHANGED heapVars
  <2>1. \A h \in Frames : InHeap(h)' <=> InHeap(h)
    BY <1>4 DEF heapVars, InHeap
  <2>2. InUse(g)'
    <3>1. /\ InRing(g)' <=> InRing(g)
          /\ InCallback(g)' <=> InCallback(g)
          /\ IsSpare(g)' <=> IsSpare(g)
          /\ IsLost(g)' <=> IsLost(g)
      BY DEF InRing, InCallback, IsSpare, IsLost
    <3>2. ~InRing(g) /\ ~InCallback(g) /\ ~IsSpare(g) /\ ~IsLost(g)
      BY <1>2 DEF SingleOwner
    <3>3. QED BY <1>2, <2>1, <3>1, <3>2 DEF SingleOwner
  <2>3. \A h \in Frames : Stays(h)
    BY <1>3, <2>1, <2>2
  <2>4. QED BY <1>1, <2>3, PoolStays DEF PoolStep
<1>5. CASE PutBack(g)
  <2>1. \A h \in Frames : InHeap(h)' <=> InHeap(h) \/ h = g
    BY <1>2, <1>5, PutBackOwner
  <2>2. \A h \in Frames : h # g => Stays(h)
    BY <1>3, <2>1
  <2>3. Moved(g, <<"use">>, <<"heap">>)
    BY <2>1 DEF Moved, PointsTo
  <2>4. <<"use">> \in Places /\ <<"heap">> \in Places /\ <<"use">> # <<"heap">>
    BY DEF Places
  <2>5. /\ Pool!Move(g, <<"use">>, <<"heap">>)
        /\ UNCHANGED [c \in Channels |-> QueueOf(c)]
        /\ g \in {h \in Frames : [x \in Frames |-> OwnerOf(x)]'[h] # [x \in Frames |-> OwnerOf(x)][h]}
    BY <1>1, <2>2, <2>3, <2>4, PoolMovesOnly
  <2>6. Pool!Free(g)
    BY <2>5 DEF Pool!Free
  <2>7. QED BY <2>5, <2>6 DEF PoolStep, Pool!PoolNext
<1>6. QED BY <1>4, <1>5 DEF UnrefFrame

\* The end of get_back_frame.
LEMMA ReleaseIsPool ==
  ASSUME RefInv, RefInv', Release
  PROVE  PoolStep
<1> PICK g : g = f
  OBVIOUS
<1> PICK counts : counts = ref_count
  OBVIOUS
<1>1. /\ pc = "deliver" /\ UnrefFrame(g, counts) /\ f' = NoFrame
      /\ UNCHANGED <<ring, master_read, captured, newf, kept, lost>>
  BY DEF Release, ringVars
<1>2. g \in Frames /\ InUse(g)
  BY <1>1 DEF RefInv, IInv, RingInv, TypeOK, LoopShape, FrameOrNull, InUse
<1>3. \A h \in Frames : h # g /\ InUse(h) => InUse(h)'
  BY <1>1 DEF InUse, KeptBy
<1>4. QED BY <1>1, <1>2, <1>3, UnrefIsPool

\* A location keeps the frame and releases the one it kept.
LEMMA KeepIsPool ==
  ASSUME RefInv, RefInv', NEW k \in Keepers, Keep(k)
  PROVE  PoolStep
<1> PICK g : g = kept[k]
  OBVIOUS
<1> PICK counts : counts = [ref_count EXCEPT ![f] = @ + 1]
  OBVIOUS
<1>1. /\ k \in todo /\ kept' = [kept EXCEPT ![k] = f]
      /\ IF g = NoFrame THEN UNCHANGED heapVars ELSE UnrefFrame(g, counts)
      /\ UNCHANGED <<ring, master_read, captured, f, newf, lost>>
  BY DEF Keep, ringVars
<1>2. TypeOK
  BY DEF RefInv, IInv, RingInv
<1>3. \A j \in Keepers : j # k => kept'[j] = kept[j]
  BY <1>1, <1>2 DEF TypeOK
<1>4. \A h \in Frames : h # g /\ InUse(h) => InUse(h)'
  BY <1>1, <1>3 DEF InUse, KeptBy
<1>5. CASE g # NoFrame
  <2>1. g \in Frames /\ InUse(g)
    BY <1>2, <1>5 DEF TypeOK, FrameOrNull, InUse, KeptBy
  <2>2. QED BY <1>1, <1>4, <1>5, <2>1, UnrefIsPool
<1>6. CASE g = NoFrame
  <2>1. /\ \A c \in Channels : QueueOf(c)' = QueueOf(c)
        /\ \A c \in Channels : Unread(c)' = Unread(c) /\ Empty(c)' = Empty(c)
    BY <1>1, ChannelsStay
  <2>2. ASSUME NEW h \in Frames PROVE Stays(h)
    <3>1. /\ InHeap(h) => InHeap(h)'
          /\ IsSpare(h) => IsSpare(h)'
          /\ InUse(h) => InUse(h)'
          /\ IsLost(h) => IsLost(h)'
      BY <1>1, <1>4, <1>6 DEF InHeap, IsSpare, IsLost, heapVars
    <3>2. QED BY <1>1, <2>1, <3>1, StaysPut
  <2>3. QED BY <2>1, <2>2, PoolStays DEF PoolStep
<1>7. QED BY <1>5, <1>6

\* Every step of the exchangers moves one frame of the pool, or none.
LEMMA StepIsPool ==
  ASSUME RefInv, RefInv', [Next]_vars
  PROVE  PoolStep
<1>1. CASE \E c \in Channels : Fill(c)
  BY <1>1, FillIsPool
<1>2. CASE StartLoop \/ Select \/ Dispatch \/ ReadByte
  <2>1. UNCHANGED <<heapVars, ring, master_read, captured, f, newf, kept, lost>>
    BY <1>2 DEF StartLoop, Select, Dispatch, ReadByte, ringVars
  <2>2. QED BY <2>1, IdleIsPool
<1>3. CASE TakeDelivered
  BY <1>3, TakeIsPool
<1>4. CASE NewFrame
  BY <1>4, NewFrameIsPool
<1>5. CASE Exchange
  BY <1>5, ExchangeIsPool
<1>6. CASE \E k \in Keepers : Keep(k)
  BY <1>6, KeepIsPool
<1>7. CASE Release
  BY <1>7, ReleaseIsPool
<1>8. CASE \E c \in Channels : Capture(c)
  BY <1>8, GetIsPool, DeliverIsPool, AbandonIsPool DEF Capture
<1>9. CASE UNCHANGED vars
  <2>1. UNCHANGED <<heapVars, ring, master_read, captured, f, newf, kept, lost>>
    BY <1>9 DEF vars, ringVars, loopVars
  <2>2. QED BY <2>1, IdleIsPool
<1>10. QED
  BY <1>1, <1>2, <1>3, <1>4, <1>5, <1>6, <1>7, <1>8, <1>9 DEF Next, Boot, Loop

\* At first every frame is in the heap and no queue has any.
LEMMA InitIsPool == Init => Pool!PoolInit
<1> SUFFICES ASSUME Init PROVE Pool!PoolInit
  OBVIOUS
<1>1. RefInv
  BY InitIInv, ReadOff
<1>2. \A g \in Frames : OwnerOf(g) = <<"heap">>
  <2> TAKE g \in Frames
  <2>1. PointsTo(<<"heap">>, g) /\ <<"heap">> \in Places
    BY DEF Init, PointsTo, InHeap, Frames, Places
  <2>2. QED BY <1>1, <2>1 DEF RefInv, OwnersSound
<1>3. \A c \in Channels : QueueOf(c) = <<>>
  <2> TAKE c \in Channels
  <2>1. Unread(c) = {}
    BY DEF Init, Unread
  <2>2. Cardinality(Unread(c)) = 0
    BY <2>1, FS_EmptySet
  <2>3. QueueOf(c) \in Seq(Frames) /\ Len(QueueOf(c)) = 0
    BY <1>1, <2>2 DEF RefInv, QueuesSound
  <2>4. QED BY <2>3
<1>4. QED BY <1>2, <1>3 DEF Pool!PoolInit

\* Rings, pointers, pipes and counts together do what FramePool says, for any
\* inputs, ring lengths, heap and keepers: one owner per frame, and frames in use
\* in the order in which they were delivered.
THEOREM FramePoolImplemented == Spec => ImplementsFramePool
<1>1. Init => Pool!PoolInit
  BY InitIsPool
<1>2. IInv => RefInv
  BY ReadOff
<1>3. RefInv /\ RefInv' /\ [Next]_vars => [Pool!PoolNext]_(Pool!poolVars)
  BY StepIsPool DEF PoolStep
<1>4. QED
  BY <1>1, <1>2, <1>3, InductiveInvariant, PTL DEF Spec, ImplementsFramePool, Pool!PoolSpec

=============================================================================
