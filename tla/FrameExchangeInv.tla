-------------------------- MODULE FrameExchangeInv --------------------------
(***************************************************************************)
(* The inductive invariant of FrameExchange.                               *)
(***************************************************************************)
EXTENDS FrameExchange

\* i is one of the slots from a up to, and not including, b, going round.
Arc(a, b, i) == IF a < b THEN a <= i /\ i < b ELSE a <= i \/ i < b

\* The full slots of the heap run from take to put.
HeapShape ==
  LET take == frame_heap_take  put == frame_heap_put IN
  IF take # put
    THEN \A i \in HeapSlots : heap[i] # NoFrame <=> Arc(take, put, i)
    ELSE \/ \A i \in HeapSlots : heap[i] # NoFrame
         \/ \A i \in HeapSlots : heap[i] = NoFrame

IsPending(c, i) == ring[c][i].pending
IsUnread(c, i)  == ~ring[c][i].pending /\ ring[c][i].f # NoFrame
IsVacant(c, i)  == ~ring[c][i].pending /\ ring[c][i].f = NoFrame

\* The pending slots of a ring run from slave_cur to master_write, the unread
\* ones from master_read to slave_cur, the vacant ones from master_write to
\* master_read.
RingShapeOf(c) ==
  LET cur == slave_cur[c]  rd == master_read[c]  wr == master_write[c] IN
  /\ IF cur # wr
       THEN \A i \in Ring(c) : IsPending(c, i) <=> Arc(cur, wr, i)
       ELSE \/ \A i \in Ring(c) : IsPending(c, i)
            \/ \A i \in Ring(c) : ~IsPending(c, i)
  /\ IF rd # cur
       THEN \A i \in Ring(c) : IsUnread(c, i) <=> Arc(rd, cur, i)
       ELSE \/ \A i \in Ring(c) : IsUnread(c, i)
            \/ \A i \in Ring(c) : ~IsUnread(c, i)
  /\ IF wr # rd
       THEN \A i \in Ring(c) : IsVacant(c, i) <=> Arc(wr, rd, i)
       ELSE \/ \A i \in Ring(c) : IsVacant(c, i)
            \/ \A i \in Ring(c) : ~IsVacant(c, i)

RingShape == \A c \in Channels : RingShapeOf(c)

\* While end_block fills a ring nothing has been captured into it.
BootShape ==
  /\ \A c \in Channels : filled[c] <= Slots[c]
  /\ pc # "boot" => \A c \in Channels : filled[c] = Slots[c]
  /\ \A c \in Channels :
       filled[c] < Slots[c] =>
         /\ slave_cur[c] = 0 /\ master_read[c] = 0 /\ pipe[c] = 0
         /\ master_write[c] = filled[c]
         /\ captured[c] = NoFrame
         /\ \A i \in Ring(c) : /\ IsPending(c, i) <=> i < filled[c]
                               /\ ~IsPending(c, i) => IsVacant(c, i)

\* What the event loop holds at each place of exchanger_read and get_back_frame.
LoopShape ==
  /\ newf # NoFrame <=> pc = "exchange"
  /\ f # NoFrame <=> pc \in {"new", "exchange", "deliver"}
  /\ todo # {} => pc = "deliver"
  /\ pc \in {"new", "exchange"} => IsVacant(ex, master_write[ex])

\* The slot a callback has emptied is still the slave's.
BorrowedShape ==
  \A c \in Channels :
    captured[c] # NoFrame =>
      IsPending(c, slave_cur[c]) /\ ring[c][slave_cur[c]].f = NoFrame

RingInv == /\ TypeOK /\ RingShape /\ BootShape /\ LoopShape /\ BorrowedShape
           /\ PipeMatchesRing

OwnerInv == HeapShape /\ OneOwner /\ RefCountExact /\ HeapNeverStuck /\ NothingLost

IInv == RingInv /\ OwnerInv

-----------------------------------------------------------------------------
(* Enough frames for everybody                                              *)

AllSlots == UNION {{c} \X Ring(c) : c \in Channels}

\* The FrameHeap directive asks for a frame per slot, one per location that
\* keeps its last frame, and the one the event loop has in hand.
HeapCovers ==
  /\ IsFiniteSet(Channels)
  /\ HeapCount > Cardinality(AllSlots) + Cardinality(Keepers)

\* A chunk that is given up leaves the slave's slot pending and empty for good,
\* so that a channel loses no second frame.
LostShape ==
  \A c \in Channels :
    lost[c] # {} =>
      /\ captured[c] = NoFrame
      /\ IsPending(c, slave_cur[c]) /\ ring[c][slave_cur[c]].f = NoFrame
      /\ \A g, h \in lost[c] : g = h

\* The slots without a frame: those still to be filled at start-up, the one for
\* which the loop has yet to hand over a frame, and the slave's own.
FullShape ==
  \A c \in Channels : \A i \in Ring(c) :
    /\ IsVacant(c, i) => \/ filled[c] <= i
                         \/ pc \in {"new", "exchange"} /\ ex = c /\ i = master_write[c]
    /\ IsPending(c, i) /\ ring[c][i].f = NoFrame =>
         i = slave_cur[c] /\ (captured[c] # NoFrame \/ lost[c] # {})

SupplyInv == IInv /\ LostShape /\ FullShape

=============================================================================
