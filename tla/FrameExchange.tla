---------------------------- MODULE FrameExchange ----------------------------
(***************************************************************************)
(* The frame heap and the frame exchangers of src/frame.c, with the        *)
(* threads that use them.                                                  *)
(*                                                                         *)
(* The heap is a ring of HeapCount slots, all full at first.  new_frame    *)
(* takes a frame at frame_heap_take, unref_frame puts it back at           *)
(* frame_heap_put.  Every input channel has an exchanger: a ring of        *)
(* Slots[c] slots through which the event loop (the master) hands empty    *)
(* frames to a capture thread (the slave) and receives them back filled,   *)
(* one byte in a pipe per delivered frame.                                 *)
(*                                                                         *)
(* An action is what happens under one mutex, or, for the event loop,      *)
(* between two of them.  The slots' f and pending fields and the pointers  *)
(* keep their names; a pointer is the index of the slot it points to.      *)
(***************************************************************************)
EXTENDS Integers, FiniteSets

CONSTANTS
  Channels,     \* the inputs, each with its exchanger and its capture thread
  Slots,        \* Slots[c]: the length of c's ring, the "framerate" of input c
  HeapCount,    \* the count of the FrameHeap directive
  Keepers,      \* HTTP locations: destinations that keep the last frame
  Source,       \* Source[k]: the channel whose stream k is connected to
  CanFail,      \* channels whose callback may give up on a chunk (audio)
  NoFrame       \* the NULL frame pointer

ASSUME SlotsAssumption   == Slots \in [Channels -> Nat \ {0}]
ASSUME HeapAssumption    == HeapCount \in Nat \ {0}
ASSUME KeepersAssumption == /\ IsFiniteSet(Keepers)
                            /\ Source \in [Keepers -> Channels]
ASSUME CanFailAssumption == CanFail \subseteq Channels

HeapSlots == 0 .. HeapCount - 1
Ring(c)   == 0 .. Slots[c] - 1

\* Frame i is the one init_frame_heap allocates together with heap slot i.
Frames == HeapSlots

ASSUME NoFrameAssumption == NoFrame \notin Frames

FrameOrNull == Frames \cup {NoFrame}

VARIABLES
  heap,             \* heap[i]: the frame in heap slot i
  frame_heap_take, frame_heap_put,
  heapStuck,        \* unref_frame returned with frame_heap_mutex locked
  ref_count,        \* ref_count[f] of every frame
  ring,             \* ring[c][i]: slot i of channel c's exchanger
  slave_cur, master_read, master_write,
  pipe,             \* pipe[c]: bytes written and not yet read
  filled,           \* filled[c]: slots end_block has gone through at start-up
  captured,         \* captured[c]: the frame in the hands of c's callback
  pc,               \* where the event-loop thread is
  ready,            \* the exchangers select() found readable, not yet served
  ex,               \* the exchanger whose exchanger_read runs
  f, newf,          \* the frames exchanger_read and get_back_frame hold
  todo,             \* waiting keepers deliver_frame_to_stream has yet to serve
  kept,             \* kept[k]: loc->frame of location k
  lost              \* lost[c]: frames whose last pointer channel c overwrote

heapVars == <<heap, frame_heap_take, frame_heap_put, heapStuck>>
ringVars == <<ring, slave_cur, master_read, master_write, pipe>>
loopVars == <<pc, ready, ex, f, newf, todo>>
vars == <<heapVars, ref_count, ringVars, filled, captured, loopVars, kept, lost>>

Locations ==
  {"boot", "select", "dispatch", "read", "take", "new", "exchange", "deliver"}

\* (A name that ends in _ and a word is a wrong version of the definition that
\* follows it: a plausible slip, with which some property must fail.)

\* slot->next, in the heap and in an exchanger.
NextSlot(i, n) == IF i = n - 1 THEN 0 ELSE i + 1

TypeOK ==
  /\ heap \in [HeapSlots -> FrameOrNull]
  /\ frame_heap_take \in HeapSlots /\ frame_heap_put \in HeapSlots
  /\ heapStuck \in BOOLEAN
  /\ ref_count \in [Frames -> Int]
  /\ DOMAIN ring = Channels
  /\ \A c \in Channels : ring[c] \in [Ring(c) -> [f : FrameOrNull, pending : BOOLEAN]]
  /\ slave_cur \in [Channels -> Nat]
  /\ master_read \in [Channels -> Nat]
  /\ master_write \in [Channels -> Nat]
  /\ \A c \in Channels : /\ slave_cur[c] \in Ring(c)
                          /\ master_read[c] \in Ring(c)
                          /\ master_write[c] \in Ring(c)
  /\ pipe \in [Channels -> Nat]
  /\ filled \in [Channels -> Nat]
  /\ captured \in [Channels -> FrameOrNull]
  /\ pc \in Locations
  /\ ready \in SUBSET Channels
  /\ ex \in Channels
  /\ f \in FrameOrNull /\ newf \in FrameOrNull
  /\ todo \in SUBSET Keepers
  /\ kept \in [Keepers -> FrameOrNull]
  /\ lost \in [Channels -> SUBSET Frames]

-----------------------------------------------------------------------------
(* The heap: new_frame and unref_frame                                      *)

\* The frame new_frame returns, NULL when the slot at take is empty.
Available == heap[frame_heap_take]

TakeFromHeap_NotCleared ==
  /\ frame_heap_take' = NextSlot(frame_heap_take, HeapCount)
  /\ ref_count' = [ref_count EXCEPT ![Available] = 1]
  /\ UNCHANGED <<heap, frame_heap_put, heapStuck>>

TakeFromHeap ==
  IF Available = NoFrame
    THEN UNCHANGED <<heapVars, ref_count>>
    ELSE /\ heap' = [heap EXCEPT ![frame_heap_take] = NoFrame]
         /\ frame_heap_take' = NextSlot(frame_heap_take, HeapCount)
         /\ ref_count' = [ref_count EXCEPT ![Available] = 1]
         /\ UNCHANGED <<frame_heap_put, heapStuck>>

\* The tail of unref_frame, for a frame whose count has dropped to zero.  When
\* the slot at put is occupied it warns and returns without unlocking.
PutBack(g) ==
  IF heap[frame_heap_put] # NoFrame
    THEN /\ heapStuck' = TRUE
         /\ UNCHANGED <<heap, frame_heap_take, frame_heap_put>>
    ELSE /\ heap' = [heap EXCEPT ![frame_heap_put] = g]
         /\ frame_heap_put' = NextSlot(frame_heap_put, HeapCount)
         /\ UNCHANGED <<frame_heap_take, heapStuck>>

UnrefFrame_Early(g, counts) ==
  /\ ref_count' = [counts EXCEPT ![g] = @ - 1]
  /\ IF counts[g] - 1 > 1 THEN UNCHANGED heapVars ELSE ~heapStuck /\ PutBack(g)

\* unref_frame, given the counts its caller has already changed.
UnrefFrame(g, counts) ==
  /\ ref_count' = [counts EXCEPT ![g] = @ - 1]
  /\ IF counts[g] - 1 > 0
       THEN UNCHANGED heapVars
       ELSE ~heapStuck /\ PutBack(g)

-----------------------------------------------------------------------------
(* The exchanger, master side: exchange_frame                               *)

\* Hands g (or NULL, at start-up) to the slave.  On a full ring exchange_frame
\* returns -1, which every caller ignores: the frame has no owner any more.
ExchangeFrame(c, g) ==
  LET w == master_write[c] IN
  IF ring[c][w].f # NoFrame
    THEN /\ lost' = [lost EXCEPT ![c] = @ \cup ({g} \ {NoFrame})]
         /\ UNCHANGED ringVars
    ELSE /\ ring' = [ring EXCEPT ![c][w] = [f |-> g, pending |-> TRUE]]
         /\ master_write' = [master_write EXCEPT ![c] = NextSlot(w, Slots[c])]
         /\ UNCHANGED <<slave_cur, master_read, pipe, lost>>

-----------------------------------------------------------------------------
(* Start-up                                                                 *)

Init ==
  /\ heap = [i \in HeapSlots |-> i]
  /\ frame_heap_take = 0 /\ frame_heap_put = 0
  /\ heapStuck = FALSE
  /\ ref_count = [g \in Frames |-> 0]
  /\ ring = [c \in Channels |-> [i \in Ring(c) |-> [f |-> NoFrame, pending |-> FALSE]]]
  /\ slave_cur = [c \in Channels |-> 0]
  /\ master_read = [c \in Channels |-> 0]
  /\ master_write = [c \in Channels |-> 0]
  /\ pipe = [c \in Channels |-> 0]
  /\ filled = [c \in Channels |-> 0]
  /\ captured = [c \in Channels |-> NoFrame]
  /\ pc = "boot"
  /\ ready = {}
  /\ ex \in Channels
  /\ f = NoFrame /\ newf = NoFrame
  /\ todo = {}
  /\ kept = [k \in Keepers |-> NoFrame]
  /\ lost = [c \in Channels |-> {}]

\* One turn of end_block's loop: exchange_frame( conf->ex, new_frame() ).
Fill(c) ==
  /\ pc = "boot"
  /\ filled[c] < Slots[c]
  /\ TakeFromHeap
  /\ ExchangeFrame(c, Available)
  /\ filled' = [filled EXCEPT ![c] = @ + 1]
  /\ UNCHANGED <<captured, loopVars, kept>>

\* Every input block is closed: event_loop starts.
StartLoop ==
  /\ pc = "boot"
  /\ \A c \in Channels : filled[c] = Slots[c]
  /\ pc' = "select"
  /\ UNCHANGED <<heapVars, ref_count, ringVars, filled, captured,
                 ready, ex, f, newf, todo, kept, lost>>

-----------------------------------------------------------------------------
(* The exchanger, slave side: a capture callback                            *)

\* slot->f = NULL, which leaves the pending flag alone.
Emptied(slot) == [f |-> NoFrame, pending |-> slot.pending]

\* The frame get_next_frame( ex, 0 ) returns, NULL when none is pending.
NextFrame(c) ==
  LET s == ring[c][slave_cur[c]] IN IF s.pending THEN s.f ELSE NoFrame

\* The callback obtains a frame (without one it drops the chunk and changes
\* nothing).  The slot keeps its pending flag and slave_cur does not move.  The
\* camera may run as soon as c's block is closed, while others are configured.
GetNextFrame(c) ==
  /\ filled[c] = Slots[c]
  /\ captured[c] = NoFrame
  /\ NextFrame(c) # NoFrame
  /\ captured' = [captured EXCEPT ![c] = NextFrame(c)]
  /\ ring' = [ring EXCEPT ![c][slave_cur[c]] = Emptied(@)]
  /\ UNCHANGED <<heapVars, ref_count, slave_cur, master_read, master_write,
                 pipe, filled, loopVars, kept, lost>>

\* deliver_frame: a frame found in the slot is overwritten.
DeliverFrame(c) ==
  LET cur == slave_cur[c] IN
  /\ captured[c] # NoFrame
  /\ ring' = [ring EXCEPT ![c][cur] = [f |-> captured[c], pending |-> FALSE]]
  /\ lost' = [lost EXCEPT ![c] = @ \cup ({ring[c][cur].f} \ {NoFrame})]
  /\ pipe' = [pipe EXCEPT ![c] = @ + 1]
  /\ slave_cur' = [slave_cur EXCEPT ![c] = NextSlot(cur, Slots[c])]
  /\ captured' = [captured EXCEPT ![c] = NoFrame]
  /\ UNCHANGED <<heapVars, ref_count, master_read, master_write, filled,
                 loopVars, kept>>

\* get_audio_chunk_cb returns between get_next_frame and deliver_frame: the
\* codec is unknown, or no memory to decode into.
AbandonFrame(c) ==
  /\ c \in CanFail
  /\ captured[c] # NoFrame
  /\ lost' = [lost EXCEPT ![c] = @ \cup {captured[c]}]
  /\ captured' = [captured EXCEPT ![c] = NoFrame]
  /\ UNCHANGED <<heapVars, ref_count, ringVars, filled, loopVars, kept>>

-----------------------------------------------------------------------------
(* The event-loop thread                                                    *)

Select_AudioFirst ==
  LET readable == {c \in Channels : pipe[c] > 0} IN
  /\ pc = "select"
  /\ ready' = IF readable \cap CanFail # {} THEN readable \cap CanFail ELSE readable
  /\ ready' # {}
  /\ pc' = "dispatch"
  /\ UNCHANGED <<heapVars, ref_count, ringVars, filled, captured,
                 ex, f, newf, todo, kept, lost>>

\* select() returns with the readable pipes.
Select ==
  /\ pc = "select"
  /\ ready' = {c \in Channels : pipe[c] > 0}
  /\ ready' # {}
  /\ pc' = "dispatch"
  /\ UNCHANGED <<heapVars, ref_count, ringVars, filled, captured,
                 ex, f, newf, todo, kept, lost>>

\* The next readable exchanger's callback, or the next turn of event_loop.
Dispatch ==
  /\ pc = "dispatch"
  /\ IF ready = {}
       THEN pc' = "select" /\ UNCHANGED <<ready, ex>>
       ELSE /\ ex' \in ready
            /\ ready' = ready \ {ex'}
            /\ pc' = "read"
  /\ UNCHANGED <<heapVars, ref_count, ringVars, filled, captured,
                 f, newf, todo, kept, lost>>

\* exchanger_read: read( ex->master_fd ), which returns on EAGAIN.
ReadByte ==
  /\ pc = "read"
  /\ IF pipe[ex] = 0
       THEN pc' = "dispatch" /\ UNCHANGED pipe
       ELSE pc' = "take" /\ pipe' = [pipe EXCEPT ![ex] = @ - 1]
  /\ UNCHANGED <<heapVars, ref_count, ring, slave_cur, master_read, master_write,
                 filled, captured, ready, ex, f, newf, todo, kept, lost>>

\* exchanger_read, under ex->mutex: the frame at master_read.
TakeDelivered ==
  LET r == master_read[ex] IN
  /\ pc = "take"
  /\ f' = ring[ex][r].f
  /\ ring' = [ring EXCEPT ![ex][r] = Emptied(@)]
  /\ master_read' = [master_read EXCEPT ![ex] = NextSlot(r, Slots[ex])]
  /\ pc' = "new"
  /\ UNCHANGED <<heapVars, ref_count, slave_cur, master_write, pipe, filled,
                 captured, ready, ex, newf, todo, kept, lost>>

\* get_back_frame: newf = new_frame().  Without one, f is only unreferenced and
\* nothing is exchanged for it.
NewFrame ==
  /\ pc = "new"
  /\ ~heapStuck
  /\ TakeFromHeap
  /\ newf' = Available
  /\ pc' = IF Available = NoFrame THEN "deliver" ELSE "exchange"
  /\ UNCHANGED <<ringVars, filled, captured, ready, ex, f, todo, kept, lost>>

\* get_back_frame: exchange_frame( conf->ex, newf ), then the start of
\* deliver_frame_to_stream over the keepers that are waiting.
Exchange ==
  /\ pc = "exchange"
  /\ ExchangeFrame(ex, newf)
  /\ newf' = NoFrame
  /\ todo' \in SUBSET {k \in Keepers : Source[k] = ex}
  /\ pc' = "deliver"
  /\ UNCHANGED <<heapVars, ref_count, filled, captured, ready, ex, f, kept>>

Keep_NoReference(k) ==
  /\ pc = "deliver"
  /\ k \in todo
  /\ IF kept[k] = NoFrame
       THEN UNCHANGED <<ref_count, heapVars>>
       ELSE UnrefFrame(kept[k], ref_count)
  /\ kept' = [kept EXCEPT ![k] = f]
  /\ todo' = todo \ {k}
  /\ UNCHANGED <<ringVars, filled, captured, pc, ready, ex, f, newf, lost>>

Keep_OldNotReleased(k) ==
  /\ pc = "deliver"
  /\ k \in todo
  /\ ref_count' = [ref_count EXCEPT ![f] = @ + 1]
  /\ kept' = [kept EXCEPT ![k] = f]
  /\ todo' = todo \ {k}
  /\ UNCHANGED <<heapVars, ringVars, filled, captured, pc, ready, ex, f, newf, lost>>

\* deliver_frame_to_stream: ref_frame, then jpeg_next_frame, which releases
\* the frame location k kept and keeps f.  (A destination that does not keep
\* the frame unreferences it before it returns.)
Keep(k) ==
  LET referenced == [ref_count EXCEPT ![f] = @ + 1] IN
  /\ pc = "deliver"
  /\ k \in todo
  /\ IF kept[k] = NoFrame
       THEN ref_count' = referenced /\ UNCHANGED heapVars
       ELSE UnrefFrame(kept[k], referenced)
  /\ kept' = [kept EXCEPT ![k] = f]
  /\ todo' = todo \ {k}
  /\ UNCHANGED <<ringVars, filled, captured, pc, ready, ex, f, newf, lost>>

\* The unref_frame that ends get_back_frame, on both of its paths.
Release ==
  /\ pc = "deliver"
  /\ todo = {}
  /\ UnrefFrame(f, ref_count)
  /\ f' = NoFrame
  /\ pc' = "read"
  /\ UNCHANGED <<ringVars, filled, captured, ready, ex, newf, todo, kept, lost>>

-----------------------------------------------------------------------------

Boot    == (\E c \in Channels : Fill(c)) \/ StartLoop
Loop    == \/ Select \/ Dispatch \/ ReadByte \/ TakeDelivered \/ NewFrame
           \/ Exchange \/ (\E k \in Keepers : Keep(k)) \/ Release
Capture(c) == GetNextFrame(c) \/ DeliverFrame(c) \/ AbandonFrame(c)

Next == Boot \/ Loop \/ (\E c \in Channels : Capture(c))

\* The event loop never stops, and a callback that has obtained a frame runs
\* to its end; nothing makes a camera produce another chunk.
Fairness ==
  /\ WF_vars(Boot)
  /\ WF_vars(Loop)
  /\ \A c \in Channels : WF_vars(DeliverFrame(c) \/ AbandonFrame(c))

Spec == Init /\ [][Next]_vars

FairSpec == Spec /\ Fairness

\* A camera that keeps producing: the callback is called again and again.
BusySpec == FairSpec /\ \A c \in Channels : WF_vars(GetNextFrame(c))

-----------------------------------------------------------------------------
(* Where a frame can be                                                     *)

InHeap(g)     == \E i \in HeapSlots : heap[i] = g
InRing(g)     == \E c \in Channels : \E i \in Ring(c) : ring[c][i].f = g
InCallback(g) == \E c \in Channels : captured[c] = g
IsSpare(g)    == newf = g
KeptBy(g)     == {k \in Keepers : kept[k] = g}
InUse(g)      == f = g \/ KeptBy(g) # {}
IsLost(g)     == \E c \in Channels : g \in lost[c]

Unread(c) == {i \in Ring(c) : ring[c][i].f # NoFrame /\ ~ring[c][i].pending}
Empty(c)  == {i \in Ring(c) : ring[c][i].f # NoFrame /\ ring[c][i].pending}

(* Properties                                                               *)

\* g has exactly one owner.
SingleOwner(g) ==
  /\ InHeap(g) \/ InRing(g) \/ InCallback(g) \/ IsSpare(g) \/ InUse(g) \/ IsLost(g)
  /\ InHeap(g) => ~(InRing(g) \/ InCallback(g) \/ IsSpare(g) \/ InUse(g) \/ IsLost(g))
  /\ InRing(g) => ~(InCallback(g) \/ IsSpare(g) \/ InUse(g) \/ IsLost(g))
  /\ InCallback(g) => ~(IsSpare(g) \/ InUse(g) \/ IsLost(g))
  /\ IsSpare(g) => ~(InUse(g) \/ IsLost(g))
  /\ InUse(g) => ~IsLost(g)

\* No frame is twice in the heap, in the rings or in the callbacks.
HeapDistinct ==
  \A i, j \in HeapSlots : heap[i] = heap[j] /\ heap[i] # NoFrame => i = j
RingDistinct ==
  \A c, d \in Channels : \A i \in Ring(c), j \in Ring(d) :
    ring[c][i].f = ring[d][j].f /\ ring[c][i].f # NoFrame => c = d /\ i = j
CallbacksDistinct ==
  \A c, d \in Channels : captured[c] = captured[d] /\ captured[c] # NoFrame => c = d

\* No two owners: new_frame never hands out a frame that a ring, a callback or
\* a destination still holds, and no frame sits twice in the heap or in the
\* rings (a destination's payload would be overwritten, or freed twice).
OneOwner ==
  (\A g \in Frames : SingleOwner(g)) /\ HeapDistinct /\ RingDistinct /\ CallbacksDistinct

\* ref_count equals the number of references: a location that keeps a frame
\* while the loop releases it neither frees it early nor leaks it.
RefCountExact ==
  \A g \in Frames :
    /\ InHeap(g) => ref_count[g] = 0
    /\ InRing(g) \/ InCallback(g) \/ IsSpare(g) => ref_count[g] = 1
    /\ InUse(g) => ref_count[g] = Cardinality(KeptBy(g)) + (IF f = g THEN 1 ELSE 0)

\* unref_frame never takes the path that leaves frame_heap_mutex locked, after
\* which every thread would block in new_frame or unref_frame.
HeapNeverStuck == ~heapStuck

\* The result of exchange_frame may be ignored and deliver_frame may overwrite
\* its slot: neither ever drops a frame.  Only abandoned chunks lose frames.
NothingLost == \A c \in Channels \ CanFail : lost[c] = {}

\* One byte in the pipe per delivered frame that is still in the ring.
PipeMatchesRing ==
  \A c \in Channels :
    Cardinality(Unread(c)) = pipe[c] + (IF pc = "take" /\ ex = c THEN 1 ELSE 0)

\* exchanger_read passes master_read->f to the deliver function unchecked: it
\* is a frame the slave has delivered.
ReadFindsFrame == pc = "take" => master_read[ex] \in Unread(ex)

\* While a callback fills the frame it has taken, its slot (which looks free to
\* exchange_frame, whose test is on f only) is not where the master writes.
BorrowedSlotReserved ==
  \A c \in Channels :
    captured[c] # NoFrame =>
      /\ ring[c][slave_cur[c]] = [f |-> NoFrame, pending |-> TRUE]
      /\ pc = "exchange" /\ ex = c => master_write[c] # slave_cur[c]

\* The frames a channel's ring has in circulation.
Circulating(c) ==
  Cardinality({i \in Ring(c) : ring[c][i].f # NoFrame})
    + (IF captured[c] # NoFrame THEN 1 ELSE 0)
    + (IF pc \in {"new", "exchange"} /\ ex = c THEN 1 ELSE 0)

\* With a heap that covers the rings and the kept frames, new_frame never fails
\* and no ring ever runs with fewer frames than it has slots.
RingNeverShrinks ==
  pc # "boot" => \A c \in Channels \ CanFail : Circulating(c) = Slots[c]

\* The capture side never runs dry for good: a callback finds a frame again.
CaptureRecovers ==
  []<>(pc = "select") =>
    \A c \in Channels \ CanFail : []<>(NextFrame(c) # NoFrame \/ captured[c] # NoFrame)

=============================================================================
