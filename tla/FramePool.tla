------------------------------ MODULE FramePool ------------------------------
(***************************************************************************)
(* What the frame heap and the exchangers of src/frame.c promise together, *)
(* without rings, pointers, pipes and counts: every frame has one owner,   *)
(* it goes round the cycle heap, empty in a channel, in a callback, queued *)
(* for the event loop, in use, heap; and each channel is a bounded FIFO.   *)
(***************************************************************************)
EXTENDS Naturals, Sequences, FiniteSets

CONSTANTS Frames, Channels, Capacity, CanFail

VARIABLES owner, queue

poolVars == <<owner, queue>>

EmptyIn(c)  == <<"empty", c>>
FilledBy(c) == <<"callback", c>>
QueuedIn(c) == <<"queue", c>>
AtLarge     == {<<"heap">>, <<"spare">>, <<"use">>, <<"lost">>}
Owners      == AtLarge \cup ({"empty", "callback", "queue"} \X Channels)

PoolTypeOK == /\ owner \in [Frames -> Owners]
              /\ queue \in [Channels -> Seq(Frames)]

PoolInit == /\ owner = [g \in Frames |-> <<"heap">>]
            /\ queue = [c \in Channels |-> <<>>]

InChannel(c) == {g \in Frames : owner[g] \in {EmptyIn(c), FilledBy(c), QueuedIn(c)}}

Move(g, from, to) == owner[g] = from /\ owner' = [owner EXCEPT ![g] = to]

Allocate(g) == Move(g, <<"heap">>, <<"spare">>) /\ UNCHANGED queue

\* An empty frame enters channel c, whose frames never exceed its capacity.
Lend(g, c) ==
  /\ Cardinality(InChannel(c)) < Capacity[c]
  /\ Move(g, <<"heap">>, EmptyIn(c)) \/ Move(g, <<"spare">>, EmptyIn(c))
  /\ UNCHANGED queue

Obtain(g, c) == Move(g, EmptyIn(c), FilledBy(c)) /\ UNCHANGED queue

Deliver(g, c) ==
  /\ Move(g, FilledBy(c), QueuedIn(c))
  /\ queue' = [queue EXCEPT ![c] = Append(@, g)]

Abandon(g, c) == c \in CanFail /\ Move(g, FilledBy(c), <<"lost">>) /\ UNCHANGED queue

\* The event loop gets the frames of a channel in the order of delivery.
Receive(g, c) ==
  /\ queue[c] # <<>> /\ g = Head(queue[c])
  /\ Move(g, QueuedIn(c), <<"use">>)
  /\ queue' = [queue EXCEPT ![c] = Tail(@)]

\* The last reference is dropped.
Free(g) == Move(g, <<"use">>, <<"heap">>) /\ UNCHANGED queue

\* Every step moves one frame.
PoolNext ==
  \E g \in {h \in Frames : owner'[h] # owner[h]} :
    \/ Allocate(g) \/ Free(g)
    \/ \E c \in Channels : \/ Lend(g, c) \/ Obtain(g, c) \/ Deliver(g, c)
                           \/ Abandon(g, c) \/ Receive(g, c)

PoolSpec == PoolInit /\ [][PoolNext]_poolVars

=============================================================================
