-------------------------- MODULE FrameExchangeImpl --------------------------
(***************************************************************************)
(* FrameExchange implements FramePool: who owns a frame is read off the    *)
(* place that points to it, and a channel's queue is the run of delivered  *)
(* slots that starts at master_read.                                       *)
(***************************************************************************)
EXTENDS FrameExchange, Sequences

HasCaptured(c, g) == captured[c] = g
HasUnread(c, g)   == \E i \in Ring(c) : ring[c][i].f = g /\ ~ring[c][i].pending
HasEmpty(c, g)    == \E i \in Ring(c) : ring[c][i].f = g /\ ring[c][i].pending

OwnerOf(g) ==
  IF InHeap(g)       THEN <<"heap">>
  ELSE IF IsSpare(g) THEN <<"spare">>
  ELSE IF InUse(g)   THEN <<"use">>
  ELSE IF \E c \in Channels : HasCaptured(c, g)
    THEN <<"callback", CHOOSE c \in Channels : HasCaptured(c, g)>>
  ELSE IF \E c \in Channels : HasUnread(c, g)
    THEN <<"queue", CHOOSE c \in Channels : HasUnread(c, g)>>
  ELSE IF \E c \in Channels : HasEmpty(c, g)
    THEN <<"empty", CHOOSE c \in Channels : HasEmpty(c, g)>>
  ELSE <<"lost">>

\* The slot k slots after slot a of a ring of n.
SlotAfter(a, k, n) == IF a + k < n THEN a + k ELSE a + k - n

QueueOf(c) ==
  [n \in 1 .. Cardinality(Unread(c)) |->
     ring[c][SlotAfter(master_read[c], n - 1, Slots[c])].f]

Pool == INSTANCE FramePool
  WITH owner    <- [g \in Frames |-> OwnerOf(g)],
       queue    <- [c \in Channels |-> QueueOf(c)],
       Capacity <- Slots

\* Every run of the rings, pipes and reference counts is a run of the pool: one
\* owner per frame, frames received in the order in which the callback delivered
\* them, none received twice, a frame freed only by its last user.
ImplementsFramePool == Pool!PoolSpec

=============================================================================
