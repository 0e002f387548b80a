---------------------------- MODULE EnetChannel ----------------------------
(***************************************************************************)
(* One direction of a channel of the enet library (src/enet-1.3.3/peer.c   *)
(* and protocol.c), which carries the talk-back audio: sequence numbers    *)
(* that wrap, the windows that keep the sender from running ahead,         *)
(* fragments, acknowledgements, retransmission, unreliable and unsequenced *)
(* messages, and a network that loses, repeats and reorders datagrams.     *)
(*                                                                         *)
(* A command is known by its index in the order it was queued, which no    *)
(* code sees: code sees the fields of plan[n].  The sizes are scaled down; *)
(* they keep what the library's have, twice as many windows as may be used *)
(* at a time.  Of time there is only that a command that is not            *)
(* acknowledged may be found to have timed out, and that the sender gives  *)
(* the connection up, here stops, before too many later ones were sent.    *)
(*                                                                         *)
(* Left out: what giving up does (SpeakServer has it), failed allocations  *)
(* and the packing of commands into datagrams.                             *)
(***************************************************************************)
EXTENDS Integers, Sequences, FiniteSets, SequencesExt, FiniteSetsExt

CONSTANTS
  WindowSize,       \* ENET_PEER_RELIABLE_WINDOW_SIZE
  Windows,          \* ENET_PEER_RELIABLE_WINDOWS
  FreeWindows,      \* ENET_PEER_FREE_RELIABLE_WINDOWS
  TransitLimit,     \* the commands that fit into windowSize bytes
  UnreliableLimit,  \* 0xFFFF, the last unreliable sequence number
  GroupWindow,      \* ENET_PEER_UNSEQUENCED_WINDOW_SIZE
  FreeGroupWindows, \* ENET_PEER_FREE_UNSEQUENCED_WINDOWS
  Groups,           \* 0x10000, the unsequenced groups
  Programs,         \* bound: the messages sent, each [kind, parts]
  Lifetime,         \* bound: by how many commands a datagram may be outrun
  Patience          \* ENET_PEER_TIMEOUT_MAXIMUM, as the commands sent meanwhile

Kinds == {"reliable", "unreliable", "unsequenced"}

SeqSpace == WindowSize * Windows

ASSUME SizesAssumption ==
  /\ WindowSize \in Nat \ {0} /\ Windows \in Nat \ {0}
  /\ FreeWindows \in 2 .. Windows \div 2
  /\ TransitLimit \in Nat \ {0} /\ Lifetime \in Nat /\ Patience \in Nat /\ UnreliableLimit \in Nat \ {0}
  /\ GroupWindow \in Nat \ {0} /\ Groups % GroupWindow = 0
  /\ FreeGroupWindows \in Nat /\ 2 * FreeGroupWindows * GroupWindow <= Groups
  /\ Programs \subseteq Seq([kind : Kinds, parts : Nat \ {0}])

\* The kind enet_peer_send gives a message of kind k: when the unreliable numbers
\* are used up it goes as a reliable one.  Of more than one part it is fragmented;
\* an unsequenced message has one.
SentAs(k, unrel) == IF k = "unreliable" /\ unrel >= UnreliableLimit THEN "reliable" ELSE k

\* enet_peer_setup_outgoing_command: the commands of a program with their numbers.
\* first is the command whose number a fragment has as startSequenceNumber.
SetUp(program) ==
  LET lay(a, msg) ==
        LET kind  == SentAs(msg.kind, a.unrel)
            at    == Len(a.commands)
            seq(i) == (CASE kind = "reliable" -> a.rel + i [] kind = "unreliable" -> a.rel [] OTHER -> 0)
            unrel == IF kind = "unreliable" THEN a.unrel + 1 ELSE 0
            group == a.group + (IF kind = "unsequenced" THEN 1 ELSE 0)
            command(i) == [m |-> a.m + 1, kind |-> kind, seq |-> seq(i) % SeqSpace, unrel |-> unrel,
                           group |-> group % Groups, first |-> at + 1,
                           count |-> IF msg.parts = 1 THEN 0 ELSE msg.parts]
        IN [m |-> a.m + 1, group |-> group,
            rel |-> IF kind = "reliable" THEN a.rel + msg.parts ELSE a.rel,
            unrel |-> IF kind = "unsequenced" THEN a.unrel ELSE unrel,
            commands |-> a.commands \o [i \in 1 .. msg.parts |-> command(i)]]
  IN FoldLeft(lay, [m |-> 0, rel |-> 0, unrel |-> 0, group |-> 0, commands |-> <<>>], program).commands

VARIABLES
  plan,           \* the commands of the program that is run; it does not change
  queued,         \* the commands the application has had queued so far
  outgoing,       \* outgoingReliableCommands
  sent,           \* sentReliableCommands
  tried,          \* the commands in either whose sendAttempts is not 0
  reliableWindows,
  data, acks,     \* the datagrams on their way, each way
  incoming,       \* incomingReliableSequenceNumber
  inQueue,        \* incomingReliableCommands
  incomingUnrel,  \* incomingUnreliableSequenceNumber
  inUnrel,        \* incomingUnreliableCommands
  groupBase,      \* incomingUnsequencedGroup
  groupsSeen,     \* unsequencedWindow
  delivered       \* history: the messages dispatched, as their commands that arrived

sender   == <<plan, queued, outgoing, sent, tried, reliableWindows>>
reliable == <<incoming, inQueue>>
grouped  == <<groupBase, groupsSeen>>
receiver == <<reliable, incomingUnrel, inUnrel, grouped, delivered>>
vars     == <<sender, data, acks, receiver>>

Commands  == DOMAIN plan
Parts(m)  == {n \in Commands : plan[n].m = m}
Number(n)  == plan[n].seq
First(n)  == plan[n].first
Window(s) == s \div WindowSize

\* fragmentCount is 0 in a command that is not a fragment.
FragmentCount(n) == plan[n].count

Init ==
  /\ plan \in {SetUp(program) : program \in Programs}
  /\ queued = 0 /\ outgoing = <<>> /\ sent = <<>> /\ tried = {}
  /\ reliableWindows = [w \in 0 .. Windows - 1 |-> 0]
  /\ data = {} /\ acks = {}
  /\ incoming = 0 /\ inQueue = <<>> /\ incomingUnrel = 0 /\ inUnrel = <<>>
  /\ groupBase = 0 /\ groupsSeen = {} /\ delivered = <<>>

-----------------------------------------------------------------------------
(* The sender. *)

\* Bound: the application queues a message when none waits to be sent for the
\* first time.  No code looks at what is behind one that waits.
NoneWaits == ToSet(outgoing) \subseteq tried

\* The network keeps what it is given: a datagram may arrive any number of times,
\* in any order or, being lost, never; but not once it is outrun.
Recent(S, n) == {m \in S : m > n - Lifetime}

\* enet_protocol_send_unreliable_outgoing_commands: the throttle drops the message,
\* whose command carries or begins it, with all its fragments, or they are sent once
\* and forgotten.  Nothing holds them up, so that sending is one with queueing.
SendUnreliable(ns) ==
  /\ \/ data' = data
     \/ data' = Recent(data, Max(ns)) \cup ns
  /\ acks' = Recent(acks, Max(ns))

\* enet_peer_send: all fragments of a message are queued together.
PeerSend ==
  /\ queued < Len(plan) /\ NoneWaits
  /\ LET ns == Parts(plan[queued + 1].m)
     IN /\ queued' = Max(ns)
        /\ IF plan[queued + 1].kind = "reliable"
           THEN /\ outgoing' = outgoing \o [i \in 1 .. queued' - queued |-> queued + i]
                /\ UNCHANGED <<data, acks>>
           ELSE SendUnreliable(ns) /\ UNCHANGED outgoing
  /\ UNCHANGED <<plan, sent, tried, reliableWindows, receiver>>

\* The mask of usedReliableWindows: the shift that should bring in the windows
\* past the last one shifts by too much, so the mask ends there.
Ahead(w) == {v \in w .. w + FreeWindows - 1 : v < Windows}

\* A command that would be the first of a window waits until the window before
\* is not full and those ahead are free.
WindowWrap(n) ==
  /\ n \notin tried /\ Number(n) % WindowSize = 0
  /\ LET w == Window(Number(n))
     IN \/ reliableWindows[(w + Windows - 1) % Windows] >= WindowSize
        \/ \E v \in Ahead(w) : reliableWindows[v] > 0

\* A command counts in its window from its first attempt on, once.
Counts(n) == n \notin tried

\* enet_protocol_send_reliable_outgoing_commands, for the head of the list: what
\* holds it up holds up all behind it.
SendReliable ==
  /\ outgoing # <<>>
  /\ LET n == Head(outgoing)
         w == Window(Number(n))
     IN /\ ~WindowWrap(n) /\ Len(sent) < TransitLimit
        /\ \A m \in tried : n - m <= Patience
        /\ reliableWindows' = [reliableWindows EXCEPT ![w] = @ + (IF Counts(n) THEN 1 ELSE 0)]
        /\ tried' = tried \cup {n}
        /\ outgoing' = Tail(outgoing) /\ sent' = Append(sent, n)
        /\ data' = Recent(data, n) \cup {n} /\ acks' = Recent(acks, n)
  /\ UNCHANGED <<plan, queued, receiver>>

\* enet_protocol_check_timeouts: the commands that timed out go to the head of
\* the outgoing list, in their order.
CheckTimeouts ==
  /\ \E late \in SUBSET ToSet(sent) \ {{}} :
       LET isLate(n) == n \in late
           inTime(n) == n \notin late
       IN /\ outgoing' = SelectSeq(sent, isLate) \o outgoing
          /\ sent' = SelectSeq(sent, inTime)
  /\ UNCHANGED <<plan, queued, tried, reliableWindows, data, acks, receiver>>

Without(s, n) == LET isNot(m) == m # n IN SelectSeq(s, isNot)

RemoveSent(n) ==
  /\ sent' = Without(sent, n) /\ outgoing' = Without(outgoing, n)
  /\ tried' = tried \ {n}
  /\ reliableWindows' = [reliableWindows EXCEPT ![Window(Number(n))] =
                           IF @ > 0 THEN @ - 1 ELSE 0]

\* The commands an acknowledgement of sequence number s can be for: one that was
\* sent, or one that timed out and is still before all that were never sent.
Acknowledged(s) ==
  LET retried == {i \in DOMAIN outgoing : \A j \in 1 .. i : outgoing[j] \in tried}
      waiting == {outgoing[i] : i \in retried}
      inSent  == {n \in ToSet(sent) : Number(n) = s}
  IN IF inSent # {} THEN inSent ELSE {n \in waiting : Number(n) = s}

\* enet_protocol_handle_acknowledge
HandleAcknowledge ==
  /\ \E a \in acks :
       LET cs == Acknowledged(Number(a))
       IN IF cs = {} THEN UNCHANGED <<outgoing, sent, tried, reliableWindows>>
          ELSE RemoveSent(Min(cs))
  /\ UNCHANGED <<plan, queued, data, acks, receiver>>

-----------------------------------------------------------------------------
(* The receiver. *)

\* How far ahead a sequence number is, in windows; one that is behind is taken
\* to be of the next round.
Distance(s) == Window(s) + (IF s < incoming THEN Windows ELSE 0) - Window(incoming)

InWindow_OneLess(s) == Distance(s) \in 0 .. FreeWindows - 3

InWindow(s) == Distance(s) \in 0 .. FreeWindows - 2

\* The order of a queue whose numbers may have wrapped: e comes before s.
Before(e, s) == IF s >= incoming THEN e >= incoming /\ e < s
                ELSE e >= incoming \/ e < s

\* A command in the queue; for a fragmented message, with no fragment yet.
Entry(n) == [seq |-> Number(First(n)), unrel |-> plan[n].unrel, kind |-> plan[n].kind, count |-> FragmentCount(n),
             got |-> IF FragmentCount(n) = 0 THEN {n} ELSE {}]

Complete(e) == e.count = 0 \/ Cardinality(e.got) = e.count

\* enet_peer_queue_incoming_command: where the scan from the end of the queue stops
QueueIncoming(q, e) ==
  LET after == {i \in DOMAIN q : Before(q[i].seq, e.seq)}
  IN InsertAt(q, (IF after = {} THEN 0 ELSE Max(after)) + 1, e)

Dispatched_Incomplete(q) ==
  LET next(a, e) ==
        IF a.done \/ e.seq # (a.seq + 1) % SeqSpace
        THEN [a EXCEPT !.done = TRUE]
        ELSE [seq   |-> (e.seq + (IF e.count > 0 THEN e.count - 1 ELSE 0)) % SeqSpace,
              moved |-> a.moved + 1, done |-> FALSE]
  IN FoldLeft(next, [seq |-> incoming, moved |-> 0, done |-> FALSE], q)

\* enet_peer_dispatch_incoming_reliable_commands: the head of the queue goes to
\* the application as long as it is complete and next in order.
Dispatched(q) ==
  LET next(a, e) ==
        IF a.done \/ ~Complete(e) \/ e.seq # (a.seq + 1) % SeqSpace
        THEN [a EXCEPT !.done = TRUE]
        ELSE [seq   |-> (e.seq + (IF e.count > 0 THEN e.count - 1 ELSE 0)) % SeqSpace,
              moved |-> a.moved + 1, done |-> FALSE]
  IN FoldLeft(next, [seq |-> incoming, moved |-> 0, done |-> FALSE], q)

\* enet_peer_dispatch_incoming_unreliable_commands for the queue q, with the numbers
\* rel and unrel.  What is complete goes to the application, until a command waits for
\* another reliable number; moved are the indices of what goes.  What is not complete
\* stays if nothing came before it, and goes with all before dropped if something did.
\* Past the end of the circular list is its beginning: then nothing is removed.
Walk(q, rel, unrel) ==
  LET step(a, i) ==
        IF a.stop # 0 THEN a
        ELSE IF q[i].kind = "unsequenced" THEN a
        ELSE IF q[i].seq # rel THEN [a EXCEPT !.stop = i]
        ELSE IF Complete(q[i]) THEN [a EXCEPT !.unrel = q[i].unrel]
        ELSE IF a.start = i THEN [a EXCEPT !.start = i + 1]
        ELSE [a EXCEPT !.moved = @ \cup a.start .. i - 1, !.start = i + 1, !.dropped = i + 1]
      w   == FoldLeft(step, [start |-> 1, dropped |-> 1, stop |-> 0, moved |-> {}, unrel |-> unrel],
                      [i \in DOMAIN q |-> i])
      end == IF w.stop = 0 THEN Len(q) + 1 ELSE w.stop
  IN IF w.start = end THEN w
     ELSE [w EXCEPT !.moved = @ \cup w.start .. end - 1,
                    !.dropped = IF w.stop = 0 THEN 1 ELSE end + 1]

\* The entries of q at the indices I, in their order.
Pick(q, I) == LET in(i) == i \in I
                  js    == SelectSeq([i \in DOMAIN q |-> i], in)
              IN [j \in DOMAIN js |-> q[js[j]]]

\* What a dispatch leaves: the number reached, the queue, and what is gone to the
\* application.
Walked(q, rel, unrel) ==
  LET w == Walk(q, rel, unrel)
      out == Pick(q, w.moved)
  IN [unrel |-> w.unrel, queue |-> Pick(q, {i \in DOMAIN q \ w.moved : i >= w.dropped}),
      gone |-> [i \in DOMAIN out |-> out[i].got]]

Becomes(w, before) ==
  incomingUnrel' = w.unrel /\ inUnrel' = w.queue /\ delivered' = before \o w.gone

Dispatch(q) ==
  LET d == Dispatched(q)
  IN /\ incoming' = d.seq
     /\ inQueue' = SubSeq(q, d.moved + 1, Len(q))
     /\ IF d.moved = 0 THEN UNCHANGED <<incomingUnrel, inUnrel, delivered>>
        ELSE Becomes(Walked(inUnrel, d.seq, 0), delivered \o [i \in 1 .. d.moved |-> q[i].got])
     /\ UNCHANGED grouped

Ignore == UNCHANGED receiver

\* enet_protocol_handle_send_reliable
HandleSendReliable(n) ==
  LET s == Number(n)
  IN IF ~InWindow(s) \/ s = incoming \/ \E e \in ToSet(inQueue) : e.seq = s
     THEN Ignore
     ELSE Dispatch(QueueIncoming(inQueue, Entry(n)))

\* enet_protocol_handle_send_fragment: a message is queued at its first number
\* when the first of its fragments arrives, whichever that is.
HandleSendFragment(n) ==
  LET s == Number(First(n))
      q == IF \E e \in ToSet(inQueue) : e.seq = s THEN inQueue
           ELSE QueueIncoming(inQueue, Entry(n))
      take(e) == IF e.seq = s THEN [e EXCEPT !.got = @ \cup {n}] ELSE e
  IN IF ~InWindow(s) \/ s = incoming THEN Ignore
     ELSE Dispatch([i \in DOMAIN q |-> take(q[i])])

\* Where an unreliable command goes in the queue: behind the last entry that its
\* scan from the end stops at; that one may be the same message.
UnrelBefore(s, u) ==
  {i \in DOMAIN inUnrel :
     LET e == inUnrel[i]
     IN \/ (s < incoming /\ e.seq >= incoming)
        \/ (s >= incoming => e.seq >= incoming) /\ (e.seq < s \/ (e.seq = s /\ e.unrel <= u))}

UnrelAt(s, u) == LET I == UnrelBefore(s, u) IN IF I = {} THEN 0 ELSE Max(I)

Same(i, s, u) == i # 0 /\ inUnrel[i].seq = s /\ inUnrel[i].unrel = u

\* A number that was passed, or a reliable number too far from the one reached.
Outdated(s, u) == ~InWindow(s) \/ (s = incoming /\ u <= incomingUnrel)

\* enet_protocol_handle_send_unreliable
HandleSendUnreliable(n) ==
  LET s == Number(n)  u == plan[n].unrel  i == UnrelAt(s, u)
  IN IF Outdated(s, u) \/ Same(i, s, u) THEN Ignore
     ELSE /\ Becomes(Walked(InsertAt(inUnrel, i + 1, Entry(n)), incoming, incomingUnrel), delivered)
          /\ UNCHANGED <<reliable, grouped>>

\* enet_protocol_handle_send_unreliable_fragment: the first fragment to come makes the
\* entry, over which a dispatch goes before the fragment is counted in it.
HandleSendUnreliableFragment(n) ==
  LET s == Number(n)  u == plan[n].unrel  i == UnrelAt(s, u)
      made == IF Same(i, s, u) THEN [unrel |-> incomingUnrel, queue |-> inUnrel, gone |-> <<>>]
              ELSE Walked(InsertAt(inUnrel, i + 1, Entry(n)), incoming, incomingUnrel)
      at   == CHOOSE j \in DOMAIN made.queue : made.queue[j].seq = s /\ made.queue[j].unrel = u
      q    == [made.queue EXCEPT ![at].got = @ \cup {n}]
      done == IF Complete(q[at]) THEN Walked(q, incoming, made.unrel)
              ELSE [made EXCEPT !.queue = q, !.gone = <<>>]
  IN IF Outdated(s, u) \/ (Same(i, s, u) /\ inUnrel[i].count # FragmentCount(n)) THEN Ignore
     ELSE Becomes(done, delivered \o made.gone) /\ UNCHANGED <<reliable, grouped>>

AcksBack_All(s) == TRUE

\* enet_peer_queue_acknowledgement, with the number the handler has left: what
\* was too far ahead to be queued is not acknowledged.
AcksBack(s) ==
  LET d == Window(s) + (IF s < incoming' THEN Windows ELSE 0) - Window(incoming')
  IN d \notin FreeWindows - 1 .. FreeWindows

\* A fragment that is taken for a part of another message makes its handler fail.
Mismatched(n) ==
  LET s == Number(First(n))
  IN /\ FragmentCount(n) > 0 /\ InWindow(s)
     /\ s = incoming \/ \E e \in ToSet(inQueue) : e.seq = s /\ e.count # FragmentCount(n)

\* enet_protocol_handle_send_unsequenced: a group of an earlier window is taken for
\* one of the next round; a later window forgets the groups of the one before.  The
\* command goes to the front of the queue.
HandleSendUnsequenced(n) ==
  LET g     == plan[n].group
      ahead == g + (IF g < groupBase THEN Groups ELSE 0)
      base  == g - (g % GroupWindow)
      seen  == IF base = groupBase THEN groupsSeen ELSE {}
  IN IF ahead >= groupBase + FreeGroupWindows * GroupWindow \/ g \in seen THEN Ignore
     ELSE /\ groupBase' = base /\ groupsSeen' = seen \cup {g}
          /\ Becomes(Walked(<<Entry(n)>> \o inUnrel, incoming, incomingUnrel), delivered)
          /\ UNCHANGED reliable

\* enet_protocol_handle_incoming_commands: what failed is not acknowledged, and
\* only what is reliable is.
Receive ==
  /\ \E n \in data :
       CASE plan[n].kind = "unsequenced" -> HandleSendUnsequenced(n) /\ UNCHANGED acks
         [] plan[n].kind = "unreliable" ->
              /\ IF FragmentCount(n) = 0 THEN HandleSendUnreliable(n) ELSE HandleSendUnreliableFragment(n)
              /\ UNCHANGED acks
         [] OTHER ->
              IF Mismatched(n) THEN Ignore /\ UNCHANGED acks
              ELSE /\ IF FragmentCount(n) = 0 THEN HandleSendReliable(n) ELSE HandleSendFragment(n)
                   /\ acks' = IF AcksBack(Number(n)) THEN acks \cup {n} ELSE acks
  /\ UNCHANGED <<sender, data>>

-----------------------------------------------------------------------------

Next == PeerSend \/ SendReliable \/ CheckTimeouts \/ HandleAcknowledge \/ Receive

Spec == Init /\ [][Next]_vars

-----------------------------------------------------------------------------
(* Properties. *)

MessageAt(i)  == plan[CHOOSE n \in delivered[i] : TRUE].m
KindOf(m)     == plan[Min(Parts(m))].kind
Messages      == {plan[n].m : n \in Commands}
DeliveredBy(i) == {MessageAt(j) : j \in 1 .. i}

\* Messages reach the application whole and at most once, but for unsequenced ones
\* in the order they were sent, and none before a reliable one that was sent
\* earlier, whatever the network does with the datagrams and however often the
\* sequence numbers wrap.
InOrderOnce ==
  \A i \in DOMAIN delivered :
    /\ delivered[i] # {} /\ delivered[i] = Parts(MessageAt(i))
    /\ MessageAt(i) \notin DeliveredBy(i - 1)
    /\ KindOf(MessageAt(i)) # "unsequenced" =>
         \A m \in Messages :
           /\ m > MessageAt(i) /\ KindOf(m) # "unsequenced" => m \notin DeliveredBy(i)
           /\ m < MessageAt(i) /\ KindOf(m) = "reliable" => m \in DeliveredBy(i)

Reliable == {n \in Commands : plan[n].kind = "reliable"}

Outstanding == ToSet(outgoing) \cup ToSet(sent)

\* What the sender has forgotten, because it was acknowledged, has arrived: it
\* was delivered or waits in the receiver's queue for what comes before it.
AckedHasArrived ==
  \A n \in (Reliable \cap 1 .. queued) \ Outstanding :
    \/ \E m \in ToSet(delivered) : n \in m
    \/ \E e \in ToSet(inQueue) : n \in e.got

\* The channel cannot come to a stop: the receiver would take the message it
\* waits for, and the sender, once nothing it sent is unacknowledged, may send
\* what is next, whichever windows both are in.
NextGetsThrough ==
  /\ LET next == Reliable \ UNION ToSet(delivered)
     IN next # {} => \A n \in Parts(plan[Min(next)].m) : InWindow(Number(First(n))) /\ ~Mismatched(n)
  /\ outgoing # <<>> /\ sent = <<>> => ~WindowWrap(Head(outgoing))

TypeOK ==
  /\ queued \in 0 .. Len(plan) /\ Outstanding \subseteq 1 .. queued
  /\ tried \subseteq Outstanding /\ Len(sent) <= TransitLimit
  /\ reliableWindows \in [0 .. Windows - 1 -> 0 .. WindowSize]
  /\ data \subseteq 1 .. queued /\ acks \subseteq 1 .. queued
  /\ incoming \in 0 .. SeqSpace - 1 /\ groupBase \in 0 .. Groups - 1 /\ delivered \in Seq(SUBSET Commands)
  /\ \A i \in DOMAIN inQueue : inQueue[i].seq \in 0 .. SeqSpace - 1
=============================================================================
