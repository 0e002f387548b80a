------------------------- MODULE SpeakServer_proofs -------------------------
(***************************************************************************)
(* Theorems about SpeakServer, for every set of clients, any number of     *)
(* connections, messages and copies of a datagram.                         *)
(***************************************************************************)
EXTENDS SpeakServer, FiniteSetTheorems, TLAPS

USE BoundsAssumption

-----------------------------------------------------------------------------
(* Type correctness                                                         *)

PeerStates == {"disconnected", "acknowledging_connect", "connected",
               "acknowledging_disconnect", "zombie"}
Ids        == 0 .. MaxConnects
Sessions   == SessionIds \cup {Unset}

ClientType == [state : {"idle", "connecting", "connected", "disconnecting"},
               id : Ids, in : Sessions, out : Sessions, sent : [Channels -> Nat]]

PeerType == [state : PeerStates, id : Ids, addr : Clients \cup {None},
             in : Sessions, out : Sessions, got : [Channels -> Nat],
             dispatched : Seq([chan : Channels, id : Ids]),
             unacked : BOOLEAN, byeAck : BOOLEAN]

\* A datagram's fields, as far as the peer takes them over.
DatagramOK(d) ==
  /\ d.cmd = "connect" => /\ d.from \in Clients /\ d.id \in Ids
                          /\ d.in \in Sessions /\ d.out \in Sessions
  /\ d.cmd = "verify" => d.in \in Sessions /\ d.out \in Sessions
  /\ d.cmd = "data" => d.chan \in Channels /\ d.id \in Ids

TypeInv ==
  /\ client \in [Clients -> ClientType]
  /\ started \in Ids
  /\ \A d \in net : DatagramOK(d)
  /\ peer \in PeerType
  /\ data \in {0, 1} /\ g_peers \in SUBSET Slots /\ g_nPeers \in Int
  /\ speaking \in BOOLEAN

\* The numbers of a new connection differ from those of the one before.
LEMMA NextSessionType ==
  ASSUME NEW given \in Sessions, NEW own \in Sessions
  PROVE  NextSession(given, own) \in SessionIds \ {own}
<1>1. \A n \in 0 .. 256 : n % 4 \in 0 .. 3
  OBVIOUS
<1>2. \A n \in 0 .. 3 : (n + 1) % 4 \in 0 .. 3 /\ (n + 1) % 4 # n
  OBVIOUS
<1>3. given + 1 \in 0 .. 256 /\ own + 1 \in 0 .. 256
  BY DEF Sessions, SessionIds, Unset
<1>4. QED BY <1>1, <1>2, <1>3 DEF NextSession, SessionIds

\* enet_peer_reset keeps a peer's type.
LEMMA ResetType ==
  ASSUME peer \in PeerType
  PROVE  /\ Reset(peer) \in PeerType
         /\ Reset(peer).state = "disconnected"
<1>1. <<>> \in Seq([chan : Channels, id : Ids]) /\ 0 \in Ids
  BY DEF Ids
<1>2. QED BY <1>1 DEF Reset, PeerType, PeerStates

\* The clients' steps, which leave the peer alone.
LEMMA ClientStep ==
  ASSUME TypeInv, NEW c \in Clients, Client(c)
  PROVE  /\ client' \in [Clients -> ClientType] /\ started' \in Ids
         /\ \A d \in net' : DatagramOK(d)
         /\ UNCHANGED <<peer, app>>
<1>1. /\ client[c] \in ClientType /\ client[c].id \in Ids
      /\ client[c].in \in Sessions /\ client[c].out \in Sessions
  BY DEF TypeInv, ClientType
<1>2. CASE Connect(c)
  <2>1. /\ started' = started + 1 /\ started < MaxConnects
        /\ client' = [client EXCEPT ![c].state = "connecting", ![c].id = started',
                                    ![c].sent = [h \in Channels |-> 0]]
        /\ UNCHANGED <<peer, app>>
    BY <1>2 DEF Connect
  <2>2. started' \in Ids
    BY <2>1 DEF TypeInv, Ids
  <2>3. client' \in [Clients -> ClientType]
    <3> DEFINE r == [client[c] EXCEPT !.state = "connecting", !.id = started',
                                      !.sent = [h \in Channels |-> 0]]
    <3>1. r \in ClientType
      BY <1>1, <2>2 DEF ClientType
    <3>2. client' = [client EXCEPT ![c] = r]
      BY <2>1
    <3> HIDE DEF r
    <3>3. QED BY <3>1, <3>2 DEF TypeInv
  <2>4. \A d \in net' : DatagramOK(d)
    BY <1>1, <1>2, <2>2 DEF Connect, TypeInv, DatagramOK
  <2>5. QED BY <2>1, <2>2, <2>3, <2>4
<1>3. CASE Verified(c)
  <2>1. PICK v \in net :
          /\ v.cmd = "verify" /\ v.to = c
          /\ IF v.id # client[c].id
             THEN client' = [client EXCEPT ![c].state = "idle"] /\ UNCHANGED net
             ELSE /\ client' = [client EXCEPT ![c].state = "connected",
                                              ![c].in = v.in, ![c].out = v.out]
                  /\ net' = net \cup {FromClient(c, "acknowledge", 0, 0)}
    BY <1>3 DEF Verified
  <2>2. v.in \in Sessions /\ v.out \in Sessions
    BY <2>1 DEF TypeInv, DatagramOK
  <2>3. client' \in [Clients -> ClientType]
    <3> DEFINE idle == [client[c] EXCEPT !.state = "idle"]
               r == [client[c] EXCEPT !.state = "connected", !.in = v.in, !.out = v.out]
    <3>1. idle \in ClientType /\ r \in ClientType
      BY <1>1, <2>2 DEF ClientType
    <3>2. client' = [client EXCEPT ![c] = idle] \/ client' = [client EXCEPT ![c] = r]
      BY <2>1, ZenonT(30)
    <3> HIDE DEF idle, r
    <3>3. QED BY <3>1, <3>2 DEF TypeInv
  <2>4. \A d \in net' : DatagramOK(d)
    BY <2>1 DEF TypeInv, DatagramOK, FromClient
  <2>5. QED BY <1>3, <2>3, <2>4 DEF Verified, TypeInv
<1>4. ASSUME NEW chan \in Channels, ClientSend(c, chan)
      PROVE  /\ client' \in [Clients -> ClientType] /\ started' \in Ids
             /\ \A d \in net' : DatagramOK(d)
             /\ UNCHANGED <<peer, app>>
  <2>1. client' = [client EXCEPT ![c].sent[chan] = @ + 1]
    BY <1>4 DEF ClientSend
  <2>2. client[c].sent \in [Channels -> Nat]
    BY <1>1 DEF ClientType
  <2>3. client' \in [Clients -> ClientType] /\ client'[c].id = client[c].id
    <3> DEFINE more == [client[c].sent EXCEPT ![chan] = client[c].sent[chan] + 1]
               r == [client[c] EXCEPT !.sent = more]
    <3>1. client' = [client EXCEPT ![c] = r]
      BY <2>1
    <3>2. more \in [Channels -> Nat]
      BY <2>2
    <3> HIDE DEF more
    <3>3. r \in ClientType /\ r.id = client[c].id
      BY <1>1, <3>2 DEF ClientType
    <3> HIDE DEF r
    <3>4. QED BY <3>1, <3>3 DEF TypeInv
  <2>4. \A d \in net' : DatagramOK(d)
    BY <1>1, <1>4, <2>3 DEF ClientSend, TypeInv, DatagramOK, FromClient
  <2>5. QED BY <1>4, <2>3, <2>4 DEF ClientSend, TypeInv
<1>5. CASE ClientDisconnect(c)
  <2>1. client' = [client EXCEPT ![c].state = "disconnecting"]
    BY <1>5 DEF ClientDisconnect
  <2>2. client' \in [Clients -> ClientType]
    BY <1>1, <2>1 DEF TypeInv, ClientType
  <2>3. \A d \in net' : DatagramOK(d)
    BY <1>5 DEF ClientDisconnect, TypeInv, DatagramOK, FromClient
  <2>4. QED BY <1>5, <2>2, <2>3 DEF ClientDisconnect, TypeInv
<1>6. CASE ClientEnds(c)
  <2>1. Unset \in Sessions
    BY DEF Sessions
  <2>2. client' \in [Clients -> ClientType]
    <3> DEFINE r == [client[c] EXCEPT !.state = "idle"]
               new == [client[c] EXCEPT !.state = "idle", !.in = Unset, !.out = Unset]
    <3>1. r \in ClientType /\ new \in ClientType
      BY <1>1, <2>1 DEF ClientType
    <3>2. client' = [client EXCEPT ![c] = r] \/ client' = [client EXCEPT ![c] = new]
      BY <1>6 DEF ClientEnds
    <3> HIDE DEF r, new
    <3>3. QED BY <3>1, <3>2 DEF TypeInv
  <2>3. QED BY <1>6, <2>2 DEF ClientEnds, TypeInv
<1>7. QED
  BY <1>2, <1>3, <1>4, <1>5, <1>6 DEF Client

\* A step of the peer is one of these; the library's leave the handler's
\* variables alone but where they report the end or the start of a connection.
PeerStep == Receive \/ Dispatch \/ SendOutgoing \/ Answered

\* A set of slots that is not empty has a first one.
LEMMA FirstSlot ==
  ASSUME NEW S \in SUBSET Nat, S # {}
  PROVE  Min(S) \in S
<1> DEFINE Below(n) == 0 .. n - 1
           T == {Below(k) : k \in S}
<1>1. T \subseteq FiniteSubsetsOf(Nat) /\ T # {}
  <2>1. ASSUME NEW n \in S PROVE Below(n) \in FiniteSubsetsOf(Nat)
    <3>1. IsFiniteSet(Below(n)) BY FS_Interval
    <3>2. QED BY <3>1 DEF FiniteSubsetsOf
  <2>2. \E n : n \in S
    OBVIOUS
  <2>3. T # {}
    BY <2>2
  <2>4. QED BY <2>1, <2>3
<1>2. PICK X \in T : \A Y \in T : ~(<<Y, X>> \in StrictSubsetOrdering(Nat))
  <2> HIDE DEF T
  <2>1. QED BY <1>1, FS_StrictSubsetOrderingWellFounded, WFMin
<1>3. PICK n \in S : X = Below(n)
  OBVIOUS
<1>4. ASSUME NEW m \in S, m < n PROVE FALSE
  <2>1. Below(m) \in T /\ ~(<<Below(m), Below(n)>> \in StrictSubsetOrdering(Nat))
    BY <1>2, <1>3
  <2>2. Below(m) \in SUBSET Nat /\ Below(n) \in SUBSET Nat
    OBVIOUS
  <2>3. Below(m) \subseteq Below(n)
    BY <1>4
  <2>4. m \in Below(n) /\ m \notin Below(m)
    BY <1>4
  <2> HIDE DEF Below
  <2>5. QED BY <2>1, <2>2, <2>3, <2>4 DEF StrictSubsetOrdering
<1>5. \A m \in S : n <= m
  BY <1>4
<1>6. QED BY <1>5 DEF Min

\* A free slot is one of those that are not taken.
LEMMA FreeSlot ==
  ASSUME g_peers \in SUBSET Slots, g_peers # Slots
  PROVE  Min(Slots \ g_peers) \in Slots \ g_peers
<1>1. Slots \ g_peers \in SUBSET Nat
  BY DEF Slots
<1>2. \E n : n \in Slots /\ n \notin g_peers
  OBVIOUS
<1>3. QED BY <1>1, <1>2, FirstSlot

\* The taken slots are finitely many.
LEMMA SlotsFinite ==
  ASSUME NEW S \in SUBSET Slots
  PROVE  IsFiniteSet(S) /\ Cardinality(S) \in Nat
<1>1. IsFiniteSet(Slots)
  BY FS_Interval DEF Slots
<1>2. QED BY <1>1, FS_Subset, FS_CardinalityType

\* A message the handler takes.
LEMMA ReceivedType ==
  ASSUME peer \in PeerType, peer.dispatched # <<>>
  PROVE  /\ Received(peer) \in PeerType
         /\ Received(peer).state = peer.state
<1>1. peer.dispatched \in Seq([chan : Channels, id : Ids])
  BY DEF PeerType
<1>2. Tail(peer.dispatched) \in Seq([chan : Channels, id : Ids])
  BY <1>1
<1>3. QED BY <1>2 DEF Received, PeerType

\* A datagram keeps the peer's type, and does nothing to the handler's
\* variables but for the start of a connection.
LEMMA ReceiveType ==
  ASSUME TypeInv, Receive
  PROVE  /\ client' = client /\ started' = started
         /\ \A d \in net' : DatagramOK(d)
         /\ peer' \in PeerType
         /\ UNCHANGED app \/ OnConnect
<1>1. peer \in PeerType /\ 0 \in Ids
  BY DEF TypeInv, Ids
<1>2. CASE HandleConnect
  <2>1. PICK d \in net :
          /\ d.cmd = "connect"
          /\ LET out == NextSession(d.in, peer.out)
                 in  == NextSession(d.out, peer.in)
             IN /\ peer' = [peer EXCEPT !.state = "acknowledging_connect", !.id = d.id,
                                        !.addr = d.from, !.in = in, !.out = out,
                                        !.got = [h \in Channels |-> 0], !.unacked = TRUE]
                /\ net' = (net \ {d}) \cup {[cmd |-> "verify", to |-> d.from, id |-> d.id,
                                             in |-> out, out |-> in]}
    BY <1>2 DEF HandleConnect
  <2> DEFINE out == NextSession(d.in, peer.out)
             in  == NextSession(d.out, peer.in)
  <2>2. /\ d.from \in Clients /\ d.id \in Ids
        /\ d.in \in Sessions /\ d.out \in Sessions
        /\ peer.in \in Sessions /\ peer.out \in Sessions
    BY <1>1, <2>1 DEF TypeInv, DatagramOK, PeerType
  <2>3. in \in Sessions /\ out \in Sessions
    BY <2>2, NextSessionType DEF Sessions
  <2> HIDE DEF in, out
  <2>4. peer' = [peer EXCEPT !.state = "acknowledging_connect", !.id = d.id,
                             !.addr = d.from, !.in = in, !.out = out,
                             !.got = [h \in Channels |-> 0], !.unacked = TRUE]
    BY <2>1 DEF in, out
  <2>5. peer' \in PeerType
    BY <1>1, <2>2, <2>3, <2>4 DEF PeerType, PeerStates
  <2>6. net' = (net \ {d}) \cup {[cmd |-> "verify", to |-> d.from, id |-> d.id,
                                  in |-> out, out |-> in]}
    BY <2>1 DEF in, out
  <2>7. \A e \in net' : DatagramOK(e)
    BY <2>3, <2>6 DEF TypeInv, DatagramOK
  <2>8. QED BY <1>2, <2>5, <2>7 DEF HandleConnect
<1>3. CASE HandleAcknowledge
  BY <1>1, <1>3 DEF HandleAcknowledge, TypeInv, PeerType, PeerStates
<1>4. CASE HandleData
  <2>1. PICK d \in net :
          /\ d.cmd = "data"
          /\ peer' = [peer EXCEPT !.got[d.chan] = @ + 1,
                                  !.dispatched = Append(@, [chan |-> d.chan, id |-> d.id])]
    BY <1>4 DEF HandleData
  <2>2. d.chan \in Channels /\ d.id \in Ids
    BY <2>1 DEF TypeInv, DatagramOK
  <2> DEFINE more == [peer.got EXCEPT ![d.chan] = peer.got[d.chan] + 1]
             longer == Append(peer.dispatched, [chan |-> d.chan, id |-> d.id])
  <2>3. more \in [Channels -> Nat]
    BY <1>1, <2>2 DEF PeerType
  <2>4. longer \in Seq([chan : Channels, id : Ids])
    BY <1>1, <2>2 DEF PeerType
  <2>5. peer' = [peer EXCEPT !.got = more, !.dispatched = longer]
    BY <2>1
  <2> HIDE DEF more, longer
  <2>6. peer' \in PeerType
    BY <1>1, <2>3, <2>4, <2>5 DEF PeerType
  <2>7. QED BY <1>4, <2>6 DEF HandleData, TypeInv
<1>5. CASE HandleDisconnect
  <2>1. [Reset(peer) EXCEPT !.byeAck = TRUE] \in PeerType
    <3> PICK r : r = Reset(peer)
      OBVIOUS
    <3>1. r \in PeerType
      BY <1>1, ResetType
    <3>2. [r EXCEPT !.byeAck = TRUE] \in PeerType
      BY <3>1 DEF PeerType
    <3>3. QED BY <3>2
  <2>2. [peer EXCEPT !.state = "acknowledging_disconnect", !.dispatched = <<>>,
                     !.unacked = FALSE, !.byeAck = TRUE] \in PeerType
    <3>1. <<>> \in Seq([chan : Channels, id : Ids])
      OBVIOUS
    <3>2. QED BY <1>1, <3>1 DEF PeerType, PeerStates
  <2>3. peer' \in PeerType
    BY <1>5, <2>1, <2>2 DEF HandleDisconnect
  <2>4. QED BY <1>5, <2>3 DEF HandleDisconnect, TypeInv
<1>6. QED
  BY <1>2, <1>3, <1>4, <1>5 DEF Receive

\* An acknowledgement sent, a ping, its answer or a timeout.
LEMMA SendType ==
  ASSUME TypeInv, SendOutgoing \/ Answered
  PROVE  /\ UNCHANGED <<client, started, net>>
         /\ peer' \in PeerType
         /\ UNCHANGED app \/ OnDisconnect
<1>1. peer \in PeerType
  BY DEF TypeInv
<1>2. CASE SendAcknowledgement
  BY <1>1, <1>2 DEF SendAcknowledgement, PeerType, PeerStates
<1>3. CASE Ping
  BY <1>1, <1>3 DEF Ping, PeerType
<1>4. CASE Answered
  BY <1>1, <1>4 DEF Answered, PeerType
<1>5. CASE Timeout
  BY <1>1, <1>5, ResetType DEF Timeout
<1>6. QED
  BY <1>2, <1>3, <1>4, <1>5 DEF SendOutgoing

\* A connection's end, as the handler sees it, keeps the types.
LEMMA OnDisconnectType ==
  ASSUME TypeInv, OnDisconnect
  PROVE  /\ data' \in {0, 1} /\ g_peers' \in SUBSET Slots /\ g_nPeers' \in Int
         /\ speaking' \in BOOLEAN
<1>1. Cardinality(g_peers) \in Nat /\ g_nPeers \in Int
  BY SlotsFinite DEF TypeInv
<1>2. g_nPeers' \in Int
  BY <1>1 DEF OnDisconnect
<1>3. g_peers' \in SUBSET Slots
  BY DEF OnDisconnect
<1>4. QED BY <1>2, <1>3 DEF OnDisconnect

\* The handler's variables keep their types, whatever the event.
LEMMA DispatchType ==
  ASSUME TypeInv, Dispatch
  PROVE  /\ UNCHANGED <<client, started, net>>
         /\ peer' \in PeerType
         /\ data' \in {0, 1} /\ g_peers' \in SUBSET Slots /\ g_nPeers' \in Int
         /\ speaking' \in BOOLEAN
<1>1. /\ peer \in PeerType /\ data \in {0, 1} /\ g_peers \in SUBSET Slots
      /\ g_nPeers \in Int /\ speaking \in BOOLEAN /\ Cardinality(g_peers) \in Nat
  BY SlotsFinite DEF TypeInv
<1>2. CASE DispatchDisconnect
  BY <1>1, <1>2, ResetType, OnDisconnectType DEF DispatchDisconnect
<1>3. CASE DispatchReceive
  <2>1. Received(peer) \in PeerType
    BY <1>3, ReceivedType DEF TypeInv, DispatchReceive
  <2>2. CASE Audio
    BY <1>1, <1>3, <2>1, <2>2 DEF DispatchReceive, Audio, app
  <2>3. CASE Login
    <3>1. CASE g_peers = Slots
      BY <1>1, <1>3, <2>1, <2>3, <3>1 DEF DispatchReceive, Login, app
    <3>2. CASE g_peers # Slots
      <4> PICK p : p = Received(peer) OBVIOUS
      <4>1. [p EXCEPT !.unacked = TRUE] \in PeerType
        BY <2>1 DEF PeerType
      <4>2. peer' \in PeerType /\ data' = 1 /\ speaking' \in BOOLEAN
        BY <2>3, <3>2, <4>1 DEF Login
      <4>3. g_peers' \in SUBSET Slots
        BY <1>1, <2>3, <3>2, FreeSlot DEF Login
      <4>4. g_nPeers' \in Int
        BY <1>1, <2>3, <3>2 DEF Login
      <4>5. QED BY <1>3, <4>2, <4>3, <4>4 DEF DispatchReceive
    <3>3. QED BY <3>1, <3>2
  <2>4. CASE UnknownRequest
    BY <1>1, <1>3, <2>4, ResetType DEF DispatchReceive, UnknownRequest
  <2>5. QED BY <1>3, <2>2, <2>3, <2>4 DEF DispatchReceive
<1>4. QED BY <1>2, <1>3 DEF Dispatch

\* Every step keeps the types.
LEMMA TypeStep == TypeInv /\ [Next]_vars => TypeInv'
<1> SUFFICES ASSUME TypeInv, [Next]_vars PROVE TypeInv'
  OBVIOUS
<1>1. /\ data \in {0, 1} /\ g_peers \in SUBSET Slots
      /\ g_nPeers \in Int /\ speaking \in BOOLEAN /\ Cardinality(g_peers) \in Nat
  BY SlotsFinite DEF TypeInv
<1>2. ASSUME NEW c \in Clients, Client(c) PROVE TypeInv'
  BY <1>2, ClientStep DEF TypeInv, app
<1>3. CASE Receive
  BY <1>1, <1>3, ReceiveType DEF TypeInv, app, OnConnect
<1>4. CASE Dispatch
  BY <1>4, DispatchType DEF TypeInv
<1>5. CASE SendOutgoing \/ Answered
  <2>1. /\ UNCHANGED <<client, started, net>> /\ peer' \in PeerType
        /\ UNCHANGED app \/ OnDisconnect
    BY <1>5, SendType
  <2>2. CASE UNCHANGED app
    BY <2>1, <2>2 DEF TypeInv, app
  <2>3. CASE OnDisconnect
    <3>1. /\ data' \in {0, 1} /\ g_peers' \in SUBSET Slots /\ g_nPeers' \in Int
          /\ speaking' \in BOOLEAN
      BY <2>3, OnDisconnectType
    <3>2. QED BY <2>1, <3>1 DEF TypeInv
  <2>4. QED BY <2>1, <2>2, <2>3
<1>6. CASE UNCHANGED vars
  BY <1>6 DEF vars, app, TypeInv
<1>7. QED
  BY <1>2, <1>3, <1>4, <1>5, <1>6 DEF Next

\* At start-up the variables have their types.
LEMMA InitType == Init => TypeInv
<1> SUFFICES ASSUME Init PROVE TypeInv
  OBVIOUS
<1>1. 0 \in Ids /\ Unset \in Sessions /\ <<>> \in Seq([chan : Channels, id : Ids])
  BY DEF Ids, Sessions
<1>2. client \in [Clients -> ClientType]
  BY <1>1 DEF Init, ClientType
<1>3. peer \in PeerType
  BY <1>1 DEF Init, FreshPeer, PeerType, PeerStates
<1>4. started \in Ids /\ data \in {0, 1} /\ g_nPeers \in Int
  BY <1>1 DEF Init
<1>5. speaking \in BOOLEAN /\ \A d \in net : DatagramOK(d)
  BY DEF Init
<1>6. g_peers \in SUBSET Slots
  BY DEF Init
<1>7. QED
  BY <1>2, <1>3, <1>4, <1>5, <1>6 DEF TypeInv

\* What the clients, the peer, the datagrams and the handler's variables are,
\* they are in every state.
THEOREM TypeCorrect == Spec => []TypeOK
<1>1. TypeInv => TypeOK
  BY DEF TypeInv, TypeOK, PeerType, PeerStates, Ids, Sessions
<1>2. QED BY <1>1, InitType, TypeStep, PTL DEF Spec

-----------------------------------------------------------------------------
(* Who speaks, and who has a slot                                           *)

\* g_nPeers counts the slots of g_peers[1] that are taken, and a client that
\* is logged in (its peer's data pointer is set) has one of them.
SlotsCounted ==
  /\ g_nPeers = Cardinality(g_peers)
  /\ data = 1 => g_peers # {}

SpeakerInv == TypeInv /\ SpeakerHasOwner /\ SlotsCounted

\* c_request_speak and c_end_speak follow the connection: every event that ends
\* one, and every way that ends one without an event, turns the speaker off.
LEMMA SpeakerStep == SpeakerInv /\ [Next]_vars => SpeakerInv'
<1> SUFFICES ASSUME SpeakerInv, [Next]_vars PROVE SpeakerInv'
  OBVIOUS
<1>1. TypeInv /\ SpeakerHasOwner /\ SlotsCounted /\ TypeInv'
  BY TypeStep DEF SpeakerInv
<1> SUFFICES SpeakerHasOwner' /\ SlotsCounted'
  BY <1>1 DEF SpeakerInv
<1>2. /\ peer \in PeerType /\ data \in {0, 1} /\ g_peers \in SUBSET Slots
      /\ IsFiniteSet(g_peers) /\ Cardinality(g_peers) \in Nat
  BY <1>1, SlotsFinite DEF TypeInv
<1>3. ASSUME UNCHANGED app, peer'.state = peer.state \/ ~speaking
             \/ peer'.state \in {"acknowledging_disconnect", "zombie"}
      PROVE  SpeakerHasOwner' /\ SlotsCounted'
  BY <1>1, <1>3 DEF SpeakerHasOwner, SlotsCounted, app
<1>4. ASSUME OnDisconnect PROVE SpeakerHasOwner' /\ SlotsCounted'
  <2>1. g_nPeers' = 0
    BY <1>1, <1>2, <1>4 DEF OnDisconnect, SlotsCounted
  <2>2. QED BY <1>4, <2>1, FS_EmptySet DEF OnDisconnect, SpeakerHasOwner, SlotsCounted
<1>5. ASSUME NEW c \in Clients, Client(c) PROVE SpeakerHasOwner' /\ SlotsCounted'
  BY <1>1, <1>3, <1>5, ClientStep
<1>6. CASE HandleConnect
  BY <1>1, <1>3, <1>6 DEF HandleConnect, SpeakerHasOwner
<1>7. CASE HandleAcknowledge
  <2>1. ~speaking
    BY <1>1, <1>7 DEF HandleAcknowledge, SpeakerHasOwner
  <2>2. QED BY <1>1, <1>7, <2>1 DEF HandleAcknowledge, OnConnect, SpeakerHasOwner, SlotsCounted
<1>8. CASE HandleData
  <2>1. peer'.state = peer.state
    BY <1>2, <1>8 DEF HandleData, PeerType
  <2>2. QED BY <1>3, <1>8, <2>1 DEF HandleData
<1>9. CASE HandleDisconnect
  <2>1. CASE peer.state = "acknowledging_connect"
    BY <1>1, <1>3, <1>9, <2>1 DEF HandleDisconnect, SpeakerHasOwner
  <2>2. CASE peer.state # "acknowledging_connect"
    <3>1. peer'.state = "acknowledging_disconnect"
      BY <1>2, <1>9, <2>2 DEF HandleDisconnect, PeerType
    <3>2. QED BY <1>3, <1>9, <3>1 DEF HandleDisconnect
  <2>3. QED BY <2>1, <2>2
<1>10. CASE SendAcknowledgement
  <2>1. peer'.state = "zombie"
    BY <1>2, <1>10 DEF SendAcknowledgement, PeerType
  <2>2. QED BY <1>3, <1>10, <2>1 DEF SendAcknowledgement
<1>11. CASE DispatchDisconnect
  BY <1>4, <1>11 DEF DispatchDisconnect
<1>12. CASE DispatchReceive
  <2>1. Received(peer).state = peer.state /\ peer.state = "connected"
    BY <1>2, <1>12, ReceivedType DEF DispatchReceive
  <2>2. CASE Audio
    BY <1>3, <2>1, <2>2 DEF Audio
  <2>3. CASE Login /\ g_peers = Slots
    BY <1>3, <2>1, <2>3 DEF Login
  <2>4. CASE Login /\ g_peers # Slots
    <3> PICK p : p = Received(peer) OBVIOUS
    <3>1. p.state = "connected" /\ p \in PeerType
      BY <1>2, <1>12, <2>1, ReceivedType DEF DispatchReceive
    <3>2. peer' = [p EXCEPT !.unacked = TRUE] /\ data' = 1
      BY <2>4 DEF Login
    <3>3. peer'.state = "connected"
      BY <3>1, <3>2 DEF PeerType
    <3> PICK n : n = Min(Slots \ g_peers) OBVIOUS
    <3>4. /\ g_peers' = g_peers \cup {n} /\ g_nPeers' = g_nPeers + 1
          /\ n \notin g_peers
      BY <1>2, <2>4, FreeSlot DEF Login
    <3>5. Cardinality(g_peers \cup {n}) = Cardinality(g_peers) + 1
      BY <1>2, <3>4, FS_AddElement
    <3>6. SlotsCounted'
      BY <1>1, <3>4, <3>5 DEF SlotsCounted
    <3>7. QED BY <3>2, <3>3, <3>6 DEF SpeakerHasOwner
  <2>5. CASE UnknownRequest
    BY <1>1, <2>5 DEF UnknownRequest, SpeakerHasOwner, SlotsCounted
  <2>6. QED BY <1>12, <2>2, <2>3, <2>4, <2>5 DEF DispatchReceive
<1>13. CASE Ping
  <2>1. peer'.state = peer.state
    BY <1>2, <1>13 DEF Ping, PeerType
  <2>2. QED BY <1>3, <1>13, <2>1 DEF Ping
<1>14. CASE Answered
  <2>1. peer'.state = peer.state
    BY <1>2, <1>14 DEF Answered, PeerType
  <2>2. QED BY <1>3, <1>14, <2>1 DEF Answered
<1>15. CASE Timeout
  <2>1. CASE peer.state = "connected"
    BY <1>4, <1>15, <2>1 DEF Timeout
  <2>2. CASE peer.state # "connected"
    BY <1>1, <1>3, <1>15, <2>2 DEF Timeout, SpeakerHasOwner
  <2>3. QED BY <2>1, <2>2
<1>16. CASE UNCHANGED vars
  BY <1>3, <1>16 DEF vars
<1>17. QED
  BY <1>5, <1>6, <1>7, <1>8, <1>9, <1>10, <1>11, <1>12, <1>13, <1>14, <1>15, <1>16
  DEF Next, Receive, Dispatch, SendOutgoing

\* The types, the speaker's owner and the slots' count hold together.
THEOREM Invariance == Spec => []SpeakerInv
<1>1. Init => SpeakerInv
  <2> SUFFICES ASSUME Init PROVE SpeakerInv
    OBVIOUS
  <2>1. SpeakerHasOwner /\ SlotsCounted
    BY FS_EmptySet DEF Init, SpeakerHasOwner, SlotsCounted
  <2>2. QED BY <2>1, InitType DEF SpeakerInv
<1>2. QED BY <1>1, SpeakerStep, PTL DEF Spec

\* However datagrams are lost, repeated or late and however a client leaves, the
\* speaker is on only for a client that has logged in on the peer's connection.
THEOREM OnlyOwnersSpeak == Spec => []SpeakerHasOwner
<1>1. SpeakerInv => SpeakerHasOwner BY DEF SpeakerInv
<1>2. QED BY <1>1, Invariance, PTL

\* g_nPeers never drifts from the slots that are taken, though a connection may
\* end without an event and leave its slot to the next one.
THEOREM SlotsAreCounted == Spec => []SlotsCounted
<1>1. SpeakerInv => SlotsCounted BY DEF SpeakerInv
<1>2. QED BY <1>1, Invariance, PTL

=============================================================================
