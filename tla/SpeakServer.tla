---------------------------- MODULE SpeakServer ----------------------------
(***************************************************************************)
(* The talk-back server (src/c_speak.c, run by src/main/t_speak.c) on the  *)
(* connection protocol of the enet library it is built with                *)
(* (src/enet-1.3.3/protocol.c, peer.c, host.c): clients connect, log in,   *)
(* send audio, log out, disconnect or vanish, over a network that loses,   *)
(* repeats and reorders datagrams.                                         *)
(*                                                                         *)
(* The host has one peer (enet_host_create is given a peerCount of 1).  The*)
(* server thread alone runs the library and the handler, so a step is one  *)
(* datagram received, or one event with what the handler does with it.     *)
(* The clients are external; they use the same library.  A channel hands   *)
(* over its messages in order and once (EnetChannel shows that it does).   *)
(* A ping and a login's reply only serve to find out whether the client is *)
(* there: their round trips are one step.  Left out: audio's contents,     *)
(* failed allocations, bandwidth limits.                                   *)
(***************************************************************************)
EXTENDS Integers, Sequences, FiniteSets, FiniteSetsExt

CONSTANTS
  Clients,
  None,
  MaxConn,        \* MAX_CONN, the slots of g_peers[1]
  MaxConnects,    \* bound: connections the clients start
  MaxSent,        \* bound: messages on each channel of a connection
  Copies          \* bound: how often the CONNECT of each may arrive

ASSUME BoundsAssumption ==
  /\ None \notin Clients
  /\ MaxConn \in Nat \ {0} /\ MaxConnects \in Nat
  /\ MaxSent \in [{0, 1} -> Nat] /\ Copies \in [1 .. MaxConnects -> Nat \ {0}]

SessionIds == 0 .. 3
Unset      == 255          \* the session id of a peer that had no connection
Channels   == {0, 1}

VARIABLES
  client,         \* the clients' ends
  started,        \* connections started
  net,            \* datagrams: they stay, so that they may arrive late or again
  peer,           \* host->peers[0]
  data,           \* peer->data
  g_peers,        \* the slots of g_peers[1] that hold the peer
  g_nPeers,
  speaking        \* the speaker, as c_request_speak and c_end_speak leave it

app  == <<data, g_peers, g_nPeers, speaking>>
vars == <<client, started, net, peer, app>>

\* A peer as enet_host_create leaves it, which never had a connection.
FreshPeer == [state |-> "disconnected", id |-> 0, addr |-> None, in |-> Unset, out |-> Unset,
              got |-> [h \in Channels |-> 0], dispatched |-> <<>>,
              unacked |-> FALSE, byeAck |-> FALSE]

Init ==
  /\ client = [c \in Clients |-> [state |-> "idle", id |-> 0, in |-> Unset, out |-> Unset,
                                  sent |-> [h \in Channels |-> 0]]]
  /\ started = 0 /\ net = {}
  /\ peer = FreshPeer
  /\ data = 0 /\ g_peers = {} /\ g_nPeers = 0 /\ speaking = FALSE

-----------------------------------------------------------------------------
(* The clients. *)

\* enet_host_connect
Connect(c) ==
  /\ client[c].state = "idle" /\ started < MaxConnects
  /\ started' = started + 1
  /\ client' = [client EXCEPT ![c].state = "connecting", ![c].id = started',
                              ![c].sent = [h \in Channels |-> 0]]
  /\ net' = net \cup {[cmd |-> "connect", from |-> c, id |-> started', copy |-> i,
                       in |-> client[c].in, out |-> client[c].out] : i \in 1 .. Copies[started']}
  /\ UNCHANGED <<peer, app>>

FromClient(c, cmd, chan, seq) ==
  [cmd |-> cmd, from |-> c, session |-> client'[c].out, id |-> client'[c].id,
   chan |-> chan, seq |-> seq]

\* enet_protocol_handle_verify_connect.  Until then the client does not check
\* session numbers; a verification of another connection ends the attempt.
Verified(c) ==
  /\ client[c].state = "connecting"
  /\ \E v \in net :
       /\ v.cmd = "verify" /\ v.to = c
       /\ IF v.id # client[c].id
          THEN client' = [client EXCEPT ![c].state = "idle"] /\ UNCHANGED net
          ELSE /\ client' = [client EXCEPT ![c].state = "connected",
                                           ![c].in = v.in, ![c].out = v.out]
               /\ net' = net \cup {FromClient(c, "acknowledge", 0, 0)}
  /\ UNCHANGED <<started, peer, app>>

ClientSend(c, chan) ==
  /\ client[c].state = "connected" /\ client[c].sent[chan] < MaxSent[chan]
  /\ client' = [client EXCEPT ![c].sent[chan] = @ + 1]
  /\ net' = net \cup {FromClient(c, "data", chan, client'[c].sent[chan])}
  /\ UNCHANGED <<started, peer, app>>

\* enet_peer_disconnect
ClientDisconnect(c) ==
  /\ client[c].state = "connected"
  /\ client' = [client EXCEPT ![c].state = "disconnecting"]
  /\ net' = net \cup {FromClient(c, "disconnect", 0, 0)}
  /\ UNCHANGED <<started, peer, app>>

\* The client is gone: it is done, has given up, or was switched off; a new
\* process has no session numbers to go by.
ClientEnds(c) ==
  /\ client[c].state # "idle"
  /\ \/ client' = [client EXCEPT ![c].state = "idle"]
     \/ client' = [client EXCEPT ![c].state = "idle", ![c].in = Unset, ![c].out = Unset]
  /\ UNCHANGED <<started, net, peer, app>>

-----------------------------------------------------------------------------
(* The handler: what c_do_speak_server_handler does with an event. *)

OnConnect == data' = 0 /\ UNCHANGED <<g_peers, g_nPeers, speaking>>

OnDisconnect_KeepsSpeaking ==
  /\ data' = 0
  /\ g_peers' = {} /\ g_nPeers' = g_nPeers - Cardinality(g_peers)
  /\ UNCHANGED speaking

OnDisconnect ==
  /\ data' = 0
  /\ g_peers' = {} /\ g_nPeers' = g_nPeers - Cardinality(g_peers)
  /\ speaking' = FALSE

-----------------------------------------------------------------------------
(* The peer. *)

\* enet_peer_reset: the session numbers and the data pointer stay.
Reset(p) == [p EXCEPT !.state = "disconnected", !.id = 0, !.dispatched = <<>>,
                      !.unacked = FALSE, !.byeAck = FALSE]

\* The next session number, never the one in use before.
NextSession(given, own) ==
  LET s == ((IF given = Unset THEN own ELSE given) + 1) % 4
  IN IF s = own THEN (s + 1) % 4 ELSE s

\* enet_protocol_handle_connect: the free peer is taken and a VERIFY_CONNECT sent.
HandleConnect ==
  /\ peer.state = "disconnected"
  /\ \E d \in net :
       /\ d.cmd = "connect"
       /\ LET out == NextSession(d.in, peer.out)
              in  == NextSession(d.out, peer.in)
          IN /\ peer' = [peer EXCEPT !.state = "acknowledging_connect", !.id = d.id,
                                     !.addr = d.from, !.in = in, !.out = out,
                                     !.got = [h \in Channels |-> 0], !.unacked = TRUE]
             /\ net' = (net \ {d}) \cup {[cmd |-> "verify", to |-> d.from, id |-> d.id,
                                          in |-> out, out |-> in]}
  /\ UNCHANGED <<client, started, app>>

Matches_AnySession(d) ==
  /\ peer.state \notin {"disconnected", "zombie"}
  /\ d.from = peer.addr

\* enet_protocol_handle_incoming_commands drops what is not for this connection.
Matches(d) ==
  /\ peer.state \notin {"disconnected", "zombie"}
  /\ d.from = peer.addr /\ d.session = peer.in

\* enet_protocol_handle_acknowledge, of the VERIFY_CONNECT, and the CONNECT event
HandleAcknowledge ==
  /\ \E d \in net : d.cmd = "acknowledge" /\ Matches(d)
  /\ peer.state = "acknowledging_connect"
  /\ peer' = [peer EXCEPT !.state = "connected", !.unacked = FALSE]
  /\ OnConnect
  /\ UNCHANGED <<client, started, net>>

\* enet_protocol_handle_send_reliable
HandleData ==
  /\ \E d \in net :
       /\ d.cmd = "data" /\ Matches(d)
       /\ peer.state = "connected" /\ d.seq = peer.got[d.chan] + 1
       /\ peer' = [peer EXCEPT !.got[d.chan] = @ + 1,
                               !.dispatched = Append(@, [chan |-> d.chan, id |-> d.id])]
  /\ UNCHANGED <<client, started, net, app>>

\* enet_protocol_handle_disconnect.  The acknowledgement is queued even when the
\* peer has just been reset because its connection was not yet complete.
HandleDisconnect ==
  /\ \E d \in net : d.cmd = "disconnect" /\ Matches(d)
  /\ peer' = IF peer.state = "acknowledging_connect" THEN [Reset(peer) EXCEPT !.byeAck = TRUE]
             ELSE [peer EXCEPT !.state = "acknowledging_disconnect", !.dispatched = <<>>,
                               !.unacked = FALSE, !.byeAck = TRUE]
  /\ UNCHANGED <<client, started, net, app>>

\* enet_protocol_send_acknowledgements: to acknowledge a DISCONNECT ends whatever
\* connection the peer has by then.
SendAcknowledgement ==
  /\ peer.state \notin {"disconnected", "zombie"} /\ peer.byeAck
  /\ peer' = [peer EXCEPT !.state = "zombie", !.byeAck = FALSE]
  /\ UNCHANGED <<client, started, net, app>>

\* enet_protocol_dispatch_incoming_commands, for a peer that is gone
DispatchDisconnect ==
  /\ peer.state = "zombie"
  /\ peer' = Reset(peer)
  /\ OnDisconnect
  /\ UNCHANGED <<client, started, net>>

Slots == 1 .. MaxConn

\* enet_peer_receive takes the oldest command that has been dispatched.
Received(p) == [p EXCEPT !.dispatched = Tail(@)]

\* The first message on channel 0 is taken for a login, whatever it says; it is
\* answered if there is a slot, and c_request_speak may fail.
Login ==
  IF g_peers = Slots
  THEN UNCHANGED app /\ peer' = Received(peer)
  ELSE /\ g_peers' = g_peers \cup {Min(Slots \ g_peers)}
       /\ g_nPeers' = g_nPeers + 1
       /\ speaking' \in BOOLEAN /\ data' = 1
       /\ peer' = [Received(peer) EXCEPT !.unacked = TRUE]

\* c_speak gets the chunk, whether the client has logged in or not.
Audio == UNCHANGED app /\ peer' = Received(peer)

\* Any further message on channel 0 is an unknown request: the slot stays.
UnknownRequest ==
  /\ peer' = Reset(peer)
  /\ speaking' = FALSE
  /\ UNCHANGED <<data, g_peers, g_nPeers>>

\* enet_protocol_dispatch_incoming_commands, for a message
DispatchReceive ==
  /\ peer.state = "connected" /\ peer.dispatched # <<>>
  /\ \/ Head(peer.dispatched).chan = 1 /\ Audio
     \/ Head(peer.dispatched).chan = 0 /\ data = 0 /\ Login
     \/ Head(peer.dispatched).chan = 0 /\ data # 0 /\ UnknownRequest
  /\ UNCHANGED <<client, started, net>>

Ping_Never == FALSE /\ UNCHANGED vars

\* enet_protocol_send_outgoing_commands pings a silent client when no command is
\* waiting for an acknowledgement.
Ping ==
  /\ peer.state = "connected" /\ ~peer.unacked
  /\ peer' = [peer EXCEPT !.unacked = TRUE]
  /\ UNCHANGED <<client, started, net, app>>

\* The client has the other end of this connection.
Present ==
  \E c \in Clients : /\ peer.addr = c /\ client[c].state = "connected"
                     /\ client[c].id = peer.id
                     /\ client[c].in = peer.out /\ client[c].out = peer.in

\* The acknowledgement of a ping or of the login's reply.
Answered ==
  /\ peer.state = "connected" /\ peer.unacked /\ Present
  /\ peer' = [peer EXCEPT !.unacked = FALSE]
  /\ UNCHANGED <<client, started, net, app>>

\* enet_protocol_check_timeouts gives up: enet_protocol_notify_disconnect tells
\* the application only of a connection it knows.
Timeout ==
  /\ peer.state \in {"acknowledging_connect", "connected"} /\ peer.unacked
  /\ peer' = Reset(peer)
  /\ IF peer.state = "connected" THEN OnDisconnect ELSE UNCHANGED app
  /\ UNCHANGED <<client, started, net>>

-----------------------------------------------------------------------------

Client(c) ==
  \/ Connect(c) \/ Verified(c) \/ ClientDisconnect(c) \/ ClientEnds(c)
  \/ \E chan \in Channels : ClientSend(c, chan)

Dispatch == DispatchDisconnect \/ DispatchReceive

\* enet_protocol_send_outgoing_commands, one of its parts at a time.
SendOutgoing == SendAcknowledgement \/ Timeout \/ Ping

Receive == HandleConnect \/ HandleAcknowledge \/ HandleData \/ HandleDisconnect

Next ==
  \/ \E c \in Clients : Client(c)
  \/ Receive \/ Dispatch \/ SendOutgoing \/ Answered

\* The server's thread runs for ever: events are dispatched, acknowledgements and
\* pings sent, and a command nobody acknowledges times out in the end.
Fairness ==
  /\ WF_vars(Dispatch) /\ WF_vars(SendAcknowledgement)
  /\ WF_vars(Ping) /\ WF_vars(Timeout)

Spec == Init /\ [][Next]_vars /\ Fairness

-----------------------------------------------------------------------------
(* Properties. *)

\* A complete connection is one its client has taken part in, and what is handed
\* to the handler was sent on it, not on an earlier one whose datagrams are late.
OwnConnection ==
  /\ peer.state = "connected" =>
       \E d \in net : d.cmd = "acknowledge" /\ d.from = peer.addr /\ d.id = peer.id
  /\ \A i \in DOMAIN peer.dispatched : peer.dispatched[i].id = peer.id

\* The speaker is on only for a client that has logged in and is still connected,
\* as far as the server can know.
SpeakerHasOwner ==
  speaking => data = 1 /\ peer.state \in {"connected", "acknowledging_disconnect", "zombie"}

TypeOK ==
  /\ started \in 0 .. MaxConnects
  /\ peer.state \in {"disconnected", "acknowledging_connect", "connected",
                     "acknowledging_disconnect", "zombie"}
  /\ peer.in \in SessionIds \cup {Unset} /\ peer.out \in SessionIds \cup {Unset}
  /\ data \in {0, 1} /\ g_peers \subseteq Slots /\ speaking \in BOOLEAN

\* A client that goes, however it goes, does not leave the speaker on.
SpeakerReleased == speaking /\ ~Present ~> ~speaking \/ Present

=============================================================================
