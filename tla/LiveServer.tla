------------------------------ MODULE LiveServer ------------------------------
(***************************************************************************)
(* The live source of src/live.c with the parts it lives between: the      *)
(* streams it listens to (src/stream.c), the sessions of src/session.c and *)
(* src/rtsp.c, the RTP endpoints of src/rtp.c and the TCP connections that *)
(* carry interleaved ones.  Unicast mode (the program without -M).         *)
(*                                                                         *)
(* One thread runs event_loop, so a handler is one action.  A session of   *)
(* the three lists (struct session, live_session, rtsp_session) is one     *)
(* element of Sessions: entry[s] is the live_entry whose list it is in,    *)
(* known says that it has an rtsp_session, and so an id a client can send. *)
(* An endpoint is the pair <<s, i>>, for ep[i - 1] of session s.           *)
(*                                                                         *)
(* The initial state is the one in which event_loop starts: every track    *)
(* has been set up by set_track and waits for its first frame.             *)
(***************************************************************************)
EXTENDS Integers, Sequences

CONSTANTS
  Tracks,      \* g_tracks, each connected to a stream of its own
  Entries,     \* the "RTSP-Handler Live" blocks
  TrackList,   \* TrackList[e]: the tracks of entry e, which may share them
  Held,        \* the tracks whose stream an HTTP location listens to as well
  Sessions,    \* bound: the sessions open at one time
  Conns,       \* bound: the TCP connections open at one time
  Channels,    \* MAX_INTERLEAVE_CHANNELS
  NoEntry, NoEndpoint, NoPlace      \* NULL pointers

MAX_TRACKS == 2

ASSUME TrackListAssumption ==
  /\ TrackList \in [Entries -> Seq(Tracks)]
  /\ \A e \in Entries : Len(TrackList[e]) \in 1 .. MAX_TRACKS
ASSUME HeldAssumption == Held \subseteq Tracks
ASSUME ChannelsAssumption == Channels \in Nat /\ Channels >= 2

Endpoints == Sessions \X (1 .. MAX_TRACKS)
Chan      == 0 .. Channels - 1
Places    == Conns \X (0 .. Channels - 2)   \* rtp_chan, with rtcp_chan above it

ASSUME NullAssumption == /\ NoEntry \notin Entries
                         /\ NoEndpoint \notin Endpoints \X {"rtp", "rtcp"}
                         /\ NoPlace \notin Conns \X Chan

\* (A name that ends in _ and words is a wrong version of the definition that
\* follows it: a plausible slip, with which some property must fail.)

VARIABLES
  waiting,    \* the tracks whose destination has its waiting flag set
  running,    \* the tracks whose camera or microphone is switched on
  ready,      \* the tracks that have seen a frame
  entry,      \* entry[s]: the entry session s is open at
  known,      \* the sessions with an rtsp_session
  playing,    \* the sessions that have been played
  trans,      \* trans[x]: trans_type of endpoint x, "none" when there is none
  place,      \* place[x]: conn and rtp_chan of an interleaved endpoint
  sent,       \* the endpoints with packet_count # 0 (their force_rtcp is reset)
  timer,      \* the UDP endpoints whose rtcp_send_event is enabled
  silent,     \* the UDP endpoints with last_rtcp_recv over 15 seconds ago
  conns,      \* the open connections
  ichan,      \* ichan[c][k]: the endpoint at interleave channel k of c
  crashed     \* the process has died

trackVars == <<waiting, running, ready>>
epVars    == <<trans, place, sent, timer, silent, ichan>>
vars == <<trackVars, entry, known, playing, epVars, conns, crashed>>

TypeOK ==
  /\ waiting \in SUBSET Tracks /\ running \in SUBSET Tracks /\ ready \in SUBSET Tracks
  /\ entry \in [Sessions -> Entries \cup {NoEntry}]
  /\ known \in SUBSET Sessions /\ playing \in SUBSET Sessions
  /\ trans \in [Endpoints -> {"none", "udp", "tcp"}]
  /\ place \in [Endpoints -> Places \cup {NoPlace}]
  /\ sent \in SUBSET Endpoints
  /\ timer \in SUBSET Endpoints /\ silent \in SUBSET Endpoints
  /\ conns \in SUBSET Conns
  /\ ichan \in [Conns -> [Chan -> (Endpoints \X {"rtp", "rtcp"}) \cup {NoEndpoint}]]
  /\ crashed \in BOOLEAN

-----------------------------------------------------------------------------

IsOpen(s)  == entry[s] # NoEntry
Exists(x)  == trans[x] # "none"
Of(s)      == {x \in Endpoints : x[1] = s /\ Exists(x)}

\* The track endpoint x sends.
TrackOf(x) == TrackList[entry[x[1]]][x[2]]

\* The endpoints next_live_frame sends the frames of track t to.
Viewers(t) == {x \in Endpoints : Exists(x) /\ x[1] \in playing /\ TrackOf(x) = t}

-----------------------------------------------------------------------------
(* Listening to a stream: set_waiting and the set_running of an input       *)

\* set_waiting( srcstream, 1 ) for the tracks in T.
StartListening(T) ==
  /\ waiting' = waiting \cup T
  /\ running' = running \cup (T \ waiting)

\* set_waiting( srcstream, 0 ): the input goes off unless somebody else listens.
StopListening(T) ==
  /\ waiting' = waiting \ T
  /\ running' = running \ ((T \cap waiting) \ Held)

-----------------------------------------------------------------------------
(* Teardown: live_teardown, del_rtp_endpoint, track_check_running1,         *)
(* del_session and rtsp_session_close, for the endpoints in R, to which     *)
(* handlers apply them one after the other                                  *)

Interleaved_RtpOnly(R, c, k) ==
  \E x \in R : trans[x] = "tcp" /\ place[x] = <<c, k>>

\* del_rtp_endpoint: an interleaved endpoint also leaves its two channels.
Interleaved(R, c, k) ==
  \E x \in R : trans[x] = "tcp" /\ place[x] \in {<<c, k>>, <<c, k - 1>>}

DeleteEndpoints(R) ==
  /\ trans' = [x \in Endpoints |-> IF x \in R THEN "none" ELSE trans[x]]
  /\ place' = [x \in Endpoints |-> IF x \in R THEN NoPlace ELSE place[x]]
  /\ ichan' = [c \in Conns |-> [k \in Chan |->
                 IF Interleaved(R, c, k) THEN NoEndpoint ELSE ichan[c][k]]]
  /\ silent' = silent \ R

\* The sessions whose last endpoint is in R.
Emptied(R) == {s \in {x[1] : x \in R} : Of(s) \subseteq R}

CloseSessions_IdKept(S) ==
  /\ entry' = [s \in Sessions |-> IF s \in S THEN NoEntry ELSE entry[s]]
  /\ playing' = playing \ S
  /\ UNCHANGED known

CloseSessions(S) ==
  /\ entry' = [s \in Sessions |-> IF s \in S THEN NoEntry ELSE entry[s]]
  /\ known' = known \ S
  /\ playing' = playing \ S

Unviewed_NotPlayingCounts(R) ==
  {t \in {TrackOf(x) : x \in R} :
     {x \in Endpoints : Exists(x) /\ TrackOf(x) = t} \subseteq R}

Unviewed_SameEntry(R) ==
  {t \in {TrackOf(x) : x \in R} :
     \E y \in R : {x \in Viewers(t) : entry[x[1]] = entry[y[1]]} \subseteq R}

\* track_check_running1: the tracks in R that nobody views once R is gone.
Unviewed(R) == {t \in {TrackOf(x) : x \in R} : Viewers(t) \subseteq R}

Teardown(R) ==
  /\ DeleteEndpoints(R)
  /\ CloseSessions(Emptied(R))
  /\ StopListening(Unviewed(R))
  /\ sent' = sent \ R
  /\ timer' = timer \ R

-----------------------------------------------------------------------------

Init ==
  /\ waiting = Tracks /\ running = Tracks /\ ready = {}
  /\ entry = [s \in Sessions |-> NoEntry]
  /\ known = {} /\ playing = {}
  /\ trans = [x \in Endpoints |-> "none"]
  /\ place = [x \in Endpoints |-> NoPlace]
  /\ sent = {} /\ timer = {} /\ silent = {}
  /\ conns = {}
  /\ ichan = [c \in Conns |-> [k \in Chan |-> NoEndpoint]]
  /\ crashed = FALSE

(* Connections                                                              *)

Accept(c) ==
  /\ c \notin conns
  /\ conns' = conns \cup {c}
  /\ UNCHANGED <<trackVars, entry, known, playing, epVars, crashed>>

\* drop_conn, through rtsp_conn_disconnect: the endpoints whose RTP channel is
\* one of the connection's.
Disconnect(c) ==
  /\ c \in conns
  /\ conns' = conns \ {c}
  /\ Teardown({x \in Endpoints : \E k \in Chan : ichan[c][k] = <<x, "rtp">>})
  /\ UNCHANGED <<ready, crashed>>

(* SETUP                                                                    *)

\* The request names a session that exists, or a location that opens one; the
\* track exists and has no endpoint in the session yet.
CanSetUp(s, e, i) ==
  /\ IsOpen(s) => s \in known /\ entry[s] = e
  /\ i \in DOMAIN TrackList[e]
  /\ ~Exists(<<s, i>>)

\* live_open, if need be, and new_rtp_endpoint; the reply has a Session header.
NewEndpoint(s, e, i, transport) ==
  /\ entry' = [entry EXCEPT ![s] = e]
  /\ known' = known \cup {s}
  /\ trans' = [trans EXCEPT ![<<s, i>>] = transport]

SetupUdp(s, e, i) ==
  /\ CanSetUp(s, e, i)
  /\ NewEndpoint(s, e, i, "udp")
  /\ UNCHANGED <<trackVars, playing, place, sent, timer, silent, ichan, conns, crashed>>

Free(c, k) == ichan[c][k] = NoEndpoint

\* rtsp_interleave_setup: two adjacent channels, aligned or not, that the client
\* names; when it names none, the code picks a pair of these.
SetupInterleaved(s, e, i, c, k) ==
  /\ c \in conns
  /\ CanSetUp(s, e, i)
  /\ k + 1 \in Chan /\ Free(c, k) /\ Free(c, k + 1)
  /\ NewEndpoint(s, e, i, "tcp")
  /\ place' = [place EXCEPT ![<<s, i>>] = <<c, k>>]
  /\ ichan' = [ichan EXCEPT ![c][k] = <<<<s, i>>, "rtp">>,
                            ![c][k + 1] = <<<<s, i>>, "rtcp">>]
  /\ UNCHANGED <<trackVars, playing, sent, timer, silent, conns, crashed>>

\* The transport is refused: the channels are taken, the UDP ports have run out
\* or the header is not understood.  The endpoint just made is torn down again,
\* and with it the session if the request opened it.
RefuseSetup(t) ==
  /\ Viewers(t) = {}
  /\ StopListening({t})
  /\ UNCHANGED <<ready, entry, known, playing, epVars, conns, crashed>>

(* PLAY and TEARDOWN                                                        *)

\* live_play.  Without a Range header start is NULL, which it writes to when an
\* endpoint has already sent packets.
Play(s, range) ==
  /\ s \in known
  /\ IF ~range /\ Of(s) \cap sent # {}
       THEN crashed' = TRUE /\ UNCHANGED <<waiting, running, playing>>
       ELSE /\ playing' = playing \cup {s}
            /\ StartListening({TrackOf(x) : x \in Of(s)})
            /\ UNCHANGED crashed
  /\ UNCHANGED <<ready, entry, known, epVars, conns>>

\* TEARDOWN of a track, or of the session: i is 0 when the URI names no track.
\* A track that was never set up has no endpoint, which stands for all of them.
TeardownRequest(s, i) ==
  /\ s \in known
  /\ Teardown(IF <<s, i>> \in Of(s) THEN {<<s, i>>} ELSE Of(s))
  /\ UNCHANGED <<ready, conns, crashed>>

(* Media                                                                    *)

\* next_live_frame, for a frame that rtp->frame accepts.  served are the
\* viewers to which a first packet gets out: not those that wait for a key frame
\* or for the wireless link, nor those whose socket refuses it.  Their first
\* packet calls rtcp_send, which drops a client that has been silent since its
\* SETUP and returns an undefined value for the others: only if it happens not
\* to be negative is the timer started.
NextLiveFrame(t, served) ==
  LET first   == served \ sent
      dropped == {x \in first : trans[x] = "udp"} \cap silent
      stopped == Unviewed(dropped) \cup (IF t \in ready THEN {} ELSE {t})
  IN
  /\ t \in waiting
  /\ ready' = ready \cup {t}
  /\ DeleteEndpoints(dropped)
  /\ CloseSessions(Emptied(dropped))
  /\ StopListening(stopped)
  /\ sent' = (sent \cup served) \ dropped
  /\ \E started \in SUBSET {x \in first \ dropped : trans[x] = "udp"} :
       timer' = (timer \ dropped) \cup started
  /\ UNCHANGED <<conns, crashed>>

\* Nothing has come from the client of endpoint x for 15 seconds.
FallSilent(x) ==
  /\ trans[x] = "udp"
  /\ silent' = silent \cup {x}
  /\ UNCHANGED <<trackVars, entry, known, playing, trans, place, sent, timer,
                 ichan, conns, crashed>>

\* udp_rtcp_read or udp_rtp_read with a packet.
Receive(x) ==
  /\ x \in silent
  /\ silent' = silent \ {x}
  /\ UNCHANGED <<trackVars, entry, known, playing, trans, place, sent, timer,
                 ichan, conns, crashed>>

\* udp_rtcp_read or udp_rtp_read with an error: nobody listens at the client.
ReceiveError(x) ==
  /\ trans[x] = "udp"
  /\ Teardown({x})
  /\ UNCHANGED <<ready, conns, crashed>>

RtcpFire_ReturnsEarly(x) == x \in timer \cap silent /\ UNCHANGED vars

\* rtcp_fire, every second while enabled.  (With a client that is not silent,
\* or over TCP, it does nothing but ask for a wireless check.)
RtcpFire(x) ==
  /\ x \in timer \cap silent
  /\ Teardown({x})
  /\ UNCHANGED <<ready, conns, crashed>>

-----------------------------------------------------------------------------

Client ==
  \/ \E c \in Conns : Accept(c)
  \/ /\ conns # {}   \* a request arrives on a connection, whichever
     /\ \/ \E s \in Sessions, e \in Entries, i \in 1 .. MAX_TRACKS :
             \/ SetupUdp(s, e, i)
             \/ \E c \in Conns, k \in Chan : SetupInterleaved(s, e, i, c, k)
        \/ \E t \in Tracks : RefuseSetup(t)
        \/ \E s \in Sessions, range \in BOOLEAN : Play(s, range)
        \/ \E s \in Sessions, i \in 0 .. MAX_TRACKS : TeardownRequest(s, i)
  \/ \E x \in Endpoints : FallSilent(x) \/ Receive(x) \/ ReceiveError(x)

Frames == \E t \in Tracks : \E served \in SUBSET Viewers(t) : NextLiveFrame(t, served)

Next ==
  /\ ~crashed
  /\ \/ Client
     \/ \E c \in Conns : Disconnect(c)
     \/ Frames
     \/ \E x \in Endpoints : RtcpFire(x)

Spec == Init /\ [][Next]_vars

\* The event loop serves its timers and the descriptors it waits for.
FairSpec == Spec /\ \A x \in Endpoints : WF_vars(~crashed /\ RtcpFire(x))

-----------------------------------------------------------------------------
(* Properties                                                               *)

\* A channel leads to an endpoint that exists and is connected to it, and an
\* interleaved endpoint has both of its channels, on an open connection: no
\* order of SETUP, TEARDOWN, time-outs and disconnects leaves either pointing
\* at what has been freed.
ChannelsMatchEndpoints ==
  /\ \A c \in Conns : \A k \in Chan : ichan[c][k] # NoEndpoint =>
       LET x == ichan[c][k][1] IN
       /\ trans[x] = "tcp"
       /\ place[x] = <<c, IF ichan[c][k][2] = "rtp" THEN k ELSE k - 1>>
  /\ \A x \in Endpoints : trans[x] = "tcp" =>
       \E c \in conns : \E k \in Chan :
         /\ place[x] = <<c, k>>
         /\ ichan[c][k] = <<x, "rtp">> /\ ichan[c][k + 1] = <<x, "rtcp">>

\* Every open session has an id a client can send and an endpoint whose end
\* closes it, and no endpoint or id outlives its session: a session is never
\* left behind where neither a request nor a disconnect reaches it.
SessionsReachable ==
  /\ known = {s \in Sessions : IsOpen(s)}
  /\ \A s \in Sessions : IsOpen(s) <=> Of(s) # {}
  /\ playing \subseteq known

\* set_waiting's promise to an input: it is on exactly while a destination of
\* its stream listens.
OnWhileListened == running = waiting \cup Held

\* Once a track is ready nobody listens to its stream without a viewer: the
\* camera does not go on working for clients that have left, whichever way.
OffWhenUnviewed == \A t \in ready : t \in waiting => Viewers(t) # {}

\* The end of one viewer, in whatever entry, never stops a track others view.
KeepsOnWhileViewed ==
  [][\A t \in ready : t \in waiting \ waiting' => Viewers(t)' = {}]_vars

\* When every connection has gone and every UDP client is silent for good, the
\* cameras go off: only a viewer whose RTCP timer was never started holds one.
CamerasReleased ==
  <>[](conns = {} /\ {x \in Endpoints : trans[x] = "udp"} \subseteq silent) =>
    <>[](crashed \/ \A t \in ready \ Held : t \in running => ~(Viewers(t) \subseteq timer))

\* An endpoint sends a track of its session's entry, and what only a connected
\* endpoint has, only a connected one has.
EndpointsShaped ==
  \A x \in Endpoints :
    /\ Exists(x) => IsOpen(x[1]) /\ x[2] \in DOMAIN TrackList[entry[x[1]]]
    /\ x \in timer \cup silent => trans[x] = "udp"
    /\ x \in sent => Exists(x)

\* Inductive.
IInv == /\ TypeOK /\ ChannelsMatchEndpoints /\ SessionsReachable
        /\ OnWhileListened /\ OffWhenUnviewed /\ EndpointsShaped

=============================================================================
