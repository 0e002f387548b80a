-------------------------- MODULE LiveServer_proofs --------------------------
(***************************************************************************)
(* Theorems about LiveServer, for any tracks, entries that share them,     *)
(* sessions, connections and number of interleave channels.                *)
(*                                                                         *)
(* Whatever ends an endpoint (a request, a time-out, an error, the end of  *)
(* its connection) goes through live_teardown.  The lemmas of the first    *)
(* part say what that leaves; the second has one lemma per handler.        *)
(***************************************************************************)
EXTENDS LiveServer, TLAPS

USE TrackListAssumption, HeldAssumption, ChannelsAssumption, NullAssumption

\* The endpoints in R exist and a handler removes them.
Removes(R) ==
  /\ R \subseteq {x \in Endpoints : Exists(x)}
  /\ DeleteEndpoints(R)
  /\ CloseSessions(Emptied(R))

-----------------------------------------------------------------------------
(* What the removal of endpoints leaves                                     *)

\* An endpoint is a session and the number of a track.
LEMMA EndpointParts ==
  ASSUME NEW x \in Endpoints
  PROVE  /\ x[1] \in Sessions /\ x[2] \in 1 .. MAX_TRACKS
         /\ x = <<x[1], x[2]>>
BY DEF Endpoints

\* An endpoint that exists sends a track of the configuration.
LEMMA TrackOfExisting ==
  ASSUME TypeOK, EndpointsShaped, NEW x \in Endpoints, Exists(x)
  PROVE  TrackOf(x) \in Tracks /\ entry[x[1]] \in Entries
<1>1. x[1] \in Sessions BY EndpointParts
<1>2. entry[x[1]] \in Entries
  BY <1>1 DEF TypeOK, EndpointsShaped, IsOpen
<1>3. x[2] \in DOMAIN TrackList[entry[x[1]]] BY DEF EndpointsShaped
<1>4. TrackList[entry[x[1]]] \in Seq(Tracks) BY <1>2
<1>5. QED BY <1>2, <1>3, <1>4 DEF TrackOf

\* The other endpoints are untouched, and so is the session of each.
LEMMA RemovalKeepsOthers ==
  ASSUME TypeOK, NEW R, Removes(R), NEW x \in Endpoints
  PROVE  /\ Exists(x)' <=> Exists(x) /\ x \notin R
         /\ x \notin R => trans'[x] = trans[x] /\ place'[x] = place[x]
         /\ x \in R => trans'[x] = "none" /\ place'[x] = NoPlace
         /\ Exists(x)' => /\ x[1] \notin Emptied(R)
                          /\ entry'[x[1]] = entry[x[1]]
                          /\ TrackOf(x)' = TrackOf(x)
                          /\ x[1] \in playing' <=> x[1] \in playing
<1>1. /\ x \in R => trans'[x] = "none" /\ place'[x] = NoPlace
      /\ x \notin R => trans'[x] = trans[x] /\ place'[x] = place[x]
  BY DEF Removes, DeleteEndpoints
<1>2. Exists(x)' <=> Exists(x) /\ x \notin R
  BY <1>1 DEF Exists
<1>3. ASSUME Exists(x)' PROVE x[1] \notin Emptied(R)
  BY <1>2, <1>3 DEF Emptied, Of
<1>4. ASSUME Exists(x)'
      PROVE  entry'[x[1]] = entry[x[1]] /\ (x[1] \in playing' <=> x[1] \in playing)
  BY <1>3, <1>4, EndpointParts DEF Removes, CloseSessions
<1>5. ASSUME Exists(x)' PROVE TrackOf(x)' = TrackOf(x)
  BY <1>4, <1>5 DEF TrackOf
<1>6. QED BY <1>1, <1>2, <1>3, <1>4, <1>5

\* The endpoints of a session, and the viewers of a track, that are left.
LEMMA RemovalSets ==
  ASSUME TypeOK, NEW R, Removes(R)
  PROVE  /\ \A s \in Sessions : Of(s)' = Of(s) \ R
         /\ \A t \in Tracks : Viewers(t)' = Viewers(t) \ R
<1>1. \A s \in Sessions : Of(s)' = Of(s) \ R
  BY RemovalKeepsOthers DEF Of
<1>2. \A t \in Tracks : Viewers(t)' = Viewers(t) \ R
  BY RemovalKeepsOthers DEF Viewers
<1>3. QED BY <1>1, <1>2

\* Sessions are left with an endpoint or closed.
LEMMA RemovalKeepsSessionsReachable ==
  ASSUME TypeOK, SessionsReachable, NEW R, Removes(R)
  PROVE  SessionsReachable'
<1>1. ASSUME NEW s \in Sessions
      PROVE  /\ IsOpen(s)' <=> IsOpen(s) /\ s \notin Emptied(R)
             /\ IsOpen(s)' <=> Of(s)' # {}
  <2>1. entry'[s] = IF s \in Emptied(R) THEN NoEntry ELSE entry[s]
    BY DEF Removes, CloseSessions
  <2>2. IsOpen(s)' <=> IsOpen(s) /\ s \notin Emptied(R)
    BY <2>1 DEF IsOpen
  <2>3. Of(s)' = Of(s) \ R BY RemovalSets
  <2>4. IsOpen(s) <=> Of(s) # {} BY DEF SessionsReachable
  <2>5. s \in Emptied(R) => Of(s) \subseteq R BY DEF Emptied
  <2>6. ASSUME Of(s) # {}, Of(s) \subseteq R PROVE s \in Emptied(R)
    <3>1. PICK x \in Of(s) : x \in R BY <2>6
    <3>2. x[1] = s BY <3>1 DEF Of
    <3>3. QED BY <2>6, <3>1, <3>2 DEF Emptied
  <2>7. QED BY <2>2, <2>3, <2>4, <2>5, <2>6
<1>2. known' = {s \in Sessions : IsOpen(s)'}
  BY <1>1 DEF Removes, CloseSessions, SessionsReachable
<1>3. playing' \subseteq known'
  BY DEF Removes, CloseSessions, SessionsReachable
<1>4. QED BY <1>1, <1>2, <1>3 DEF SessionsReachable

\* What is left is typed.
LEMMA RemovalType ==
  ASSUME TypeOK, NEW R, Removes(R)
  PROVE  /\ entry' \in [Sessions -> Entries \cup {NoEntry}]
         /\ known' \in SUBSET Sessions /\ playing' \in SUBSET Sessions
         /\ trans' \in [Endpoints -> {"none", "udp", "tcp"}]
         /\ place' \in [Endpoints -> Places \cup {NoPlace}]
         /\ ichan' \in [Conns -> [Chan -> (Endpoints \X {"rtp", "rtcp"}) \cup {NoEndpoint}]]
         /\ silent' \in SUBSET Endpoints
BY DEF TypeOK, Removes, DeleteEndpoints, CloseSessions

\* A removal that takes the removed endpoints' timers and counts along leaves
\* no endpoint without its session, and no timer without its endpoint.
LEMMA RemovalKeepsShape ==
  ASSUME TypeOK, EndpointsShaped, NEW R, Removes(R),
         \A x \in timer' : x \notin R /\ (x \in timer \/ trans[x] = "udp"),
         \A x \in sent' : x \notin R /\ (x \in sent \/ Exists(x))
  PROVE  EndpointsShaped'
<1>1. ASSUME NEW x \in Endpoints
      PROVE  /\ Exists(x)' => IsOpen(x[1])' /\ x[2] \in DOMAIN TrackList[entry'[x[1]]]
             /\ x \in timer' \cup silent' => trans'[x] = "udp"
             /\ x \in sent' => Exists(x)'
  <2>1. Exists(x)' => IsOpen(x[1])' /\ x[2] \in DOMAIN TrackList[entry'[x[1]]]
    BY RemovalKeepsOthers DEF EndpointsShaped, IsOpen
  <2>2. silent' = silent \ R BY DEF Removes, DeleteEndpoints
  <2>3. x \in timer' \cup silent' => trans'[x] = "udp"
    BY <2>2, RemovalKeepsOthers DEF EndpointsShaped
  <2>4. x \in sent' => Exists(x)'
    BY RemovalKeepsOthers DEF EndpointsShaped
  <2>5. QED BY <2>1, <2>3, <2>4
<1>2. QED BY <1>1 DEF EndpointsShaped

\* An endpoint's channels are its own: two endpoints never share one.
LEMMA ChannelsNotShared ==
  ASSUME TypeOK, ChannelsMatchEndpoints,
         NEW x \in Endpoints, NEW y \in Endpoints, x # y,
         trans[x] = "tcp", trans[y] = "tcp",
         NEW c \in Conns, NEW k \in Chan, place[x] = <<c, k>>
  PROVE  place[y] \notin {<<c, k>>, <<c, k - 1>>, <<c, k + 1>>}
<1>1. PICK cy \in conns, ky \in Chan :
        /\ place[y] = <<cy, ky>>
        /\ ichan[cy][ky] = <<y, "rtp">> /\ ichan[cy][ky + 1] = <<y, "rtcp">>
  BY DEF ChannelsMatchEndpoints
<1>2. ichan[c][k] = <<x, "rtp">> /\ ichan[c][k + 1] = <<x, "rtcp">>
  <2>1. PICK cx \in conns, kx \in Chan :
          /\ place[x] = <<cx, kx>>
          /\ ichan[cx][kx] = <<x, "rtp">> /\ ichan[cx][kx + 1] = <<x, "rtcp">>
    BY DEF ChannelsMatchEndpoints
  <2>2. cx = c /\ kx = k BY <2>1
  <2>3. QED BY <2>1, <2>2
<1>3. ky \in Int /\ k \in Int BY DEF Chan
<1>4. cy = c => ky # k BY <1>1, <1>2
<1>5. cy = c => ky + 1 # k BY <1>1, <1>2
<1>6. cy = c => k + 1 # ky BY <1>1, <1>2
<1>7. QED BY <1>1, <1>3, <1>4, <1>5, <1>6

\* Channels and endpoints that are left still lead to each other, as long as no
\* connection is closed under an endpoint that stays.
LEMMA RemovalKeepsChannels ==
  ASSUME TypeOK, ChannelsMatchEndpoints, NEW R, Removes(R),
         \A x \in Endpoints : \A c \in Conns, k \in Chan :
           trans[x] = "tcp" /\ x \notin R /\ c \in conns /\ place[x] = <<c, k>>
             => c \in conns'
  PROVE  ChannelsMatchEndpoints'
<1>1. \A c \in Conns : \A k \in Chan :
        ichan'[c][k] = IF Interleaved(R, c, k) THEN NoEndpoint ELSE ichan[c][k]
  BY DEF Removes, DeleteEndpoints
<1>2. ASSUME NEW c \in Conns, NEW k \in Chan, ichan'[c][k] # NoEndpoint
      PROVE  /\ trans'[ichan'[c][k][1]] = "tcp"
             /\ place'[ichan'[c][k][1]]
                  = <<c, IF ichan'[c][k][2] = "rtp" THEN k ELSE k - 1>>
  <2>1. ichan'[c][k] = ichan[c][k] /\ ~Interleaved(R, c, k) BY <1>1, <1>2
  <2>2. PICK x \in Endpoints : \E u \in {"rtp", "rtcp"} : ichan[c][k] = <<x, u>>
    BY <1>2, <2>1 DEF TypeOK
  <2>3. ichan[c][k][1] = x BY <2>2
  <2>4. ichan[c][k] # NoEndpoint BY <1>2, <2>1
  <2>5. /\ trans[ichan[c][k][1]] = "tcp"
        /\ place[ichan[c][k][1]] = <<c, IF ichan[c][k][2] = "rtp" THEN k ELSE k - 1>>
    BY <2>4 DEF ChannelsMatchEndpoints
  <2>6. x \notin R BY <2>1, <2>3, <2>5 DEF Interleaved
  <2>7. trans'[x] = trans[x] /\ place'[x] = place[x] BY <2>6, RemovalKeepsOthers
  <2>8. QED BY <2>1, <2>3, <2>5, <2>7
<1>3. ASSUME NEW x \in Endpoints, trans'[x] = "tcp"
      PROVE  \E c \in conns' : \E k \in Chan :
               /\ place'[x] = <<c, k>>
               /\ ichan'[c][k] = <<x, "rtp">> /\ ichan'[c][k + 1] = <<x, "rtcp">>
  <2>1. x \notin R /\ trans[x] = "tcp" /\ place'[x] = place[x]
    BY <1>3, RemovalKeepsOthers
  <2>2. PICK c \in conns, k \in Chan :
          /\ place[x] = <<c, k>>
          /\ ichan[c][k] = <<x, "rtp">> /\ ichan[c][k + 1] = <<x, "rtcp">>
    BY <2>1 DEF ChannelsMatchEndpoints
  <2>3. c \in Conns /\ c \in conns' BY <2>1, <2>2 DEF TypeOK
  <2>4. k + 1 \in Chan
    <3>1. place[x] \in Places
      BY <2>2, <2>3, NullAssumption DEF TypeOK, Places, Chan
    <3>2. k \in 0 .. Channels - 2 BY <2>2, <3>1 DEF Places
    <3>3. QED BY <3>2 DEF Chan
  <2>5. ~Interleaved(R, c, k) /\ ~Interleaved(R, c, k + 1)
    <3>1. SUFFICES ASSUME NEW y \in R, trans[y] = "tcp"
                   PROVE  place[y] \notin {<<c, k>>, <<c, k - 1>>, <<c, k + 1>>}
      <4>1. (k + 1) - 1 = k BY DEF Chan
      <4>2. QED BY <3>1, <4>1 DEF Interleaved
    <3>2. y \in Endpoints /\ y # x BY <2>1 DEF Removes
    <3>3. QED BY <2>1, <2>2, <2>3, <3>1, <3>2, ChannelsNotShared
  <2>6. QED BY <1>1, <2>1, <2>2, <2>3, <2>4, <2>5
<1>4. QED BY <1>2, <1>3 DEF ChannelsMatchEndpoints

\* set_waiting keeps the input on exactly while somebody listens.
LEMMA ListeningKeepsOn ==
  ASSUME TypeOK, OnWhileListened, NEW T \in SUBSET Tracks,
         StopListening(T) \/ StartListening(T)
  PROVE  /\ OnWhileListened'
         /\ waiting' \in SUBSET Tracks /\ running' \in SUBSET Tracks
BY DEF TypeOK, OnWhileListened, StopListening, StartListening

\* A track nobody views after a removal is one of Unviewed's.
LEMMA UnviewedTracks ==
  ASSUME TypeOK, EndpointsShaped, NEW R, Removes(R), NEW t \in Tracks
  PROVE  /\ Unviewed(R) \subseteq Tracks
         /\ t \in Unviewed(R) => Viewers(t)' = {}
         /\ t \notin Unviewed(R) => (Viewers(t) # {} => Viewers(t)' # {})
<1>1. \A x \in R : x \in Endpoints /\ Exists(x) BY DEF Removes
<1>2. Unviewed(R) \subseteq Tracks BY <1>1, TrackOfExisting DEF Unviewed
<1>3. Viewers(t)' = Viewers(t) \ R BY RemovalSets
<1>4. t \in Unviewed(R) => Viewers(t)' = {} BY <1>3 DEF Unviewed
<1>5. ASSUME t \notin Unviewed(R), NEW v \in Viewers(t) PROVE Viewers(t)' # {}
  <2>1. CASE v \in R
    <3>1. t \in {TrackOf(x) : x \in R} BY <2>1, <1>5 DEF Viewers
    <3>2. ~(Viewers(t) \subseteq R) BY <1>5, <3>1 DEF Unviewed
    <3>3. QED BY <1>3, <3>2
  <2>2. CASE v \notin R BY <1>3, <1>5, <2>2
  <2>3. QED BY <2>1, <2>2
<1>6. QED BY <1>2, <1>4, <1>5

\* live_teardown, from whichever handler: the invariant holds after it, and the
\* tracks it stops have no viewer left.
LEMMA TeardownPreserves ==
  ASSUME IInv, NEW R, R \subseteq {x \in Endpoints : Exists(x)}, Teardown(R),
         ready' = ready, crashed' = crashed, conns' \in SUBSET Conns,
         \A x \in Endpoints : \A c \in Conns, k \in Chan :
           trans[x] = "tcp" /\ x \notin R /\ c \in conns /\ place[x] = <<c, k>>
             => c \in conns'
  PROVE  IInv' /\ \A t \in Tracks : t \in waiting \ waiting' => Viewers(t)' = {}
<1>1. /\ TypeOK /\ ChannelsMatchEndpoints /\ SessionsReachable
      /\ OnWhileListened /\ OffWhenUnviewed /\ EndpointsShaped
  BY DEF IInv
<1>2. Removes(R) BY DEF Removes, Teardown
<1>3. Unviewed(R) \in SUBSET Tracks
  BY <1>1, <1>2, TrackOfExisting DEF Removes, Unviewed
<1>4. StopListening(Unviewed(R)) BY DEF Teardown
<1>5. OnWhileListened' /\ waiting' \in SUBSET Tracks /\ running' \in SUBSET Tracks
  BY <1>1, <1>3, <1>4, ListeningKeepsOn
<1>6. TypeOK'
  BY <1>1, <1>2, <1>5, RemovalType DEF TypeOK, Teardown
<1>7. ChannelsMatchEndpoints' BY <1>1, <1>2, RemovalKeepsChannels
<1>8. SessionsReachable' BY <1>1, <1>2, RemovalKeepsSessionsReachable
<1>9. OffWhenUnviewed'
  <2>1. SUFFICES ASSUME NEW t \in ready, t \in waiting' PROVE Viewers(t)' # {}
    BY DEF OffWhenUnviewed
  <2>2. t \in Tracks /\ t \in waiting /\ t \notin Unviewed(R)
    BY <1>1, <2>1, <1>4 DEF TypeOK, StopListening
  <2>3. Viewers(t) # {} BY <1>1, <2>1, <2>2 DEF OffWhenUnviewed
  <2>4. Viewers(t) # {} => Viewers(t)' # {}
    BY <1>1, <1>2, <2>2, UnviewedTracks
  <2>5. QED BY <2>3, <2>4
<1>10. EndpointsShaped'
  <2>1. timer' = timer \ R /\ sent' = sent \ R BY DEF Teardown
  <2>2. /\ \A x \in timer' : x \notin R /\ (x \in timer \/ trans[x] = "udp")
        /\ \A x \in sent' : x \notin R /\ (x \in sent \/ Exists(x))
    BY <2>1
  <2>3. QED BY <1>1, <1>2, <2>2, RemovalKeepsShape
<1>11. \A t \in Tracks : t \in waiting \ waiting' => Viewers(t)' = {}
  BY <1>1, <1>2, <1>4, UnviewedTracks DEF StopListening
<1>12. QED BY <1>5, <1>6, <1>7, <1>8, <1>9, <1>10, <1>11 DEF IInv

-----------------------------------------------------------------------------
(* The handlers                                                             *)

\* What each step of the program is shown to do.
Preserved == IInv' /\ \A t \in ready : t \in waiting \ waiting' => Viewers(t)' = {}

\* The sets of endpoints depend on these variables only.
LEMMA SameEndpoints ==
  ASSUME trans' = trans, entry' = entry
  PROVE  /\ \A x \in Endpoints : (Exists(x)' <=> Exists(x)) /\ TrackOf(x)' = TrackOf(x)
         /\ \A s \in Sessions : Of(s)' = Of(s) /\ (IsOpen(s)' <=> IsOpen(s))
         /\ playing' = playing => \A t \in Tracks : Viewers(t)' = Viewers(t)
BY DEF Exists, TrackOf, Of, IsOpen, Viewers

\* A handler that changes no endpoint, session or track: accepting a
\* connection, receiving a packet or the death of the process.
LEMMA QuietPreserves ==
  ASSUME IInv,
         UNCHANGED <<waiting, running, ready, entry, known, playing, trans, place,
                     sent, timer, ichan>>,
         conns \subseteq conns', conns' \in SUBSET Conns,
         silent' \in SUBSET Endpoints, \A x \in silent' : trans[x] = "udp",
         crashed' \in BOOLEAN
  PROVE  Preserved
<1>1. /\ TypeOK /\ ChannelsMatchEndpoints /\ SessionsReachable
      /\ OnWhileListened /\ OffWhenUnviewed /\ EndpointsShaped
  BY DEF IInv
<1>2. TypeOK' BY <1>1 DEF TypeOK
<1>3. ChannelsMatchEndpoints'
  <2>1. trans' = trans /\ place' = place /\ ichan' = ichan OBVIOUS
  <2>2. ASSUME NEW x \in Endpoints, trans[x] = "tcp"
        PROVE  \E c \in conns' : \E k \in Chan :
                 /\ place[x] = <<c, k>>
                 /\ ichan[c][k] = <<x, "rtp">> /\ ichan[c][k + 1] = <<x, "rtcp">>
    <3>1. PICK c \in conns : \E k \in Chan :
                 /\ place[x] = <<c, k>>
                 /\ ichan[c][k] = <<x, "rtp">> /\ ichan[c][k + 1] = <<x, "rtcp">>
      BY <1>1, <2>2 DEF ChannelsMatchEndpoints
    <3>2. c \in conns' OBVIOUS
    <3>3. QED BY <3>1, <3>2
  <2>3. ASSUME NEW c \in Conns, NEW k \in Chan, ichan'[c][k] # NoEndpoint
        PROVE  /\ trans'[ichan'[c][k][1]] = "tcp"
               /\ place'[ichan'[c][k][1]]
                    = <<c, IF ichan'[c][k][2] = "rtp" THEN k ELSE k - 1>>
    <3>1. ichan[c][k] # NoEndpoint BY <2>1, <2>3
    <3>2. /\ trans[ichan[c][k][1]] = "tcp"
          /\ place[ichan[c][k][1]] = <<c, IF ichan[c][k][2] = "rtp" THEN k ELSE k - 1>>
      BY <1>1, <3>1 DEF ChannelsMatchEndpoints
    <3>3. QED BY <2>1, <3>2
  <2>4. \A x \in Endpoints : trans'[x] = "tcp" =>
          \E c \in conns' : \E k \in Chan :
            /\ place'[x] = <<c, k>>
            /\ ichan'[c][k] = <<x, "rtp">> /\ ichan'[c][k + 1] = <<x, "rtcp">>
    BY <2>1, <2>2, ZenonT(30)
  <2>5. QED BY <2>3, <2>4 DEF ChannelsMatchEndpoints
<1>4. SessionsReachable' BY <1>1, SameEndpoints DEF SessionsReachable
<1>5. OnWhileListened' BY <1>1 DEF OnWhileListened
<1>6. OffWhenUnviewed'
  BY <1>1, SameEndpoints DEF OffWhenUnviewed, TypeOK
<1>7. EndpointsShaped' BY <1>1, SameEndpoints DEF EndpointsShaped, IsOpen
<1>8. QED BY <1>2, <1>3, <1>4, <1>5, <1>6, <1>7 DEF IInv, Preserved

\* A connection is accepted.
LEMMA AcceptPreserves ==
  ASSUME IInv, NEW c \in Conns, Accept(c)
  PROVE  Preserved
<1>1. silent \in SUBSET Endpoints /\ \A x \in silent : trans[x] = "udp"
  BY DEF IInv, TypeOK, EndpointsShaped
<1>2. QED BY <1>1, QuietPreserves DEF Accept, IInv, TypeOK, trackVars, epVars

\* A client falls silent.
LEMMA FallSilentPreserves ==
  ASSUME IInv, NEW x \in Endpoints, FallSilent(x)
  PROVE  Preserved
<1>1. silent' \in SUBSET Endpoints /\ \A y \in silent' : trans[y] = "udp"
  BY DEF IInv, TypeOK, EndpointsShaped, FallSilent
<1>2. QED BY <1>1, QuietPreserves DEF FallSilent, IInv, TypeOK, trackVars

\* A client is heard of again.
LEMMA ReceivePreserves ==
  ASSUME IInv, NEW x \in Endpoints, Receive(x)
  PROVE  Preserved
<1>1. silent' \in SUBSET Endpoints /\ \A y \in silent' : trans[y] = "udp"
  BY DEF IInv, TypeOK, EndpointsShaped, Receive
<1>2. QED BY <1>1, QuietPreserves DEF Receive, IInv, TypeOK, trackVars

\* The endpoints found through a connection's channels are all there are on
\* it: when it goes away no endpoint that stays was carried by it.
LEMMA DisconnectPreserves ==
  ASSUME IInv, NEW c \in Conns, Disconnect(c)
  PROVE  Preserved
<1> DEFINE R == {x \in Endpoints : \E k \in Chan : ichan[c][k] = <<x, "rtp">>}
<1>1. ChannelsMatchEndpoints /\ TypeOK BY DEF IInv
<1>2. R \subseteq {x \in Endpoints : Exists(x)}
  <2>1. SUFFICES ASSUME NEW x \in Endpoints, NEW k \in Chan, ichan[c][k] = <<x, "rtp">>
                 PROVE  Exists(x)
    OBVIOUS
  <2>2. ichan[c][k] # NoEndpoint BY <2>1
  <2>3. trans[ichan[c][k][1]] = "tcp" BY <1>1, <2>2 DEF ChannelsMatchEndpoints
  <2>4. QED BY <2>1, <2>3 DEF Exists
<1>3. ASSUME NEW x \in Endpoints, NEW d \in Conns, NEW k \in Chan,
             trans[x] = "tcp", x \notin R, d \in conns, place[x] = <<d, k>>
      PROVE  d \in conns'
  <2>1. PICK d2 \in conns, k2 \in Chan :
          place[x] = <<d2, k2>> /\ ichan[d2][k2] = <<x, "rtp">>
    BY <1>1, <1>3 DEF ChannelsMatchEndpoints
  <2>2. d2 = d BY <1>3, <2>1
  <2>3. d # c BY <1>3, <2>1, <2>2
  <2>4. QED BY <1>3, <2>3 DEF Disconnect
<1>4. conns' \in SUBSET Conns BY <1>1 DEF Disconnect, TypeOK
<1>5. Teardown(R) /\ ready' = ready /\ crashed' = crashed BY DEF Disconnect
<1>6. ready \subseteq Tracks BY <1>1 DEF TypeOK
<1> HIDE DEF R
<1>7. IInv' /\ \A t \in Tracks : t \in waiting \ waiting' => Viewers(t)' = {}
  BY <1>2, <1>3, <1>4, <1>5, TeardownPreserves
<1>8. QED BY <1>6, <1>7 DEF Preserved

\* A handler that tears down endpoints and leaves the connections as they are.
LEMMA TeardownHandlerPreserves ==
  ASSUME IInv, NEW R, R \subseteq {x \in Endpoints : Exists(x)}, Teardown(R),
         UNCHANGED <<ready, conns, crashed>>
  PROVE  Preserved
<1>1. ready \subseteq Tracks /\ conns' \in SUBSET Conns BY DEF IInv, TypeOK
<1>2. IInv' /\ \A t \in Tracks : t \in waiting \ waiting' => Viewers(t)' = {}
  BY <1>1, TeardownPreserves
<1>3. QED BY <1>1, <1>2 DEF Preserved

\* TEARDOWN.
LEMMA TeardownRequestPreserves ==
  ASSUME IInv, NEW s \in Sessions, NEW i \in 0 .. MAX_TRACKS, TeardownRequest(s, i)
  PROVE  Preserved
<1> DEFINE R == IF <<s, i>> \in Of(s) THEN {<<s, i>>} ELSE Of(s)
<1>1. R \subseteq {x \in Endpoints : Exists(x)} BY DEF Of
<1>2. Teardown(R) /\ UNCHANGED <<ready, conns, crashed>> BY DEF TeardownRequest
<1> HIDE DEF R
<1>3. QED BY <1>1, <1>2, TeardownHandlerPreserves

\* An error on an endpoint's socket.
LEMMA ReceiveErrorPreserves ==
  ASSUME IInv, NEW x \in Endpoints, ReceiveError(x)
  PROVE  Preserved
<1>1. {x} \subseteq {y \in Endpoints : Exists(y)} BY DEF ReceiveError, Exists
<1>2. QED BY <1>1, TeardownHandlerPreserves DEF ReceiveError

\* The timer of a silent client.
LEMMA RtcpFirePreserves ==
  ASSUME IInv, NEW x \in Endpoints, RtcpFire(x)
  PROVE  Preserved
<1>1. {x} \subseteq {y \in Endpoints : Exists(y)}
  BY DEF RtcpFire, Exists, IInv, EndpointsShaped
<1>2. QED BY <1>1, TeardownHandlerPreserves DEF RtcpFire

\* A refused SETUP may stop a track, but only one without viewers.
LEMMA RefuseSetupPreserves ==
  ASSUME IInv, NEW t \in Tracks, RefuseSetup(t)
  PROVE  Preserved
<1>1. /\ TypeOK /\ ChannelsMatchEndpoints /\ SessionsReachable
      /\ OnWhileListened /\ OffWhenUnviewed /\ EndpointsShaped
  BY DEF IInv
<1>2. UNCHANGED <<ready, entry, known, playing, trans, place, sent, timer, silent,
                  ichan, conns, crashed>>
  BY DEF RefuseSetup, epVars
<1>3. OnWhileListened' /\ waiting' \in SUBSET Tracks /\ running' \in SUBSET Tracks
  BY <1>1, ListeningKeepsOn DEF RefuseSetup
<1>4. TypeOK' BY <1>1, <1>2, <1>3 DEF TypeOK
<1>5. ChannelsMatchEndpoints' BY <1>1, <1>2 DEF ChannelsMatchEndpoints
<1>6. SessionsReachable' BY <1>1, <1>2, SameEndpoints DEF SessionsReachable
<1>7. \A u \in Tracks : Viewers(u)' = Viewers(u) BY <1>2, SameEndpoints
<1>8. waiting' = waiting \ {t} BY DEF RefuseSetup, StopListening
<1>9. OffWhenUnviewed' BY <1>1, <1>2, <1>7, <1>8 DEF OffWhenUnviewed, TypeOK
<1>10. EndpointsShaped' BY <1>1, <1>2, SameEndpoints DEF EndpointsShaped, IsOpen
<1>11. Viewers(t)' = {} BY <1>7 DEF RefuseSetup
<1>12. QED BY <1>3, <1>4, <1>5, <1>6, <1>8, <1>9, <1>10, <1>11 DEF IInv, Preserved

\* PLAY turns the endpoints of a session into viewers of what it listens to.
LEMMA PlayPreserves ==
  ASSUME IInv, NEW s \in Sessions, NEW range \in BOOLEAN, Play(s, range)
  PROVE  Preserved
<1>1. /\ TypeOK /\ ChannelsMatchEndpoints /\ SessionsReachable
      /\ OnWhileListened /\ OffWhenUnviewed /\ EndpointsShaped
  BY DEF IInv
<1>2. UNCHANGED <<ready, entry, known, trans, place, sent, timer, silent, ichan, conns>>
  BY DEF Play, epVars
<1>3. CASE crashed' = TRUE /\ UNCHANGED <<waiting, running, playing>>
  <2>1. silent' \in SUBSET Endpoints /\ \A x \in silent' : trans[x] = "udp"
    BY <1>1, <1>2 DEF TypeOK, EndpointsShaped
  <2>2. QED BY <1>1, <1>2, <1>3, <2>1, QuietPreserves DEF TypeOK
<1>4. CASE /\ playing' = playing \cup {s}
           /\ StartListening({TrackOf(x) : x \in Of(s)})
           /\ UNCHANGED crashed
  <2> DEFINE T == {TrackOf(x) : x \in Of(s)}
  <2>1. T \in SUBSET Tracks BY <1>1, TrackOfExisting DEF Of
  <2>2. OnWhileListened' /\ waiting' \in SUBSET Tracks /\ running' \in SUBSET Tracks
    BY <1>1, <1>4, <2>1, ListeningKeepsOn
  <2>3. waiting' = waiting \cup T BY <1>4 DEF StartListening
  <2>4. TypeOK' BY <1>1, <1>2, <1>4, <2>2 DEF TypeOK
  <2>5. ChannelsMatchEndpoints' BY <1>1, <1>2 DEF ChannelsMatchEndpoints
  <2>6. s \in known BY DEF Play
  <2>7. SessionsReachable'
    BY <1>1, <1>2, <1>4, <2>6, SameEndpoints DEF SessionsReachable
  <2>8. \A t \in Tracks : Viewers(t) \subseteq Viewers(t)'
    BY <1>2, <1>4, SameEndpoints DEF Viewers
  <2>9. \A x \in Of(s), t \in Tracks : TrackOf(x) = t => x \in Viewers(t)'
    BY <1>2, <1>4, SameEndpoints DEF Viewers, Of
  <2>10. ASSUME NEW t \in ready, t \in waiting' PROVE Viewers(t)' # {}
    <3>1. CASE t \in waiting
      BY <1>1, <2>8, <2>10, <3>1 DEF OffWhenUnviewed, TypeOK
    <3>2. CASE t \in T BY <1>1, <2>1, <2>9, <2>10, <3>2
    <3>3. QED BY <2>3, <2>10, <3>1, <3>2
  <2>11. OffWhenUnviewed' BY <1>2, <2>10 DEF OffWhenUnviewed
  <2>12. EndpointsShaped' BY <1>1, <1>2, SameEndpoints DEF EndpointsShaped, IsOpen
  <2>13. QED
    BY <2>2, <2>3, <2>4, <2>5, <2>7, <2>11, <2>12 DEF IInv, Preserved
<1>5. QED BY <1>3, <1>4 DEF Play

\* The other endpoints keep their session and track when one is made.
LEMMA NewEndpointKeepsOthers ==
  ASSUME TypeOK, EndpointsShaped, NEW s \in Sessions, NEW e \in Entries,
         NEW i \in 1 .. MAX_TRACKS, NEW transport \in {"udp", "tcp"},
         CanSetUp(s, e, i), NewEndpoint(s, e, i, transport)
  PROVE  /\ trans[<<s, i>>] = "none" /\ trans'[<<s, i>>] = transport
         /\ entry'[s] = e
         /\ \A x \in Endpoints :
              /\ Exists(x)' <=> Exists(x) \/ x = <<s, i>>
              /\ x # <<s, i>> => trans'[x] = trans[x]
              /\ Exists(x) => entry'[x[1]] = entry[x[1]] /\ TrackOf(x)' = TrackOf(x)
<1>1. <<s, i>> \in Endpoints BY DEF Endpoints
<1>2. trans[<<s, i>>] = "none" BY DEF CanSetUp, Exists
<1>3. /\ trans' = [trans EXCEPT ![<<s, i>>] = transport]
      /\ entry' = [entry EXCEPT ![s] = e]
  BY DEF NewEndpoint
<1>4. trans'[<<s, i>>] = transport /\ entry'[s] = e BY <1>1, <1>3 DEF TypeOK
<1>5. ASSUME NEW x \in Endpoints
      PROVE  /\ x # <<s, i>> => trans'[x] = trans[x]
             /\ Exists(x)' <=> Exists(x) \/ x = <<s, i>>
  <2>1. x # <<s, i>> => trans'[x] = trans[x] BY <1>3 DEF TypeOK
  <2>2. QED BY <1>4, <2>1 DEF Exists
<1>6. ASSUME NEW x \in Endpoints, Exists(x)
      PROVE  entry'[x[1]] = entry[x[1]] /\ TrackOf(x)' = TrackOf(x)
  <2>1. x[1] \in Sessions BY EndpointParts
  <2>2. IsOpen(x[1]) BY <1>6 DEF EndpointsShaped
  <2>3. x[1] = s => entry[s] = e BY <2>2 DEF CanSetUp
  <2>4. entry'[x[1]] = entry[x[1]] BY <1>3, <2>1, <2>3 DEF TypeOK
  <2>5. QED BY <2>4 DEF TrackOf
<1>7. QED BY <1>2, <1>4, <1>5, <1>6

\* A SETUP opens a session with its first endpoint, takes no viewer away and
\* leaves the streams alone.
LEMMA SetupPreserves ==
  ASSUME IInv, NEW s \in Sessions, NEW e \in Entries,
         NEW i \in 1 .. MAX_TRACKS, NEW transport \in {"udp", "tcp"},
         CanSetUp(s, e, i), NewEndpoint(s, e, i, transport),
         UNCHANGED <<trackVars, playing, sent, timer, silent, conns, crashed>>,
         place' \in [Endpoints -> Places \cup {NoPlace}],
         ichan' \in [Conns -> [Chan -> (Endpoints \X {"rtp", "rtcp"}) \cup {NoEndpoint}]],
         ChannelsMatchEndpoints'
  PROVE  Preserved
<1>1. /\ TypeOK /\ ChannelsMatchEndpoints /\ SessionsReachable
      /\ OnWhileListened /\ OffWhenUnviewed /\ EndpointsShaped
  BY DEF IInv
<1>2. /\ trans[<<s, i>>] = "none" /\ trans'[<<s, i>>] = transport
      /\ entry'[s] = e
      /\ \A x \in Endpoints :
           /\ Exists(x)' <=> Exists(x) \/ x = <<s, i>>
           /\ x # <<s, i>> => trans'[x] = trans[x]
           /\ Exists(x) => entry'[x[1]] = entry[x[1]] /\ TrackOf(x)' = TrackOf(x)
  BY <1>1, NewEndpointKeepsOthers
<1>3. UNCHANGED <<waiting, running, ready, playing, sent, timer, silent, conns, crashed>>
  BY DEF trackVars
<1>4. <<s, i>> \in Endpoints BY DEF Endpoints
<1>5. /\ trans' \in [Endpoints -> {"none", "udp", "tcp"}]
      /\ entry' \in [Sessions -> Entries \cup {NoEntry}]
      /\ known' \in SUBSET Sessions
  BY <1>1 DEF TypeOK, NewEndpoint
<1>6. TypeOK' BY <1>1, <1>3, <1>5 DEF TypeOK
<1>7. SessionsReachable'
  <2>1. known' = known \cup {s} BY DEF NewEndpoint
  <2>2. \A r \in Sessions : IsOpen(r)' <=> IsOpen(r) \/ r = s
    BY <1>1 DEF NewEndpoint, IsOpen, TypeOK
  <2>3. \A r \in Sessions : r # s => Of(r)' = Of(r) BY <1>2 DEF Of
  <2>4. <<s, i>> \in Of(s)' BY <1>2, <1>4 DEF Of
  <2>5. known' = {r \in Sessions : IsOpen(r)'}
    BY <1>1, <2>1, <2>2 DEF SessionsReachable
  <2>6. \A r \in Sessions : IsOpen(r)' <=> Of(r)' # {}
    BY <1>1, <2>2, <2>3, <2>4 DEF SessionsReachable
  <2>7. playing' \subseteq known' BY <1>1, <1>3, <2>1 DEF SessionsReachable
  <2>8. QED BY <2>5, <2>6, <2>7 DEF SessionsReachable
<1>8. OnWhileListened' BY <1>1, <1>3 DEF OnWhileListened
<1>9. \A t \in Tracks : Viewers(t) \subseteq Viewers(t)'
  BY <1>2, <1>3 DEF Viewers
<1>10. OffWhenUnviewed' BY <1>1, <1>3, <1>9 DEF OffWhenUnviewed, TypeOK
<1>11. ASSUME NEW x \in Endpoints
       PROVE  /\ Exists(x)' => IsOpen(x[1])' /\ x[2] \in DOMAIN TrackList[entry'[x[1]]]
              /\ x \in timer' \cup silent' => trans'[x] = "udp"
              /\ x \in sent' => Exists(x)'
  <2>1. CASE x = <<s, i>>
    <3>1. IsOpen(x[1])' /\ x[2] \in DOMAIN TrackList[entry'[x[1]]]
      BY <1>2, <2>1 DEF IsOpen, CanSetUp
    <3>2. x \notin timer' \cup silent'
      BY <1>1, <1>2, <1>3, <1>4, <2>1 DEF EndpointsShaped
    <3>3. Exists(x)' BY <1>2, <1>4, <2>1
    <3>4. QED BY <3>1, <3>2, <3>3
  <2>2. CASE x # <<s, i>>
    BY <1>1, <1>2, <1>3, <2>2 DEF EndpointsShaped, IsOpen
  <2>3. QED BY <2>1, <2>2
<1>12. EndpointsShaped' BY <1>11 DEF EndpointsShaped
<1>13. QED
  BY <1>3, <1>6, <1>7, <1>8, <1>10, <1>12 DEF IInv, Preserved

\* SETUP over UDP leaves every interleave channel as it is.
LEMMA SetupUdpPreserves ==
  ASSUME IInv, NEW s \in Sessions, NEW e \in Entries, NEW i \in 1 .. MAX_TRACKS,
         SetupUdp(s, e, i)
  PROVE  Preserved
<1>1. TypeOK /\ ChannelsMatchEndpoints /\ EndpointsShaped BY DEF IInv
<1>2. CanSetUp(s, e, i) /\ NewEndpoint(s, e, i, "udp") BY DEF SetupUdp
<1>3. UNCHANGED <<trackVars, playing, place, sent, timer, silent, ichan, conns, crashed>>
  BY DEF SetupUdp
<1>4. \A x \in Endpoints : trans[x] = "tcp" <=> trans'[x] = "tcp"
  <2>1. /\ trans[<<s, i>>] = "none" /\ trans'[<<s, i>>] = "udp"
        /\ \A x \in Endpoints : x # <<s, i>> => trans'[x] = trans[x]
    BY <1>1, <1>2, NewEndpointKeepsOthers
  <2>2. QED BY <2>1
<1>5. ASSUME NEW c \in Conns, NEW k \in Chan, ichan'[c][k] # NoEndpoint
      PROVE  /\ trans'[ichan'[c][k][1]] = "tcp"
             /\ place'[ichan'[c][k][1]]
                  = <<c, IF ichan'[c][k][2] = "rtp" THEN k ELSE k - 1>>
  <2>1. ichan[c][k] # NoEndpoint BY <1>3, <1>5
  <2>2. /\ trans[ichan[c][k][1]] = "tcp"
        /\ place[ichan[c][k][1]] = <<c, IF ichan[c][k][2] = "rtp" THEN k ELSE k - 1>>
    BY <1>1, <2>1 DEF ChannelsMatchEndpoints
  <2>3. ichan[c][k][1] \in Endpoints BY <1>1, <2>1 DEF TypeOK
  <2>4. QED BY <1>3, <1>4, <2>2, <2>3
<1>6. ASSUME NEW x \in Endpoints, trans'[x] = "tcp"
      PROVE  \E c \in conns' : \E k \in Chan :
               /\ place'[x] = <<c, k>>
               /\ ichan'[c][k] = <<x, "rtp">> /\ ichan'[c][k + 1] = <<x, "rtcp">>
  BY <1>1, <1>3, <1>4, <1>6 DEF ChannelsMatchEndpoints
<1>7. ChannelsMatchEndpoints' BY <1>5, <1>6 DEF ChannelsMatchEndpoints
<1>8. QED BY <1>1, <1>2, <1>3, <1>7, SetupPreserves DEF TypeOK

\* Interleaved SETUP gives the new endpoint two free channels.
LEMMA SetupInterleavedPreserves ==
  ASSUME IInv, NEW s \in Sessions, NEW e \in Entries, NEW i \in 1 .. MAX_TRACKS,
         NEW c \in Conns, NEW k \in Chan, SetupInterleaved(s, e, i, c, k)
  PROVE  Preserved
<1>1. TypeOK /\ ChannelsMatchEndpoints /\ EndpointsShaped BY DEF IInv
<1>2. CanSetUp(s, e, i) /\ NewEndpoint(s, e, i, "tcp") /\ c \in conns
  BY DEF SetupInterleaved
<1>3. UNCHANGED <<trackVars, playing, sent, timer, silent, conns, crashed>>
  BY DEF SetupInterleaved
<1> DEFINE y == <<s, i>>
<1>4. y \in Endpoints BY DEF Endpoints
<1>5. k + 1 \in Chan /\ k \in 0 .. Channels - 2 /\ k + 1 # k
  BY DEF SetupInterleaved, Chan
<1>6. place' = [place EXCEPT ![y] = <<c, k>>] BY DEF SetupInterleaved
<1>7. ichan' = [ichan EXCEPT ![c][k] = <<y, "rtp">>, ![c][k + 1] = <<y, "rtcp">>]
  BY DEF SetupInterleaved
<1>8. ichan[c][k] = NoEndpoint /\ ichan[c][k + 1] = NoEndpoint
  BY DEF SetupInterleaved, Free
<1>9. /\ trans[y] = "none" /\ trans'[y] = "tcp"
      /\ \A x \in Endpoints : x # y => trans'[x] = trans[x]
  BY <1>1, <1>2, NewEndpointKeepsOthers
<1> HIDE DEF y
<1>10. place' \in [Endpoints -> Places \cup {NoPlace}]
  BY <1>1, <1>4, <1>5, <1>6 DEF TypeOK, Places
<1>11. /\ place'[y] = <<c, k>>
       /\ \A x \in Endpoints : x # y => place'[x] = place[x]
  BY <1>1, <1>4, <1>6 DEF TypeOK
<1>12. /\ ichan'[c][k] = <<y, "rtp">> /\ ichan'[c][k + 1] = <<y, "rtcp">>
       /\ \A d \in Conns : \A j \in Chan :
            d # c \/ j \notin {k, k + 1} => ichan'[d][j] = ichan[d][j]
  BY <1>1, <1>5, <1>7 DEF TypeOK
<1>13. ichan' \in [Conns -> [Chan -> (Endpoints \X {"rtp", "rtcp"}) \cup {NoEndpoint}]]
  BY <1>1, <1>4, <1>5, <1>7 DEF TypeOK
<1>14. ASSUME NEW d \in Conns, NEW j \in Chan, ichan'[d][j] # NoEndpoint
       PROVE  /\ trans'[ichan'[d][j][1]] = "tcp"
              /\ place'[ichan'[d][j][1]]
                   = <<d, IF ichan'[d][j][2] = "rtp" THEN j ELSE j - 1>>
  <2>1. CASE d = c /\ j = k
    <3>1. ichan'[d][j][1] = y /\ ichan'[d][j][2] = "rtp" BY <1>12, <2>1
    <3>2. QED BY <1>9, <1>11, <2>1, <3>1
  <2>2. CASE d = c /\ j = k + 1
    <3>1. ichan'[d][j][1] = y /\ ichan'[d][j][2] = "rtcp" BY <1>12, <2>2
    <3>2. j - 1 = k BY <1>5, <2>2
    <3>3. QED BY <1>9, <1>11, <2>2, <3>1, <3>2
  <2>3. CASE d # c \/ j \notin {k, k + 1}
    <3>1. ichan'[d][j] = ichan[d][j] BY <1>12, <2>3
    <3>2. /\ trans[ichan[d][j][1]] = "tcp"
          /\ place[ichan[d][j][1]] = <<d, IF ichan[d][j][2] = "rtp" THEN j ELSE j - 1>>
      BY <1>1, <1>14, <3>1 DEF ChannelsMatchEndpoints
    <3>3. ichan[d][j][1] \in Endpoints BY <1>1, <1>14, <3>1 DEF TypeOK
    <3>4. ichan[d][j][1] # y BY <1>9, <3>2
    <3>5. QED BY <1>9, <1>11, <3>1, <3>2, <3>3, <3>4
  <2>4. QED BY <2>1, <2>2, <2>3
<1>15. ASSUME NEW x \in Endpoints, trans'[x] = "tcp"
       PROVE  \E d \in conns' : \E j \in Chan :
                /\ place'[x] = <<d, j>>
                /\ ichan'[d][j] = <<x, "rtp">> /\ ichan'[d][j + 1] = <<x, "rtcp">>
  <2>1. CASE x = y BY <1>2, <1>3, <1>11, <1>12, <2>1
  <2>2. CASE x # y
    <3>1. trans[x] = "tcp" /\ place'[x] = place[x] BY <1>9, <1>11, <1>15, <2>2
    <3>2. PICK d \in conns, j \in Chan :
            /\ place[x] = <<d, j>>
            /\ ichan[d][j] = <<x, "rtp">> /\ ichan[d][j + 1] = <<x, "rtcp">>
      BY <1>1, <3>1 DEF ChannelsMatchEndpoints
    <3>3. d \in Conns BY <1>1, <3>2 DEF TypeOK
    <3>4. j + 1 \in Chan
      <4>1. place[x] \in Places BY <1>1, <3>2, <3>3 DEF TypeOK, Places, Chan
      <4>2. j \in 0 .. Channels - 2 BY <3>2, <4>1 DEF Places
      <4>3. QED BY <4>2 DEF Chan
    <3>5. <<x, "rtp">> # NoEndpoint /\ <<x, "rtcp">> # NoEndpoint OBVIOUS
    <3>6. d = c => j \notin {k, k + 1} /\ j + 1 \notin {k, k + 1}
      BY <1>8, <3>2, <3>5
    <3>7. ichan'[d][j] = ichan[d][j] /\ ichan'[d][j + 1] = ichan[d][j + 1]
      BY <1>12, <3>2, <3>3, <3>4, <3>6
    <3>8. QED BY <1>3, <3>1, <3>2, <3>7
  <2>3. QED BY <2>1, <2>2
<1>16. ChannelsMatchEndpoints' BY <1>14, <1>15 DEF ChannelsMatchEndpoints
<1>17. QED BY <1>2, <1>3, <1>10, <1>13, <1>16, SetupPreserves

\* A frame: its first packet to a silent client ends that client's endpoint, its
\* first frame stops the track, and neither stops a ready track others view.
LEMMA NextLiveFramePreserves ==
  ASSUME IInv, NEW t \in Tracks, NEW served \in SUBSET Viewers(t),
         NextLiveFrame(t, served)
  PROVE  Preserved
<1>1. /\ TypeOK /\ ChannelsMatchEndpoints /\ SessionsReachable
      /\ OnWhileListened /\ OffWhenUnviewed /\ EndpointsShaped
  BY DEF IInv
<1> DEFINE first   == served \ sent
           dropped == {x \in first : trans[x] = "udp"} \cap silent
           stopped == Unviewed(dropped) \cup (IF t \in ready THEN {} ELSE {t})
<1>2. /\ t \in waiting /\ ready' = ready \cup {t}
      /\ DeleteEndpoints(dropped) /\ CloseSessions(Emptied(dropped))
      /\ StopListening(stopped)
      /\ sent' = (sent \cup served) \ dropped
      /\ conns' = conns /\ crashed' = crashed
  BY DEF NextLiveFrame
<1>3. PICK started \in SUBSET {x \in first \ dropped : trans[x] = "udp"} :
        timer' = (timer \ dropped) \cup started
  BY DEF NextLiveFrame
<1>4. \A x \in served : x \in Endpoints /\ Exists(x) BY DEF Viewers
<1>5. /\ \A x \in started : x \in served /\ x \notin dropped /\ trans[x] = "udp"
      /\ dropped \subseteq served
  OBVIOUS
<1> HIDE DEF dropped, first
<1>6. Removes(dropped) BY <1>2, <1>4, <1>5 DEF Removes
<1>7. Unviewed(dropped) \in SUBSET Tracks
  BY <1>1, <1>6, TrackOfExisting DEF Removes, Unviewed
<1>8. stopped \in SUBSET Tracks BY <1>7
<1>9. OnWhileListened' /\ waiting' \in SUBSET Tracks /\ running' \in SUBSET Tracks
  BY <1>1, <1>2, <1>8, ListeningKeepsOn
<1>10. TypeOK'
  <2>1. ready' \in SUBSET Tracks BY <1>1, <1>2 DEF TypeOK
  <2>2. sent' \in SUBSET Endpoints BY <1>1, <1>2, <1>4 DEF TypeOK
  <2>3. timer' \in SUBSET Endpoints BY <1>1, <1>3, <1>4, <1>5 DEF TypeOK
  <2>4. QED BY <1>1, <1>2, <1>6, <1>9, <2>1, <2>2, <2>3, RemovalType DEF TypeOK
<1>11. ChannelsMatchEndpoints' BY <1>1, <1>2, <1>6, RemovalKeepsChannels
<1>12. SessionsReachable' BY <1>1, <1>6, RemovalKeepsSessionsReachable
<1>13. EndpointsShaped'
  <2>1. \A x \in timer' : x \notin dropped /\ (x \in timer \/ trans[x] = "udp")
    BY <1>3, <1>5
  <2>2. \A x \in sent' : x \notin dropped /\ (x \in sent \/ Exists(x))
    BY <1>2, <1>4
  <2>3. QED BY <1>1, <1>6, <2>1, <2>2, RemovalKeepsShape
<1>14. waiting' = waiting \ stopped BY <1>2 DEF StopListening
<1>15. ASSUME NEW u \in ready', u \in waiting' PROVE Viewers(u)' # {}
  <2>1. u \in Tracks /\ u \in waiting /\ u \notin stopped
    BY <1>10, <1>14, <1>15 DEF TypeOK
  <2>2. u \in ready BY <1>2, <1>15, <2>1
  <2>3. Viewers(u) # {} BY <1>1, <2>1, <2>2 DEF OffWhenUnviewed
  <2>4. Viewers(u) # {} => Viewers(u)' # {}
    BY <1>1, <1>6, <2>1, UnviewedTracks
  <2>5. QED BY <2>3, <2>4
<1>16. OffWhenUnviewed' BY <1>15 DEF OffWhenUnviewed
<1>17. ASSUME NEW u \in ready, u \in waiting \ waiting' PROVE Viewers(u)' = {}
  <2>1. u \in Tracks /\ u \in stopped BY <1>1, <1>14, <1>17 DEF TypeOK
  <2>2. u \in Unviewed(dropped) BY <1>17, <2>1
  <2>3. QED BY <1>1, <1>6, <2>1, <2>2, UnviewedTracks
<1>18. QED
  BY <1>9, <1>10, <1>11, <1>12, <1>13, <1>16, <1>17 DEF IInv, Preserved

-----------------------------------------------------------------------------
(* The invariant and its consequences                                       *)

\* Every step of the program preserves the invariant.
LEMMA StepPreserves ==
  ASSUME IInv, [Next]_vars
  PROVE  Preserved
<1>1. CASE UNCHANGED vars
  <2>1. UNCHANGED <<waiting, running, ready, entry, known, playing, trans, place,
                    sent, timer, silent, conns, ichan, crashed>>
    BY <1>1 DEF vars, trackVars, epVars
  <2>2. silent' \in SUBSET Endpoints /\ \A x \in silent' : trans[x] = "udp"
    BY <2>1 DEF IInv, TypeOK, EndpointsShaped
  <2>3. conns \subseteq conns' /\ conns' \in SUBSET Conns /\ crashed' \in BOOLEAN
    BY <2>1 DEF IInv, TypeOK
  <2>4. QED BY <2>1, <2>2, <2>3, QuietPreserves
<1>2. CASE Client
  <2>1. CASE \E c \in Conns : Accept(c) BY <2>1, AcceptPreserves
  <2>2. CASE \E s \in Sessions, e \in Entries, i \in 1 .. MAX_TRACKS : SetupUdp(s, e, i)
    BY <2>2, SetupUdpPreserves
  <2>3. CASE \E s \in Sessions, e \in Entries, i \in 1 .. MAX_TRACKS :
               \E c \in Conns, k \in Chan : SetupInterleaved(s, e, i, c, k)
    BY <2>3, SetupInterleavedPreserves
  <2>4. CASE \E t \in Tracks : RefuseSetup(t) BY <2>4, RefuseSetupPreserves
  <2>5. CASE \E s \in Sessions, range \in BOOLEAN : Play(s, range)
    BY <2>5, PlayPreserves
  <2>6. CASE \E s \in Sessions, i \in 0 .. MAX_TRACKS : TeardownRequest(s, i)
    BY <2>6, TeardownRequestPreserves
  <2>7. CASE \E x \in Endpoints : FallSilent(x) \/ Receive(x) \/ ReceiveError(x)
    BY <2>7, FallSilentPreserves, ReceivePreserves, ReceiveErrorPreserves
  <2>8. QED
    BY <1>2, <2>1, <2>2, <2>3, <2>4, <2>5, <2>6, <2>7 DEF Client
<1>3. CASE \E c \in Conns : Disconnect(c) BY <1>3, DisconnectPreserves
<1>4. CASE Frames BY <1>4, NextLiveFramePreserves DEF Frames
<1>5. CASE \E x \in Endpoints : RtcpFire(x) BY <1>5, RtcpFirePreserves
<1>6. QED BY <1>1, <1>2, <1>3, <1>4, <1>5 DEF Next

\* The invariant holds when event_loop starts.
LEMMA InitIInv ==
  ASSUME Init
  PROVE  IInv
<1>1. TypeOK BY DEF Init, TypeOK
<1>2. ChannelsMatchEndpoints BY DEF Init, ChannelsMatchEndpoints
<1>3. \A x \in Endpoints : ~Exists(x) BY DEF Init, Exists
<1>4. \A s \in Sessions : ~IsOpen(s) /\ Of(s) = {} BY <1>3 DEF Init, IsOpen, Of
<1>5. SessionsReachable BY <1>4 DEF Init, SessionsReachable
<1>6. OnWhileListened BY DEF Init, OnWhileListened
<1>7. OffWhenUnviewed BY DEF Init, OffWhenUnviewed
<1>8. EndpointsShaped BY <1>3 DEF Init, EndpointsShaped
<1>9. QED BY <1>1, <1>2, <1>5, <1>6, <1>7, <1>8 DEF IInv

\* The inductive invariant of the live source, its sessions and channels.
THEOREM Invariance == Spec => []IInv
<1>1. Init => IInv BY InitIInv
<1>2. IInv /\ [Next]_vars => IInv' BY StepPreserves DEF Preserved
<1>3. QED BY <1>1, <1>2, PTL DEF Spec

\* Tracks, sessions, endpoints and channels keep their types.
THEOREM TypeCorrect == Spec => []TypeOK
<1>1. IInv => TypeOK BY DEF IInv
<1>2. QED BY <1>1, Invariance, PTL

\* No order of SETUP, TEARDOWN, time-outs, errors and disconnects leaves an
\* interleave channel pointing at a freed endpoint, or an endpoint sending
\* through a connection that has gone (rtsp.c, rtp.c).
THEOREM ChannelsCorrect == Spec => []ChannelsMatchEndpoints
<1>1. IInv => ChannelsMatchEndpoints BY DEF IInv
<1>2. QED BY <1>1, Invariance, PTL

\* Every session is closed with its last endpoint, and can be named until then
\* (live_teardown, rtsp_session_close).
THEOREM SessionsCorrect == Spec => []SessionsReachable
<1>1. IInv => SessionsReachable BY DEF IInv
<1>2. QED BY <1>1, Invariance, PTL

\* The inputs are on exactly while a destination listens (set_waiting).
THEOREM InputsCorrect == Spec => []OnWhileListened
<1>1. IInv => OnWhileListened BY DEF IInv
<1>2. QED BY <1>1, Invariance, PTL

\* A ready track nobody views is not listened to (track_check_running1).
THEOREM CamerasOff == Spec => []OffWhenUnviewed
<1>1. IInv => OffWhenUnviewed BY DEF IInv
<1>2. QED BY <1>1, Invariance, PTL

\* A ready track that somebody views, in whatever entry, is never stopped
\* (track_check_running1 searches every entry that has the track).
THEOREM NeverStoppedUnderViewers == Spec => KeepsOnWhileViewed
<1>1. IInv /\ [Next]_vars =>
        [\A t \in ready : t \in waiting \ waiting' => Viewers(t)' = {}]_vars
  BY StepPreserves DEF Preserved
<1>2. QED BY <1>1, Invariance, PTL DEF Spec, KeepsOnWhileViewed
=============================================================================
