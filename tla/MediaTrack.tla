----------------------------- MODULE MediaTrack -----------------------------
(***************************************************************************)
(* One track of the live source and the endpoints of the sessions that     *)
(* watch it: next_live_frame (live.c) parses each captured frame once and  *)
(* sends it to one endpoint after the other through send_rtp_packet        *)
(* (rtp.c), while the wireless thread sets and clears g_bStopSend.  An     *)
(* endpoint that has lost a key frame is sent nothing up to the next one.  *)
(*                                                                         *)
(* UDP packets sendmsg refuses end the sending of the frame; a packet that *)
(* finds the ring of an RTSP connection full is left out and counted.      *)
(***************************************************************************)
EXTENDS RtpMedia

CONSTANTS Endpoints,    \* the endpoints the sessions may have for the track
          Frames,       \* for each format, the frames its input delivers
          Tracks,       \* the formats of track that are checked
          MaxFrames     \* bound: frames delivered

-----------------------------------------------------------------------------
(* What the inputs deliver.  The parsers take the following for granted.   *)

\* The bytes of the first k elements.
BytesOf(es) ==
    LET bytes[k \in 0 .. Len(es)] == IF k = 0 THEN 0 ELSE bytes[k - 1] + es[k].len
    IN  bytes

\* An MPEG-4 frame that has headers starts with a whole configuration, which
\* fits into its buffer, and a plane follows.
ConfigCodes == {"VOS", "VO", "1B2", "VISUAL", "VOL"}

Mpeg4Input(es) ==
    \E h \in 0 .. Len(es) :
        /\ \A i \in DOMAIN es : es[i].code \in ConfigCodes => i <= h
        /\ h > 0 =>
             /\ es[1].code \in {"VOS", "VO"} /\ es[1].len > 0
             /\ \A i \in 1 .. h : es[i].code \in ConfigCodes
             /\ h < Len(es) /\ es[h + 1].code = "VOP"
             /\ \A k \in 0 .. h : BytesOf(es)[k] <= ConfigSize

\* What an MPEG video frame has before its picture fits into a packet.
MpvInput(es) ==
    /\ \A i \in DOMAIN es : es[i].code = "PICTURE" => es[i].type \in 0 .. 7
    /\ \E h \in 0 .. Len(es) :
          /\ h < Len(es) => es[h + 1].code \in {"GOP", "PICTURE", "SLICE"}
          /\ \A k \in 0 .. h : BytesOf(es)[k] <= 1400 - MpvHeader

\* A scan comes after a frame header, and is not empty.
JpegInput(ms) ==
    \A i \in DOMAIN ms :
        /\ ms[i].marker = "SOF" => ms[i].luma \in 0 .. 15 /\ ms[i].chroma \in 0 .. 15
        /\ ms[i].marker = "SOS" =>
             ms[i].len \in Nat \ {0} /\ \E j \in 1 .. i - 1 : ms[j].marker = "SOF"

Elements(format) == UNION { ToSet(f.elements) : f \in Frames[format] }

Markers == UNION { ToSet(f.markers) : f \in Frames["jpeg"] }

Input(format, f) ==
    /\ format = "h264" => f.len \in Nat /\ (f.code \in {3, 4} => f.code <= f.len)
    /\ format \in {"audio", "mpa"} => f.len \in Nat \ {0}
    /\ format \in {"mpeg4", "mpv"} =>
         f.elements \in Seq(Elements(format)) /\ \A i \in DOMAIN f.elements : f.elements[i].len \in Nat
    /\ format = "mpeg4" => Mpeg4Input(f.elements)
    /\ format = "mpv" => MpvInput(f.elements)
    /\ format = "jpeg" => f.markers \in Seq(Markers) /\ JpegInput(f.markers)

ASSUME FramesAssumption ==
    /\ Tracks \subseteq Formats
    /\ MaxFrames \in Nat
    /\ \A format \in Tracks : \A f \in Frames[format] : Input(format, f)

-----------------------------------------------------------------------------
VARIABLES fmt,       \* the format of the track
          out,       \* the packetizer's private state
          frame,     \* the kind of the frame being sent, or "none"
          todo,      \* endpoints next_live_frame has still to look at
          count,     \* frames delivered so far
          ep,        \* the endpoints
          g_bStopSend,
          wire,      \* per endpoint, what its client got of the last frame
          keyed      \* per endpoint, whether its client has all of the last
                     \* key frame the packetizer took while it played

vars == <<fmt, out, frame, todo, count, ep, g_bStopSend, wire, keyed>>

Results == {"none", "sent", "failed"}

NoEndpoint == [trans |-> "none", playing |-> FALSE, lost |-> TRUE, force |-> TRUE,
               step |-> 1]

\* trans: the transport, "none" when there is no endpoint; step: how far the
\* next sequence number is from the last one the client got (2 stands for
\* more than 1).
TypeOK ==
    /\ fmt \in Tracks
    /\ frame \in {"none", "key", "delta"}
    /\ todo \subseteq Endpoints
    /\ count \in 0 .. MaxFrames
    /\ ep \in [Endpoints -> [trans : {"none", "udp", "inter"}, playing : BOOLEAN,
                             lost : BOOLEAN, force : BOOLEAN, step : 0 .. 2]]
    /\ g_bStopSend \in BOOLEAN
    /\ \A e \in Endpoints : wire[e].result \in Results
    /\ keyed \in [Endpoints -> BOOLEAN]

\* steps: how far the sequence number of each packet is from the one before.
NoWire == [result |-> "none", key |-> FALSE, packets |-> << >>, steps |-> << >>]

Init ==
    /\ fmt \in Tracks
    /\ out = MediaInit(fmt)
    /\ frame = "none"
    /\ todo = {}
    /\ count = 0
    /\ ep = [e \in Endpoints |-> NoEndpoint]
    /\ g_bStopSend = FALSE
    /\ wire = [e \in Endpoints |-> NoWire]
    /\ keyed = [e \in Endpoints |-> FALSE]

MaxDataSize(e) == IF ep[e].trans = "udp" THEN 1400 ELSE 8192

-----------------------------------------------------------------------------
(* The event thread, between frames                                        *)

Idle == frame = "none"

\* SETUP: a new endpoint, connected over UDP or to the RTSP connection.
Setup(e) ==
    /\ Idle
    /\ ep[e].trans = "none"
    /\ \E t \in {"udp", "inter"} : ep' = [ep EXCEPT ![e] = [NoEndpoint EXCEPT !.trans = t]]
    /\ wire' = [wire EXCEPT ![e] = NoWire]
    /\ keyed' = [keyed EXCEPT ![e] = FALSE]
    /\ UNCHANGED <<fmt, out, frame, todo, count, g_bStopSend>>

Play(e) ==
    /\ Idle
    /\ ep[e].trans # "none"
    /\ ep' = [ep EXCEPT ![e].playing = TRUE]
    /\ UNCHANGED <<fmt, out, frame, todo, count, g_bStopSend, wire, keyed>>

\* TEARDOWN, the end of the RTSP connection, an error of the RTCP socket or
\* the time-out of the client.
Teardown(e) ==
    /\ Idle
    /\ ep[e].trans # "none"
    /\ ep' = [ep EXCEPT ![e] = NoEndpoint]
    /\ wire' = [wire EXCEPT ![e] = NoWire]
    /\ UNCHANGED <<fmt, out, frame, todo, count, g_bStopSend, keyed>>

\* next_live_frame up to its loop over the sessions; it returns at once for
\* a frame the packetizer does not take.
FrameArrives ==
    /\ Idle
    /\ count < MaxFrames
    /\ \E f \in Frames[fmt] :
          LET r == MediaFrame(fmt, out, count + 1, f)
          IN  /\ out' = r.out
              /\ IF r.ok
                 THEN /\ frame' = IF f.key THEN "key" ELSE "delta"
                      /\ todo' = Endpoints
                 ELSE UNCHANGED <<frame, todo>>
    /\ count' = count + 1
    /\ wire' = [e \in Endpoints |-> NoWire]
    /\ UNCHANGED <<fmt, ep, g_bStopSend, keyed>>

-----------------------------------------------------------------------------
(* send_rtp_packet for each packet of the frame                            *)

\* What becomes of one packet: on its way, refused by sendmsg or left out of
\* a full ring.  For the first packet of an endpoint rtcp_send follows: it
\* returns no value for a live client, so the sending may go on or fail, and
\* it ends a UDP client that has been silent for too long.
Outcomes(x) ==
    CASE x.trans = "udp"   /\ x.force  -> {"ok", "refused", "ok_failed", "ended"}
      [] x.trans = "udp"   /\ ~x.force -> {"ok", "refused"}
      [] x.trans = "inter" /\ x.force  -> {"ok", "full", "ok_failed", "full_failed"}
      [] x.trans = "inter" /\ ~x.force -> {"ok", "full"}

OnItsWay(st, p) ==
    [st EXCEPT !.got = Append(@, p), !.steps = Append(@, st.x.step), !.x.force = FALSE]

Skipped_NotCounted(st) == [st EXCEPT !.x.force = FALSE]

\* A packet left out of a full ring takes its sequence number with it.
Skipped(st) == [st EXCEPT !.x.step = 2, !.x.force = FALSE]

\* A sending that has failed is over.
SendRtpPacket(st, p, outcome) ==
    CASE outcome = "ok"          -> [OnItsWay(st, p) EXCEPT !.x.step = 1]
      [] outcome = "full"        -> Skipped(st)
      [] outcome = "refused"     -> [st EXCEPT !.ret = -1]
      [] outcome = "ok_failed"   -> [OnItsWay(st, p) EXCEPT !.x.step = 0, !.ret = -1]
      [] outcome = "full_failed" -> [st EXCEPT !.x.force = FALSE, !.ret = -1]
      [] outcome = "ended"       -> [OnItsWay(st, p) EXCEPT !.x = NoEndpoint, !.ret = -1]

\* An endpoint before any packet of the frame.
Unsent(e) == [x |-> ep[e], got |-> << >>, steps |-> << >>, ret |-> 0]

\* Every way the send function of the packetizer can go.
Sendings(e) ==
    LET packets == MediaSend(fmt, out, MaxDataSize(e))
        after[k \in 0 .. Len(packets)] ==
            IF k = 0 THEN {Unsent(e)}
            ELSE UNION { IF st.ret < 0 THEN {st}
                         ELSE { SendRtpPacket(st, packets[k], o) : o \in Outcomes(st.x) }
                         : st \in after[k - 1] }
    IN  after[Len(packets)]

Withheld_Ignored(e) == Unsent(e)

\* While g_bStopSend is set nothing is sent, and the frame counts as lost.
Withheld(e) == [Unsent(e) EXCEPT !.ret = -1]

Gated(e) == ep[e].lost /\ frame = "delta"

Watches(e) == ep[e].trans # "none" /\ ep[e].playing

\* One endpoint of the loop in next_live_frame.  After an endpoint that has
\* ended the loop still writes to its memory, which nobody reads again.
SendTo(e) ==
    /\ ~Idle
    /\ e \in todo
    /\ Watches(e)
    /\ ~Gated(e)
    /\ \E st \in IF g_bStopSend THEN {Withheld(e)} ELSE Sendings(e) :
          /\ ep' = [ep EXCEPT ![e] =
                       IF frame = "key" /\ st.x.trans # "none"
                       THEN [st.x EXCEPT !.lost = st.ret # 0] ELSE st.x]
          /\ wire' = [wire EXCEPT ![e] =
                       [result |-> IF st.ret = 0 THEN "sent" ELSE "failed",
                        key |-> (frame = "key"), packets |-> st.got, steps |-> st.steps]]
          /\ keyed' = [keyed EXCEPT ![e] =
                       IF frame = "key"
                       THEN Len(st.got) = Len(MediaSend(fmt, out, MaxDataSize(e))) ELSE @]
    /\ todo' = todo \ {e}
    /\ UNCHANGED <<fmt, out, frame, count, g_bStopSend>>

PassOver(e) ==
    /\ ~Idle
    /\ e \in todo
    /\ Watches(e) => Gated(e)
    /\ todo' = todo \ {e}
    /\ UNCHANGED <<fmt, out, frame, count, ep, g_bStopSend, wire, keyed>>

\* unref_frame
FrameDone ==
    /\ ~Idle
    /\ todo = {}
    /\ frame' = "none"
    /\ UNCHANGED <<fmt, out, todo, count, ep, g_bStopSend, wire, keyed>>

\* The wireless thread, at any time (wireless_check.c).
StopSend ==
    /\ g_bStopSend' = ~g_bStopSend
    /\ UNCHANGED <<fmt, out, frame, todo, count, ep, wire, keyed>>

Next ==
    \/ \E e \in Endpoints : Setup(e) \/ Play(e) \/ Teardown(e) \/ SendTo(e) \/ PassOver(e)
    \/ FrameArrives
    \/ FrameDone
    \/ StopSend

Spec == Init /\ [][Next]_vars

-----------------------------------------------------------------------------
(* Properties                                                              *)

PacketBytes(p) ==
    LET bytes[i \in 0 .. Len(p.segs)] ==
            IF i = 0 THEN p.hdr ELSE bytes[i - 1] + p.segs[i].to - p.segs[i].from
    IN  bytes[Len(p.segs)]

\* The byte after stretch a is the first one of stretch b.
GoesOn(a, b, lens) ==
    \/ b.el = a.el /\ b.from = a.to
    \/ a.to = lens[a.el] /\ b.el = a.el + 1 /\ b.from = 0

\* The stretches of the packets, put one after the other, run through all
\* pieces without a gap or an overlap.  A fragmented H.264 unit starts with
\* its second byte: the first is in the fragments' headers.
Reassembles(packets, lens) ==
    LET start == IF fmt = "h264" /\ Len(packets) > 1 THEN 1 ELSE 0
    IN  \/ lens = << >> /\ \A i \in DOMAIN packets : packets[i].segs = << >>
        \/ /\ packets # << >> /\ \A i \in DOMAIN packets : packets[i].segs # << >>
           /\ Head(packets[1].segs).el = 1 /\ Head(packets[1].segs).from = start
           /\ Last(Last(packets).segs).el = Len(lens)
           /\ Last(Last(packets).segs).to = lens[Len(lens)]
           /\ \A i \in DOMAIN packets : \A j \in 1 .. Len(packets[i].segs) - 1 :
                 GoesOn(packets[i].segs[j], packets[i].segs[j + 1], lens)
           /\ \A i \in 1 .. Len(packets) - 1 :
                 GoesOn(Last(packets[i].segs), Head(packets[i + 1].segs), lens)

Marked(packets) ==
    \A i \in DOMAIN packets :
        packets[i].marker = (fmt # "audio" /\ i = Len(packets))

\* What the send functions count as sent over UDP is the whole frame: the
\* packets put end to end are its bytes, none is larger than the endpoint
\* takes (of MPEG audio, by no more than the header), and the last one and no
\* other has the marker, but of raw audio none.
SentIsWhole ==
    \A e \in Endpoints :
        LET w == wire[e] IN
        ~Idle /\ ep[e].trans = "udp" /\ w.result = "sent" =>
            /\ Reassembles(w.packets, Pieces(fmt, out))
            /\ Marked(w.packets)
            /\ \A i \in DOMAIN w.packets : PacketBytes(w.packets[i])
                    <= MaxDataSize(e) + (IF fmt = "mpa" THEN MpaHeader ELSE 0)

\* A client can trust the sequence numbers: over either transport, a video
\* frame of which it has a packet with the marker, with no number missing
\* since the packet before the frame, is complete.
GaplessIsWhole ==
    \A e \in Endpoints :
        LET ps == wire[e].packets IN
        /\ ~Idle /\ ep[e].trans # "none" /\ ps # << >>
        /\ Last(ps).marker
        /\ \A i \in DOMAIN ps : wire[e].steps[i] = 1
        => Reassembles(ps, Pieces(fmt, out))

\* A frame that needs the key frame before it is sent to a UDP client only
\* if that client was sent all of the last key frame the packetizer took,
\* whatever sendmsg refused and whenever the wireless thread stopped sending.
NoOrphans ==
    \A e \in Endpoints :
        ep[e].trans = "udp" /\ wire[e].packets # << >> /\ ~wire[e].key => keyed[e]

\* What a client needs besides the frame is as new as the frame: a JPEG frame is
\* sent with its own quantization tables, not those of an earlier frame, whose
\* memory has gone back to the heap; and an MPEG-4 frame that has headers of its
\* own is sent when the SDP announces those.
SideDataCurrent ==
    /\ \A e \in Endpoints : fmt = "jpeg" =>
          \A i \in DOMAIN wire[e].packets : \A t \in ToSet(wire[e].packets[i].tables) : t = count
    /\ ~Idle /\ fmt = "mpeg4" =>
          \A i \in DOMAIN out.iov :
              out.iov[i].code \in {"VO", "VOL"} => out.iov[i] \in ToSet(out.fmtp)

=============================================================================
