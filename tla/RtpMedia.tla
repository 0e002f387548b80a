------------------------------ MODULE RtpMedia ------------------------------
(***************************************************************************)
(* The RTP packetizers (rtp-h264.c, rtp-mpeg4.c, rtp-jpeg.c,               *)
(* rtp-rawaudio.c, and rtp-mpv.c and rtp-mpa.c, which the Makefile leaves  *)
(* out) as operators.  Each format has two functions: frame                *)
(* parses a captured frame into the packetizer's private state and says    *)
(* whether it can be sent, send cuts what was parsed into packets of at    *)
(* most max_data_size bytes.  Lengths are the real ones; bytes are         *)
(* positions in the pieces of the frame they come from.                    *)
(***************************************************************************)
EXTENDS Integers, Sequences, SequencesExt

Null == 0

Formats == {"h264", "mpeg4", "jpeg", "audio", "mpv", "mpa"}

\* A stretch [from, to) of the bytes of piece el of a frame.
Seg(el, from, to) == [el |-> el, from |-> from, to |-> to]

\* A packet: the bytes of its payload header, the stretches it carries, the
\* quantization tables it carries (each named by the frame it is of), the
\* marker bit.
Packet(hdr, segs, tables, marker) ==
    [hdr |-> hdr, segs |-> segs, tables |-> tables, marker |-> marker]

\* The loop "for (i = from; i < len; i += plen)" of three of the senders, and the
\* inner one of two others: the stretches of piece el, of which the one that
\* starts at i has room[i] bytes at most.
Cut(el, from, len, room) ==
    LET cut[i \in Nat] ==
            IF i >= len THEN << >>
            ELSE LET to == IF len - i > room[i] THEN i + room[i] ELSE len
                 IN  <<Seg(el, i, to)>> \o cut[to]
    IN  cut[from]

\* A packet for each stretch; the one that ends the piece may have the marker.
Fragments(hdr, cuts, len, marked) ==
    [k \in DOMAIN cuts |-> Packet(hdr, <<cuts[k]>>, << >>, marked /\ cuts[k].to = len)]

-----------------------------------------------------------------------------
(* H.264: the frame is one unit after a start code of 3 or 4 bytes.        *)

H264Init == [len |-> 0]

H264Frame(out, f) ==
    IF f.code \in {3, 4} THEN [ok |-> TRUE, out |-> [len |-> f.len - f.code]]
    ELSE [ok |-> FALSE, out |-> out]

H264Send_HeaderForgotten(out, max) ==
    IF out.len <= max
    THEN <<Packet(0, <<Seg(1, 0, out.len)>>, << >>, TRUE)>>
    ELSE Fragments(2, Cut(1, 1, out.len, [i \in Nat |-> max]), out.len, TRUE)

\* A unit that fits is sent as it is; else its first byte goes into the two
\* header bytes of each fragment.
H264Send(out, max) ==
    IF out.len <= max
    THEN <<Packet(0, <<Seg(1, 0, out.len)>>, << >>, TRUE)>>
    ELSE Fragments(2, Cut(1, 1, out.len, [i \in Nat |-> max - 2]), out.len, TRUE)

-----------------------------------------------------------------------------
(* MPEG-4: the frame is a sequence of elements, each with a start code.    *)
(* The headers before a VOP are the configuration the SDP announces.       *)

MaxIov == 24
ConfigSize == 512

\* config: the header elements collected, of config_len bytes; fmtp: those
\* announced.
Mpeg4Init == [iov |-> << >>, config |-> << >>, config_len |-> 0, fmtp |-> << >>,
              init_done |-> FALSE]

AddToRtpBuf(out, e) ==
    IF Len(out.iov) = MaxIov THEN out ELSE [out EXCEPT !.iov = Append(@, e)]

AddToConfig(out, e) ==
    IF out.config_len + e.len > ConfigSize THEN out
    ELSE [out EXCEPT !.config = Append(@, e), !.config_len = @ + e.len]

FinishConfig(out) ==
    [out EXCEPT !.fmtp = out.config, !.config = << >>, !.config_len = 0, !.init_done = TRUE]

\* Elements that only follow others in a configuration.
Follows(out, e) == IF out.config_len > 0 THEN AddToConfig(out, e) ELSE out

ParsePlane(out, e) ==
    LET o == IF out.config_len > 0 THEN FinishConfig(out) ELSE out
    IN  IF o.init_done /\ e.good THEN AddToRtpBuf(o, e) ELSE o

\* Elements with another start code, and layers without their marker bits,
\* are left out.
ParseElement(out, e) ==
    CASE e.code \in {"VOS", "VO"}     -> AddToRtpBuf(AddToConfig(out, e), e)
      [] e.code \in {"1B2", "VISUAL"} -> AddToRtpBuf(Follows(out, e), e)
      [] e.code = "VOL" /\ e.good     -> AddToRtpBuf(Follows(out, e), e)
      [] e.code = "VOP"               -> ParsePlane(out, e)
      [] OTHER                        -> out

Mpeg4Frame(out, f) ==
    LET after[k \in 0 .. Len(f.elements)] ==
            IF k = 0 THEN [out EXCEPT !.iov = << >>]
            ELSE ParseElement(after[k - 1], f.elements[k])
        o == after[Len(f.elements)]
    IN  [ok |-> o.init_done, out |-> o]

\* Element i of len bytes is added to what has been filled: the packets sent, the
\* stretches of the next one and the space in it.  If that is too small it is
\* filled up and sent, and so are packets of their own as long as the rest is
\* larger than one.
Mpeg4Fill(filled, i, len, max) ==
    IF len <= filled.space
    THEN [filled EXCEPT !.segs = Append(@, Seg(i, 0, len)), !.space = @ - len]
    ELSE LET cuts == Cut(i, filled.space, len, [j \in Nat |-> max])
             rest == Last(cuts)
         IN  [sent |-> Append(filled.sent,
                              Packet(0, Append(filled.segs, Seg(i, 0, filled.space)), << >>, FALSE))
                         \o Fragments(0, Front(cuts), len, FALSE),
              segs |-> <<rest>>,
              space |-> max - (rest.to - rest.from)]

Mpeg4Send(out, max) ==
    LET after[i \in 0 .. Len(out.iov)] ==
            IF i = 0 THEN [sent |-> << >>, segs |-> << >>, space |-> max]
            ELSE Mpeg4Fill(after[i - 1], i, out.iov[i].len, max)
        filled == after[Len(out.iov)]
    IN  Append(filled.sent, Packet(0, filled.segs, << >>, TRUE))

-----------------------------------------------------------------------------
(* JPEG: the frame is a sequence of marker segments up to the scan.  The   *)
(* quantization tables are pointers into the frame, quant says of which.   *)

JpegHeader == 8
JpegTables == 132

NoTables == [t \in 0 .. 15 |-> Null]

JpegInit == [quant |-> NoTables, luma |-> 0, chroma |-> 0, scan |-> 0, init_done |-> FALSE]

\* One marker segment m of the frame numbered n; stop says how the loop ends.
ParseMarker(n, st, m) ==
    LET Fails == [st EXCEPT !.stop = "error", !.out.scan = 0]
        Tables == [t \in 0 .. 15 |-> IF t \in m.ids THEN n ELSE st.out.quant[t]]
    IN  IF st.stop # "no" THEN st
        ELSE CASE m.marker = "DQT" ->
                    IF m.good THEN [st EXCEPT !.out.quant = Tables] ELSE Fails
               [] m.marker = "SOF" ->
                    IF ~m.good \/ \E t \in {m.luma, m.chroma} : st.out.quant[t] = Null
                    THEN [Fails EXCEPT !.out.chroma = -1]
                    ELSE [st EXCEPT !.out.luma = m.luma, !.out.chroma = m.chroma]
               [] m.marker = "DHT" -> [st EXCEPT !.out.init_done = TRUE]
               [] m.marker = "SOS" -> [st EXCEPT !.out.scan = m.len, !.stop = "scan"]
               [] m.marker = "junk" -> Fails
               [] OTHER -> st

Forget_Nothing(out) == out

\* The tables of the frame before are forgotten.
Forget(out) == [out EXCEPT !.quant = NoTables]

\* Frame f is the one numbered n.
JpegFrame(out, n, f) ==
    LET after[k \in 0 .. Len(f.markers)] ==
            IF k = 0 THEN [out |-> Forget(out), stop |-> "no"]
            ELSE ParseMarker(n, after[k - 1], f.markers[k])
        st == after[Len(f.markers)]
    IN  [ok |-> st.stop = "scan" /\ st.out.init_done,
         out |-> IF st.stop = "no" THEN [st.out EXCEPT !.scan = 0] ELSE st.out]

\* The first packet carries the tables, the others the main header only.
JpegSend(out, max) ==
    LET Hdr  == [i \in Nat |-> IF i = 0 THEN JpegHeader + JpegTables ELSE JpegHeader]
        cuts == Cut(1, 0, out.scan, [i \in Nat |-> max - Hdr[i]])
    IN  [k \in DOMAIN cuts |->
            Packet(Hdr[cuts[k].from], <<cuts[k]>>,
                   IF cuts[k].from = 0 THEN <<out.quant[out.luma], out.quant[out.chroma]>> ELSE << >>,
                   cuts[k].to = out.scan)]

-----------------------------------------------------------------------------
(* Raw audio: samples are not cut, and no packet has the marker.           *)

AudioInit == [len |-> 0, unit |-> 2]

AudioFrame(out, f) == [ok |-> TRUE, out |-> [out EXCEPT !.len = f.len]]

AudioSend(out, max) ==
    Fragments(0, Cut(1, 0, out.len,
                     [i \in Nat |-> IF out.len - i > max THEN max - (max % out.unit) ELSE max]),
              out.len, FALSE)

-----------------------------------------------------------------------------
(* MPEG-1 and MPEG-2 video: what precedes the first group or picture is the *)
(* sequence header, which is kept (vsh) and goes with every I picture.      *)

MpvHeader == 4
MaxBlk == 48

MpvInit == [blk |-> << >>, type |-> 0, vsh |-> 0, init_done |-> FALSE]

MpvBlock(out, e) ==
    [out EXCEPT !.blk = Append(@, e.len),
                !.type = IF e.code = "PICTURE" /\ out.init_done THEN e.type ELSE @]

\* One element of a frame: a header the decoder starts with, another before the
\* picture, a group, the picture's header, or a slice.
MpvElement(st, e) ==
    IF Len(st.out.blk) = MaxBlk THEN st
    ELSE IF st.in_picture \/ e.code \in {"GOP", "PICTURE", "SLICE"}
    THEN [st EXCEPT !.in_picture = TRUE, !.out = MpvBlock(@, e)]
    ELSE IF e.code = "SEQUENCE"
    THEN [st EXCEPT !.have_vsh = TRUE, !.out = [@ EXCEPT !.vsh = e.len, !.init_done = TRUE]]
    ELSE IF st.have_vsh THEN [st EXCEPT !.out.vsh = st.out.vsh + e.len] ELSE st

MpvFrame(out, f) ==
    LET after[k \in 0 .. Len(f.elements)] ==
            IF k = 0
            THEN [out |-> [out EXCEPT !.blk = << >>], in_picture |-> FALSE, have_vsh |-> FALSE]
            ELSE MpvElement(after[k - 1], f.elements[k])
        st == after[Len(f.elements)]
    IN  [ok |-> st.out.init_done, out |-> st.out]

\* The lengths of what is sent: the header is the first piece of an I picture.
MpvPieces(out) == (IF out.type = 1 THEN <<out.vsh>> ELSE << >>) \o out.blk

\* What has been filled is sent if block i, of len bytes, does not fit behind it; of
\* a block larger than a packet four bytes have to.
MpvFlush(filled, len, room) ==
    IF filled.space >= (IF len > room THEN 4 ELSE len) THEN filled
    ELSE [sent |-> Append(filled.sent, Packet(MpvHeader, filled.segs, << >>, FALSE)),
          segs |-> << >>, space |-> room]

\* The first fragment of a block larger than a packet fills this one, and the
\* others have their own.
MpvFill(filled, i, len, room, last) ==
    IF len <= filled.space
    THEN [filled EXCEPT !.segs = Append(@, Seg(i, 0, len)), !.space = @ - len]
    ELSE [sent |-> Append(filled.sent,
                          Packet(MpvHeader, Append(filled.segs, Seg(i, 0, filled.space)), << >>, FALSE))
                     \o Fragments(MpvHeader, Cut(i, filled.space, len, [j \in Nat |-> room]), len, last),
          segs |-> << >>,
          space |-> room]

\* The sequence header is put into the first packet whatever its size.
MpvSend(out, max) ==
    LET room == max - MpvHeader
        lens == MpvPieces(out)
        after[i \in 0 .. Len(lens)] ==
            IF i = 0 THEN [sent |-> << >>, segs |-> << >>, space |-> room]
            ELSE IF i = 1 /\ out.type = 1
            THEN [sent |-> << >>, segs |-> <<Seg(1, 0, lens[1])>>, space |-> room - lens[1]]
            ELSE MpvFill(MpvFlush(after[i - 1], lens[i], room), i, lens[i], room, i = Len(lens))
        filled == after[Len(lens)]
    IN  IF filled.segs = << >> THEN filled.sent
        ELSE Append(filled.sent, Packet(MpvHeader, filled.segs, << >>, TRUE))

-----------------------------------------------------------------------------
(* MPEG audio: the header's four bytes are not taken off the packet's size. *)

MpaHeader == 4

MpaInit == [len |-> 0]

MpaFrame(out, f) == [ok |-> TRUE, out |-> [len |-> f.len]]

MpaSend(out, max) ==
    Fragments(MpaHeader, Cut(1, 0, out.len, [i \in Nat |-> max]), out.len, TRUE)

-----------------------------------------------------------------------------
(* What next_live_frame calls through the functions of struct rtp_media.   *)

MediaInit(fmt) ==
    CASE fmt = "h264"  -> H264Init
      [] fmt = "mpeg4" -> Mpeg4Init
      [] fmt = "jpeg"  -> JpegInit
      [] fmt = "audio" -> AudioInit
      [] fmt = "mpv"   -> MpvInit
      [] fmt = "mpa"   -> MpaInit

\* n is the number of frame f.
MediaFrame(fmt, out, n, f) ==
    CASE fmt = "h264"  -> H264Frame(out, f)
      [] fmt = "mpeg4" -> Mpeg4Frame(out, f)
      [] fmt = "jpeg"  -> JpegFrame(out, n, f)
      [] fmt = "audio" -> AudioFrame(out, f)
      [] fmt = "mpv"   -> MpvFrame(out, f)
      [] fmt = "mpa"   -> MpaFrame(out, f)

MediaSend(fmt, out, max) ==
    CASE fmt = "h264"  -> H264Send(out, max)
      [] fmt = "mpeg4" -> Mpeg4Send(out, max)
      [] fmt = "jpeg"  -> JpegSend(out, max)
      [] fmt = "audio" -> AudioSend(out, max)
      [] fmt = "mpv"   -> MpvSend(out, max)
      [] fmt = "mpa"   -> MpaSend(out, max)

\* The lengths of the pieces a parsed frame has to be sent in full of.
Pieces(fmt, out) ==
    CASE fmt = "h264"  -> <<out.len>>
      [] fmt = "mpeg4" -> [i \in DOMAIN out.iov |-> out.iov[i].len]
      [] fmt = "jpeg"  -> <<out.scan>>
      [] fmt = "mpv"   -> MpvPieces(out)
      [] OTHER         -> <<out.len>>

=============================================================================
