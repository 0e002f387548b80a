---------------------------- MODULE Configuration ----------------------------
(***************************************************************************)
(* Reading the configuration (src/conf_parse.c and the directives of every *)
(* module that registers a context), and the graph of streams it builds    *)
(* (src/stream.c), which live tracks switch on and off afterwards.         *)
(*                                                                         *)
(* The text is either a sequence of statements, such as the one            *)
(* src/c_rtsp.c holds, or Free: then any statement may come next.  A       *)
(* statement is the tuple of a directive and its argument.  What a         *)
(* directive's function returns is not looked at (process_statement), so   *)
(* a directive that fails leaves the state as it is and reading goes on;   *)
(* only blocks can fail, and statements no context knows.                  *)
(*                                                                         *)
(* Contexts names the modules that are registered: those of                *)
(* c_init_rtsp_server are video, audio, live, http and log; the others are *)
(* in the repository, and src/spook.c registered them before.              *)
(***************************************************************************)
EXTENDS Integers, Sequences, FiniteSets

CONSTANTS
  Texts,        \* the configurations: sequences of statements, or Free
  Free,
  Contexts,     \* the registered contexts
  Names,        \* the stream names of a free text
  Rates,        \* the frame rates of a free text
  HeapCounts,   \* the FrameHeap sizes of a free text
  Codec,        \* Codec[i]: c_get_video_codec( i ) of the camera
  MaxBlocks,    \* bound: blocks of a free text
  MaxStreams    \* bound: streams of a free text

\* A track that is not in use has the empty name, which set_track finds like any other,
\* and the scanner lets a text have it.  No text is taken to ask for it.
ASSUME NamesAssumption ==
  /\ "" \notin Names
  /\ \A t \in Texts : t = Free \/ /\ Len(t) \in Nat
                                  /\ \A i \in 1 .. Len(t) : t[i] # <<"Track", "">>

LIVE_MAX_TRACKS  == 5
LIVE_MAX_ENTRIES == 4
MAX_TRACKS       == 2
MaxChannels      == 4     \* conf_array
AudioSlots       == 25

None == 0
Wild == -1      \* the pointer malloc left in a field nobody set

\* (A name that ends in _ and words is a wrong version of the definition that
\* follows it: a plausible slip, with which some property must fail.)

VARIABLES
  text, at,   \* the text and the place of the next statement in it
  status,     \* "reading", "accepted", "refused", "stopped", "exited" or "crashed"
  heap,       \* the frames left in the frame heap, Wild before FrameHeap
  listening,  \* tcp_listen has been called with success
  blocks,     \* the blocks opened so far
  cur,        \* the block being read, None in the global context
  net,        \* the streams and who listens to them, see below
  tracks,     \* g_tracks
  entries     \* the tracklist of every live_entry, None at its free places

vars == <<text, at, status, heap, listening, blocks, cur, net, tracks, entries>>

(* net.stream[s]  name, format, owner (the block that makes it, None for a  *)
(*                conversion) and feed (the destination a conversion reads) *)
(* net.order      stream_list, from its head                                *)
(* net.dest[d]    stream, owner (block), and the flag waiting               *)
(* net.input[b]   the destination block b reads, None or Wild               *)
(* net.running    the streams whose input has been told to run              *)

-----------------------------------------------------------------------------
(* The modules: what each registers with register_config_context.           *)
(*   needs, takes   the settings end_block asks for; the others              *)
(*   formats        what the Format directive knows                          *)
(*   accepts        the formats of the streams Input and Track connect to    *)
(*   makes          the format of the stream Output makes                    *)
(*   timed          there is a FrameRate or SampleRate, given only once      *)
(*   slots          the frames end_block moves from the heap to the slots of *)
(*                  its exchangers                                           *)
(*   wild           start_block leaves the input pointer as malloc returns it*)
(*   fallible       the device, or a sample rate, may not do                 *)

PerRate  == -1      \* as many slots as frames a second
PerTrack == -2      \* eight for every track

AsSet   == "as set"     \* what Format said
AsCodec == "as codec"   \* what the camera says
AsInput == "as input"   \* the format of the input

Plain == [role |-> "other", needs |-> {}, takes |-> {}, formats |-> {}, accepts |-> {},
          makes |-> "", timed |-> FALSE, slots |-> 0, wild |-> FALSE, fallible |-> FALSE]

Source == [Plain EXCEPT !.role = "source"]

Filter == [Plain EXCEPT !.role = "filter", !.wild = TRUE]

VideoModule == [Source EXCEPT !.takes = {"device", "framesize", "port"}, !.makes = AsCodec,
                              !.timed = TRUE, !.slots = PerRate]

AudioModule == [Source EXCEPT !.takes = {"device", "framesize", "port"}, !.makes = AsSet,
                              !.formats = {"pcm", "adpcm"}, !.timed = TRUE, !.slots = AudioSlots]

V4lModule == [Source EXCEPT !.needs = {"device", "inputtype"}, !.makes = "uyvy", !.timed = TRUE,
                            !.takes = {"framesize", "inputport", "webcam"}, !.slots = 8,
                            !.fallible = TRUE]

V4l2Module == [Source EXCEPT !.needs = {"device", "inputtype"}, !.makes = AsSet, !.timed = TRUE,
                             !.takes = {"framesize", "inputport", "webcam"}, !.slots = 8,
                             !.formats = {"uyvy", "mpeg4", "jpeg"}, !.fallible = TRUE]

VdigModule == [Source EXCEPT !.makes = "uyvy", !.slots = 16, !.fallible = TRUE]

Dc1394Module == [Source EXCEPT !.makes = "uyvy", !.fallible = TRUE]

OssModule == [Source EXCEPT !.needs = {"device", "framerate"}, !.makes = "pcm", !.timed = TRUE]

RtpModule == [Source EXCEPT !.takes = {"device", "framesize", "port"}, !.makes = AsSet,
                            !.formats = {"pcm", "mpeg4", "jpeg"}, !.timed = TRUE,
                            !.slots = PerRate]

RtspModule == [Source EXCEPT !.makes = "pcm", !.slots = PerTrack]

JpegModule == [Filter EXCEPT !.accepts = {"rgb24"}, !.makes = "jpeg"]

Mpeg4Module == [Filter EXCEPT !.accepts = {"uyvy", "bgr24"}, !.makes = "mpeg4",
                              !.needs = {"bitrate"}]

DecoderModule == [Filter EXCEPT !.accepts = {"mpeg4"}, !.makes = "uyvy"]

Mp2Module == [Filter EXCEPT !.accepts = {"pcm"}, !.makes = "mpa", !.needs = {"bitrate"},
                            !.fallible = TRUE]

AlawModule == [Filter EXCEPT !.accepts = {"pcm"}, !.makes = "alaw", !.wild = FALSE]

FramedropModule ==
  [Filter EXCEPT !.accepts = {"uyvy", "rgb24", "bgr24", "mpeg4", "jpeg", "h264", "pcm", "adpcm",
                              "alaw", "mpa"},
                 !.makes = AsInput, !.needs = {"scale"}]

HttpModule == [Plain EXCEPT !.needs = {"path"}, !.takes = {"mode"}, !.accepts = {"jpeg"}]

LiveModule == [Plain EXCEPT !.accepts = {"mpeg4", "jpeg", "pcm", "h264", "adpcm"}]

LogModule == [Plain EXCEPT !.takes = {"file"}]

Module == [video |-> VideoModule, audio |-> AudioModule, v4l |-> V4lModule, v4l2 |-> V4l2Module,
           vdig |-> VdigModule, dc1394 |-> Dc1394Module, oss |-> OssModule, rtp |-> RtpModule,
           rtsp |-> RtspModule, jpeg |-> JpegModule, mpeg4 |-> Mpeg4Module,
           decoder |-> DecoderModule, mp2 |-> Mp2Module, alaw |-> AlawModule,
           framedrop |-> FramedropModule, http |-> HttpModule, live |-> LiveModule,
           log |-> LogModule]

Sources == {k \in DOMAIN Module : Module[k].role = "source"}
Filters == {k \in DOMAIN Module : Module[k].role = "filter"}

Max0(n) == IF n > 0 THEN n ELSE 0

-----------------------------------------------------------------------------
(* Streams: src/stream.c                                                    *)

Upstream(n, d) == LET s == n.stream[n.dest[d].stream]
                  IN  IF s.owner = None THEN s.feed ELSE n.input[s.owner]

\* new_stream: at the head of the list.
WithStream(n, name, format, owner) ==
  [n EXCEPT !.stream = Append(n.stream, [name |-> name, format |-> format,
                                         owner |-> owner, feed |-> None]),
            !.order  = <<Len(n.stream) + 1>> \o n.order]

\* new_dest
WithDest(n, s, owner) ==
  [n EXCEPT !.dest = Append(n.dest, [stream |-> s, owner |-> owner, waiting |-> FALSE])]

\* new_convert_stream: right behind the stream it converts.
WithConversion(n, s) ==
  LET here == CHOOSE i \in 1 .. Len(n.order) : n.order[i] = s
  IN  [n EXCEPT !.stream = Append(n.stream, [name |-> n.stream[s].name, format |-> "rgb24",
                                             owner |-> None, feed |-> Len(n.dest) + 1]),
                !.order  = SubSeq(n.order, 1, here) \o <<Len(n.stream) + 1>>
                             \o SubSeq(n.order, here + 1, Len(n.order)),
                !.dest   = Append(n.dest, [stream |-> s, owner |-> None, waiting |-> FALSE])]

\* The places in stream_list of the streams of that name in one of the formats.
Named(n, name, formats) ==
  { i \in 1 .. Len(n.order) : /\ n.stream[n.order[i]].name = name
                              /\ n.stream[n.order[i]].format \in formats }

Raw(n, name, formats) == IF "rgb24" \in formats THEN Named(n, name, {"uyvy"}) ELSE {}

CanConnect(n, name, formats) ==
  Named(n, name, formats) # {} \/ Raw(n, name, formats) # {}

Least(I) == CHOOSE i \in I : \A j \in I : i <= j

\* connect_to_stream, when it finds something: the destination is the last one.
Connect(n, name, formats, owner) ==
  IF Named(n, name, formats) # {}
    THEN WithDest(n, n.order[Least(Named(n, name, formats))], owner)
    ELSE WithDest(WithConversion(n, n.order[Least(Raw(n, name, formats))]),
                  Len(n.stream) + 1, owner)

OthersWait(n, d) ==
  \E e \in 1 .. Len(n.dest) \ {d} : n.dest[e].stream = n.dest[d].stream /\ n.dest[e].waiting

\* The destinations whose flag changes in set_waiting( d, w ): up the chain of
\* set_running functions, until a stream stays as it is.
Changed_OthersIgnored(n, d, w) ==
  LET up[x \in Wild .. Len(n.dest)] ==
        IF x \in {Wild, None} \/ n.dest[x].waiting = w THEN {}
        ELSE {x} \cup up[Upstream(n, x)]
  IN  up[d]

Changed(n, d, w) ==
  LET up[x \in Wild .. Len(n.dest)] ==
        IF x \in {Wild, None} THEN {}
        ELSE IF n.dest[x].waiting = w THEN {}
        ELSE {x} \cup IF ~w /\ OthersWait(n, x) THEN {} ELSE up[Upstream(n, x)]
  IN  up[d]

SetWaiting(n, d, w) ==
  LET ch   == Changed(n, d, w)
      told == {n.dest[x].stream : x \in {y \in ch : Upstream(n, y) = None
                                                     /\ (w \/ ~ OthersWait(n, y))}}
  IN  [n EXCEPT !.dest    = [x \in DOMAIN n.dest |->
                               IF x \in ch THEN [n.dest[x] EXCEPT !.waiting = w] ELSE n.dest[x]],
                !.running = IF w THEN @ \cup told ELSE @ \ told]

\* Does the chain end in a pointer that nobody set?
MeetsWild(n, d, w) == \E x \in Changed(n, d, w) : Upstream(n, x) = Wild

-----------------------------------------------------------------------------
(* Reading                                                                  *)

\* The statement st comes next in the text, in a block of one of the kinds K.
Reads(st) ==
  /\ status = "reading"
  /\ \/ text = Free /\ UNCHANGED at
     \/ text # Free /\ at <= Len(text) /\ text[at] = st /\ at' = at + 1
  /\ UNCHANGED text

InBlock(K) == cur # None /\ blocks[cur].kind \in K

Blk == blocks[cur]

Mod == Module[Blk.kind]

\* start_block of live.c: every live block is an entry with no track yet; that of the
\* block being read is the last one.
Entry == Len(entries)

Give(setting) == blocks' = [blocks EXCEPT ![cur].given = @ \cup {setting}]

Unread == <<heap, listening, blocks, cur, net, tracks, entries>>

Init ==
  /\ text \in Texts /\ at = 1
  /\ status = "reading" /\ heap = Wild /\ listening = FALSE
  /\ blocks = <<>> /\ cur = None
  /\ net = [stream |-> <<>>, order |-> <<>>, dest |-> <<>>, input |-> <<>>, running |-> {}]
  /\ tracks = [i \in 1 .. LIVE_MAX_TRACKS |-> [name |-> "", dest |-> None, known |-> <<>>]]
  /\ entries = <<>>

\* config_frameheap: fewer than ten frames are refused, and reading goes on.
FrameHeap(n) ==
  /\ cur = None /\ Reads(<<"FrameHeap", n>>)
  /\ heap' = IF n < 10 THEN heap ELSE n
  /\ UNCHANGED <<status, listening, blocks, cur, net, tracks, entries>>

\* config_port, whose tcp_listen can fail.
Port ==
  /\ cur = None /\ Reads(<<"Port">>)
  /\ listening' \in {listening, TRUE}
  /\ UNCHANGED <<status, heap, blocks, cur, net, tracks, entries>>

\* config_rtprange ends the program when the range is too small.
RtpRange ==
  /\ cur = None /\ Reads(<<"RtpRange">>)
  /\ status' \in {"reading", "exited"}
  /\ UNCHANGED Unread

\* What no context knows, an argument of the wrong kind, a misplaced brace.
Malformed ==
  /\ Reads(<<"?">>) /\ status' = "refused"
  /\ UNCHANGED Unread

\* The end of the text, or a character no token starts with: get_next_token is
\* not positive, read_config_file returns 0, whether or not a block is open.
EndOfText ==
  /\ status = "reading"
  /\ text # Free => at > Len(text)
  /\ status' = "accepted"
  /\ UNCHANGED <<text, at>> /\ UNCHANGED Unread

\* '{' and the start_block of the context; the inputs have four channels each.
OpenBlock(k) ==
  /\ cur = None /\ Reads(<<"Block", k>>)
  /\ text = Free => Len(blocks) < MaxBlocks
  /\ LET used == Cardinality({b \in 1 .. Len(blocks) : blocks[b].kind = k})
     IN  IF k \in {"video", "audio"} /\ used = MaxChannels
           THEN status' = "refused" /\ UNCHANGED Unread
           ELSE /\ blocks' = Append(blocks, [kind |-> k, given |-> {}, format |-> "uyvy",
                                             rate |-> -1, out |-> None, channel |-> used + 1,
                                             ring |-> "none"])
                /\ cur' = Len(blocks) + 1
                /\ net' = [net EXCEPT !.input = Append(@, IF Module[k].wild THEN Wild ELSE None)]
                /\ entries' = IF k = "live" THEN Append(entries, <<>>) ELSE entries
                /\ UNCHANGED <<status, heap, listening, tracks>>

-----------------------------------------------------------------------------
(* The directives of a block                                                *)

\* device, framesize, port, mode, scale ...: a value may be turned down.  What no
\* end_block asks for is not kept.
SetValue(d) ==
  /\ cur # None /\ d \in Mod.needs \cup Mod.takes /\ Reads(<<"Set", d>>)
  /\ (d \in Mod.needs \cup {"webcam"} /\ Give(d)) \/ UNCHANGED blocks
  /\ UNCHANGED <<status, heap, listening, cur, net, tracks, entries>>

\* framerate and samplerate: only once.
SetRate(r) ==
  /\ cur # None /\ Mod.timed /\ Reads(<<"FrameRate", r>>)
  /\ blocks' = IF Blk.rate >= 0 THEN blocks
               ELSE [blocks EXCEPT ![cur].rate = r, ![cur].given = @ \cup {"framerate"}]
  /\ UNCHANGED <<status, heap, listening, cur, net, tracks, entries>>

\* set_format: too late once there is an output; that of input-video.c returns
\* at once.
SetFormat(f) ==
  /\ InBlock({"audio", "v4l2", "rtp", "video"}) /\ Reads(<<"Format", f>>)
  /\ blocks' = IF Blk.out # None \/ f \notin Mod.formats THEN blocks
               ELSE [blocks EXCEPT ![cur].format = f]
  /\ UNCHANGED <<status, heap, listening, cur, net, tracks, entries>>

\* The format of the stream a block makes.
OutputFormat ==
  CASE Mod.makes = AsCodec -> Codec[Blk.channel]
    [] Mod.makes = AsSet   -> Blk.format
    [] Mod.makes = AsInput -> net.stream[net.dest[net.input[cur]].stream].format
    [] OTHER               -> Mod.makes

\* set_output; the camera may have a codec it does not know.  (Bound: one output
\* a filter, which keeps the last one only, and in a free text one a block, but for
\* the cameras of dc1394.)
SetOutput(name) ==
  /\ InBlock((Sources \ {"rtsp"}) \cup Filters)
  /\ Reads(<<"Output", name>>)
  /\ Blk.kind \in Filters => Blk.out = None
  /\ text = Free => /\ Len(net.stream) < MaxStreams
                    /\ Blk.out = None \/ Blk.kind = "dc1394"
  /\ IF Blk.kind = "framedrop" /\ net.input[cur] <= None
       THEN status' \in (IF net.input[cur] = Wild THEN {status, "crashed"} ELSE {status})
            /\ UNCHANGED <<blocks, net>>
       ELSE IF OutputFormat = "unknown" THEN UNCHANGED <<status, blocks, net>>
       ELSE /\ net' = WithStream(net, name, OutputFormat, cur)
            /\ blocks' = [blocks EXCEPT ![cur].out = Len(net.stream) + 1]
            /\ UNCHANGED status
  /\ UNCHANGED <<heap, listening, cur, tracks, entries>>

\* set_input.  (Bound: once a block.)
SetInput(name) ==
  /\ InBlock(Filters \cup {"http"})
  /\ Reads(<<"Input", name>>)
  /\ net.input[cur] <= None
  /\ net' = IF CanConnect(net, name, Mod.accepts)
              THEN LET n == Connect(net, name, Mod.accepts, cur)
                   IN  [n EXCEPT !.input[cur] = Len(n.dest)]
              ELSE [net EXCEPT !.input[cur] = None]
  /\ UNCHANGED <<status, heap, listening, blocks, cur, tracks, entries>>

\* set_path of live.c and input-rtsp.c: new_rtsp_location.
SetPath ==
  /\ InBlock({"live", "rtsp"}) /\ Reads(<<"Path">>)
  /\ Give("path")
  /\ UNCHANGED <<status, heap, listening, cur, net, tracks, entries>>

\* set_track of input-rtsp.c.
SourceTrack(name) ==
  /\ InBlock({"rtsp"}) /\ Reads(<<"Track", name>>)
  /\ text = Free => Len(net.stream) < MaxStreams
  /\ net' = IF Cardinality({s \in 1 .. Len(net.stream) : net.stream[s].owner = cur}) = MAX_TRACKS
              THEN net ELSE WithStream(net, name, "pcm", cur)
  /\ UNCHANGED <<status, heap, listening, blocks, cur, tracks, entries>>

\* set_track of live.c: a track the program has is joined, unless four entries
\* have; otherwise the first free one is connected to the stream and switched on.
FreeTracks == {i \in 1 .. LIVE_MAX_TRACKS : tracks[i].dest = None}

JoinTrack_Unnoticed(i) ==
  IF Len(tracks[i].known) = LIVE_MAX_ENTRIES THEN UNCHANGED <<tracks, entries>>
  ELSE entries' = [entries EXCEPT ![Entry] = Append(@, i)] /\ UNCHANGED tracks

JoinTrack(i) ==
  IF Len(tracks[i].known) = LIVE_MAX_ENTRIES THEN UNCHANGED <<tracks, entries>>
  ELSE /\ entries' = [entries EXCEPT ![Entry] = Append(@, i)]
       /\ tracks' = [tracks EXCEPT ![i].known = Append(@, Entry)]

NewTrack(name) ==
  IF FreeTracks = {} \/ ~ CanConnect(net, name, LiveModule.accepts)
    THEN UNCHANGED <<status, net, tracks, entries>>
    ELSE LET i == Least(FreeTracks)
             n == Connect(net, name, LiveModule.accepts, cur)
             d == Len(n.dest)
         IN  /\ net' = SetWaiting(n, d, TRUE)
             /\ status' = IF MeetsWild(n, d, TRUE) THEN "crashed" ELSE status
             /\ tracks' = [tracks EXCEPT ![i] = [name |-> name, dest |-> d, known |-> <<Entry>>]]
             /\ entries' = [entries EXCEPT ![Entry] = Append(@, i)]

Track(name) ==
  /\ InBlock({"live"}) /\ Reads(<<"Track", name>>)
  /\ IF Len(entries[Entry]) = MAX_TRACKS THEN UNCHANGED <<status, net, tracks, entries>>
     ELSE \/ \E i \in 1 .. LIVE_MAX_TRACKS :
               tracks[i].name = name /\ JoinTrack(i) /\ UNCHANGED <<status, net>>
          \/ (\A i \in 1 .. LIVE_MAX_TRACKS : tracks[i].name # name) /\ NewTrack(name)
  /\ UNCHANGED <<heap, listening, blocks, cur>>

-----------------------------------------------------------------------------
(* '}': the end_block of the context                                        *)

FramesFor(b) ==
  LET n == Module[blocks[b].kind].slots
  IN  CASE n = PerRate  -> blocks[b].rate
        [] n = PerTrack -> 8 * Cardinality({s \in 1 .. Len(net.stream) : net.stream[s].owner = b})
        [] OTHER        -> n

Missing ==
  \/ Mod.needs \ Blk.given # {}
  \/ Blk.kind \in (Sources \cup Filters) \ {"rtsp"} /\ Blk.out = None
  \/ Blk.kind \in Filters \cup {"http"} /\ net.input[cur] = None
  \/ Blk.kind \in {"video", "audio", "rtp"} /\ Blk.rate <= 0
  \/ Blk.kind \in {"v4l", "v4l2"} /\ "webcam" \in Blk.given /\ Blk.rate < 0
  \/ Blk.kind = "rtsp" /\ \A s \in 1 .. Len(net.stream) : net.stream[s].owner # cur

Done ==
  /\ cur' = None
  /\ IF FramesFor(cur) > 0
       THEN /\ heap' = Max0(heap - FramesFor(cur))
            /\ status' = IF heap = Wild THEN "crashed" ELSE status
            /\ blocks' = [blocks EXCEPT ![cur].ring =
                            IF FramesFor(cur) <= heap THEN "full" ELSE "gaps"]
            /\ UNCHANGED net
       ELSE IF Blk.kind = "http"
       THEN /\ net' = SetWaiting(net, net.input[cur], TRUE)
            /\ status' = IF MeetsWild(net, net.input[cur], TRUE) THEN "crashed" ELSE status
            /\ UNCHANGED <<heap, blocks>>
       ELSE UNCHANGED <<status, heap, blocks, net>>

\* end_block of live.c reads tracklist[0]->rtp, which a block without a track leaves NULL.
NoMediaSource == Blk.kind = "live" /\ entries[Entry] = <<>>

CloseBlock ==
  /\ cur # None /\ Reads(<<"End">>)
  /\ \/ /\ \/ NoMediaSource
           \/ Blk.kind = "mp2" /\ net.input[cur] = Wild         \* input->stream
        /\ status' = "crashed" /\ UNCHANGED <<heap, blocks, cur, net>>
     \/ /\ Missing \/ Mod.fallible \/ net.input[cur] = Wild     \* malloc may leave NULL
        /\ status' = "refused" /\ UNCHANGED <<heap, blocks, cur, net>>
     \/ /\ ~ Missing /\ ~ (Blk.kind = "mp2" /\ net.input[cur] = Wild)
        /\ ~ NoMediaSource
        /\ Done
  /\ UNCHANGED <<listening, tracks, entries>>

\* c_deinit_rtsp_server, when the text is refused: video_deinit and audio_deinit
\* free what the ex field of a block holds, which is what malloc left there when
\* the block failed before new_exchanger.
Deinit ==
  /\ status = "refused"
  /\ status' \in {"stopped"} \cup
       IF \E b \in 1 .. Len(blocks) : blocks[b].kind \in {"video", "audio"}
                                        /\ blocks[b].ring = "none"
         THEN {"crashed"} ELSE {}
  /\ UNCHANGED <<text, at>> /\ UNCHANGED Unread

\* Once the program serves, live_play and track_check_running1 call set_waiting
\* for the destination of a track.
Listen(i, w) ==
  /\ status = "accepted" /\ tracks[i].dest # None
  /\ net' = SetWaiting(net, tracks[i].dest, w)
  /\ status' = IF MeetsWild(net, tracks[i].dest, w) THEN "crashed" ELSE status
  /\ UNCHANGED <<text, at, heap, listening, blocks, cur, tracks, entries>>

-----------------------------------------------------------------------------
(* The text of src/c_rtsp.c                                                 *)

VideoBlock(name) == << <<"Block", "video">>, <<"FrameRate", 30>>, <<"Format", "h264">>,
                       <<"Output", name>>, <<"End">> >>
LiveBlock(name)  == << <<"Block", "live">>, <<"Path">>, <<"Track", name>>,
                       <<"Track", "pcm">>, <<"End">> >>

SpookConfig ==
  << <<"FrameHeap", 200>>, <<"Port">> >>
    \o VideoBlock("h264") \o VideoBlock("mpeg4") \o VideoBlock("mjpeg") \o VideoBlock("h264_low")
    \o << <<"Block", "audio">>, <<"FrameRate", 8000>>, <<"Format", "adpcm">>,
          <<"Output", "pcm">>, <<"End">> >>
    \o LiveBlock("h264") \o LiveBlock("mpeg4") \o LiveBlock("mjpeg") \o LiveBlock("h264_low")

-----------------------------------------------------------------------------

\* What a text may say: its own words, or those of a free one.
Values(free, directive) ==
  IF text = Free THEN free
  ELSE IF at <= Len(text) /\ text[at][1] = directive /\ Len(text[at]) = 2
       THEN {text[at][2]} ELSE {}

Next ==
  \/ \E n \in Values(HeapCounts, "FrameHeap") : FrameHeap(n)
  \/ Port \/ RtpRange \/ Malformed \/ EndOfText
  \/ \E k \in Values(Contexts, "Block") : OpenBlock(k)
  \/ \E d \in Values(UNION {Module[k].needs \cup Module[k].takes : k \in Contexts}, "Set") : SetValue(d)
  \/ \E r \in Values(Rates, "FrameRate") : SetRate(r)
  \/ \E f \in Values(UNION {Module[k].formats : k \in Contexts}, "Format") : SetFormat(f)
  \/ \E m \in Values(Names, "Output") : SetOutput(m)
  \/ \E m \in Values(Names, "Input")  : SetInput(m)
  \/ \E m \in Values(Names, "Track")  : Track(m)
  \/ \E m \in Values(Names, "Track")  : SourceTrack(m)
  \/ SetPath \/ CloseBlock \/ Deinit
  \/ \E i \in 1 .. LIVE_MAX_TRACKS, w \in BOOLEAN : Listen(i, w)

Spec == Init /\ [][Next]_vars

-----------------------------------------------------------------------------
(* Properties                                                               *)

Occurrences(x, seq) == Cardinality({i \in 1 .. Len(seq) : seq[i] = x})

\* However a text mixes directives that work with ones that do not, once it is
\* accepted every closed live block has a track, and each of its tracks is fed
\* by a stream of a format RTP can carry and lists the entry as often as the
\* entry lists the track: set_track undoes what it has done when a step fails,
\* and next_live_frame finds its sessions through entrylist.
EntriesServed ==
  status = "accepted" =>
    \A e \in 1 .. Len(entries) :
      /\ cur = None => entries[e] # <<>>
      /\ \A i \in 1 .. LIVE_MAX_TRACKS :
           /\ Occurrences(e, tracks[i].known) = Occurrences(i, entries[e])
           /\ Occurrences(i, entries[e]) > 0 =>
                net.stream[net.dest[tracks[i].dest].stream].format \in LiveModule.accepts

Waited(s) == \E d \in 1 .. Len(net.dest) : net.dest[d].stream = s /\ net.dest[d].waiting

\* Whatever is plugged together, an input runs exactly as long as somebody waits
\* for its stream, through filters and conversions: set_waiting passes a change
\* on only when the first listener comes or the last one goes.
RunsWhileWaited ==
  status # "crashed" =>
    \A s \in 1 .. Len(net.stream) :
      LET b  == net.stream[s].owner
          up == IF b = None THEN net.stream[s].feed ELSE net.input[b]
      IN  /\ b # None /\ blocks[b].kind \in Sources => (s \in net.running <=> Waited(s))
          /\ up > None => (net.dest[up].waiting <=> Waited(s))

=============================================================================
