---------------------------- MODULE MCMediaTrack ----------------------------
(***************************************************************************)
(* Frames around the sizes at which packets are cut, for two clients.      *)
(***************************************************************************)
EXTENDS MediaTrack

H264Frames ==
    [key : BOOLEAN, code : {0, 4}, len : {1404, 1405, 8197}]

El(code, len) == [code |-> code, len |-> len, good |-> TRUE]

\* Two configurations, told apart by the length of their layer.
Headers(layer) ==
    <<El("VOS", 5), El("1B2", 230), El("VISUAL", 9), El("VO", 4), El("VOL", layer)>>

Mpeg4Frames ==
    { [key |-> TRUE, elements |-> Headers(v) \o <<El("VOP", n)>>] : v \in {18, 20}, n \in {1132, 8200} }
    \cup { [key |-> FALSE, elements |-> es] :
             es \in { <<El("VOP", 300)>>, <<El("GOV", 7), El("VOP", 1401)>>,
                      <<[El("VOP", 90) EXCEPT !.good = FALSE]>> } }

M(name, good) == [marker |-> name, good |-> good, ids |-> {0, 1}, luma |-> 0, chroma |-> 1, len |-> 0]
Scan(n) == [M("SOS", TRUE) EXCEPT !.len = n]

\* Every frame that has a scan has a frame header.
JpegFrames ==
    { [key |-> TRUE, markers |-> <<M("SOI", TRUE)>> \o ms] :
        ms \in { <<M("DQT", TRUE), M("SOF", TRUE), M("DHT", TRUE), Scan(1260)>>,
                 <<M("DQT", TRUE), M("SOF", TRUE), Scan(8053)>>,
                 <<M("SOF", TRUE), M("DHT", TRUE), Scan(900)>>,
                 <<M("DQT", FALSE), M("SOF", TRUE), Scan(900)>>,
                 <<M("DQT", TRUE), M("SOF", TRUE), M("junk", TRUE)>>,
                 <<M("DQT", TRUE)>> } }

AudioFrames == [key : {TRUE}, len : {1400, 1402, 2808}]

Picture(t) == El("PICTURE", 9) @@ [type |-> t]

MpvFrames ==
    { [key |-> TRUE, elements |-> <<El("SEQUENCE", 140), El("EXTENSION", 10), El("GOP", 8), Picture(1),
                                    El("SLICE", a), El("SLICE", b)>>] : a, b \in {700, 3000} }
    \cup { [key |-> FALSE, elements |-> <<Picture(2), El("SLICE", 1382)>> \o es] :
              es \in { << >>, <<El("SLICE", 5)>>, <<El("SLICE", 8193)>> } }

MpaFrames == [key : {TRUE}, len : {1400, 1728}]

MCFrames == [f \in Formats |->
    CASE f = "h264" -> H264Frames [] f = "mpeg4" -> Mpeg4Frames
      [] f = "jpeg" -> JpegFrames [] f = "audio" -> AudioFrames
      [] f = "mpv" -> MpvFrames [] f = "mpa" -> MpaFrames]

=============================================================================
