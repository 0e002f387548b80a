-------------------------- MODULE MCConfiguration --------------------------
(* Instances of Configuration for TLC.                                      *)
EXTENDS Configuration

\* A fifth entry that lists the track four others have, next to one of its own.
MCFifthEntry ==
  << <<"FrameHeap", 20>>, <<"Block", "audio">>, <<"Format", "pcm">>, <<"FrameRate", 8000>>,
     <<"Output", "pcm">>, <<"End">> >>
    \o LiveBlock("pcm") \o LiveBlock("pcm") \o LiveBlock("pcm")

\* Six streams and six tracks, of which the program has five.
MCSixTracks ==
  << <<"FrameHeap", 200>> >> \o VideoBlock("a") \o VideoBlock("b") \o VideoBlock("c")
    \o VideoBlock("d")
    \o << <<"Block", "audio">>, <<"Format", "pcm">>, <<"FrameRate", 8000>>,
          <<"Output", "pcm">>, <<"Output", "e">>, <<"End">> >>
    \o LiveBlock("a") \o LiveBlock("b") \o LiveBlock("c")
    \o << <<"Block", "live">>, <<"Track", "d">>, <<"Track", "e">>, <<"Track", "pcm">>,
          <<"End">> >>

\* One camera more than there are channels.
MCFiveCameras ==
  << <<"FrameHeap", 200>> >> \o VideoBlock("a") \o VideoBlock("b") \o VideoBlock("c")
    \o VideoBlock("d") \o VideoBlock("e")

\* A raw camera feeds a frame dropper, whose stream is converted for the JPEG
\* encoder, whose stream a live track and an HTTP location share.
MCChain ==
  << <<"FrameHeap", 200>>, <<"Block", "vdig">>, <<"Output", "v">>, <<"End">>,
     <<"Block", "framedrop">>, <<"Input", "v">>, <<"Set", "scale">>, <<"Output", "w">>, <<"End">>,
     <<"Block", "jpeg">>, <<"Input", "w">>, <<"Output", "j">>, <<"End">>,
     <<"Block", "http">>, <<"Input", "j">>, <<"Set", "path">>, <<"End">>,
     <<"Block", "live">>, <<"Path">>, <<"Track", "j">>, <<"End">> >>

\* The sources and filters no other text has.
MCOthers ==
  << <<"FrameHeap", 200>>, <<"Block", "log">>, <<"Set", "file">>, <<"End">>,
     <<"Block", "oss">>, <<"Set", "device">>, <<"FrameRate", 8000>>, <<"Output", "p">>, <<"End">>,
     <<"Block", "mp2">>, <<"Input", "p">>, <<"Set", "bitrate">>, <<"Output", "m">>, <<"End">>,
     <<"Block", "alaw">>, <<"Input", "p">>, <<"Output", "l">>, <<"End">>,
     <<"Block", "dc1394">>, <<"Output", "d">>, <<"Output", "d2">>, <<"End">>,
     <<"Block", "mpeg4">>, <<"Input", "d">>, <<"Set", "bitrate">>, <<"Output", "x">>, <<"End">>,
     <<"Block", "decoder">>, <<"Input", "x">>, <<"Output", "y">>, <<"End">>,
     <<"Block", "jpeg">>, <<"Input", "y">>, <<"Output", "z">>, <<"End">>,
     <<"Block", "rtsp">>, <<"Path">>, <<"Track", "r">>, <<"Track", "s">>, <<"Track", "t">>,
     <<"End">>,
     <<"Block", "live">>, <<"Track", "r">>, <<"Track", "x">>, <<"End">> >>

MCTexts == {Free, SpookConfig, MCFifthEntry, MCSixTracks, MCFiveCameras, MCChain, MCOthers}

MCContexts == {"vdig", "rtp", "jpeg", "framedrop", "live", "http"}

MCCodec == <<"h264", "mpeg4", "jpeg", "h264">>

=============================================================================
