-------------------------- MODULE MCFrameExchange --------------------------
(***************************************************************************)
(* Instances of FrameExchange for TLC: a video input and an audio input    *)
(* whose decoder may fail, and an HTTP location on the video stream.       *)
(***************************************************************************)
EXTENDS FrameExchangeImpl, FrameExchangeInv

CONSTANTS video, audio, web

MCChannels == {video, audio}
MCSlots    == [c \in MCChannels |-> IF c = video THEN 2 ELSE 1]
MCKeepers  == {web}
MCSource   == [k \in MCKeepers |-> video]
MCCanFail  == {audio}

=============================================================================
