----------------------------- MODULE MCLiveServer -----------------------------
(* Two entries that share their audio track, as all four of the default      *)
(* configuration do; it is the second track of one and the only one of the   *)
(* other, so the two find it at different positions.                         *)
EXTENDS LiveServer, TLC

CONSTANTS cam, mic, live, radio, s1, s2, c1, c2

MCTracks    == {cam, mic}
MCEntries   == {live, radio}
MCTrackList == (live :> <<cam, mic>>) @@ (radio :> <<mic>>)
MCHeld      == {cam}
MCSessions  == {s1, s2}
MCConns     == {c1, c2}

===============================================================================
