SPECIFICATION Spec
CONSTANTS
  Endpoints = {e1, e2}
  Frames <- MCFrames
  Tracks = {"h264", "mpeg4", "jpeg", "audio", "mpv", "mpa"}
  MaxFrames = 4
INVARIANTS
  SentIsWhole
  GaplessIsWhole
  NoOrphans
  
CHECK_DEADLOCK FALSE
