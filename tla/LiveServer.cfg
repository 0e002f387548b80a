CONSTANTS
  cam = cam
  mic = mic
  live = live
  radio = radio
  s1 = s1
  s2 = s2
  c1 = c1
  c2 = c2
  Tracks <- MCTracks
  Entries <- MCEntries
  TrackList <- MCTrackList
  Held <- MCHeld
  Sessions <- MCSessions
  Conns <- MCConns
  Channels = 3
  NoEntry = NoEntry
  NoEndpoint = NoEndpoint
  NoPlace = NoPlace
SPECIFICATION FairSpec
CHECK_DEADLOCK FALSE
INVARIANTS
  ChannelsMatchEndpoints
  
  OffWhenUnviewed
PROPERTIES
  KeepsOnWhileViewed
  CamerasReleased
