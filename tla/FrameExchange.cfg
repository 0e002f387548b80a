SPECIFICATION BusySpec
CONSTANTS
  video = video
  audio = audio
  web = web
  NoFrame = NoFrame
  Channels <- MCChannels
  Slots <- MCSlots
  HeapCount = 5
  Keepers <- MCKeepers
  Source <- MCSource
  CanFail <- MCCanFail
INVARIANTS
  OneOwner
  RefCountExact
  RingNeverShrinks
PROPERTIES
  CaptureRecovers
  ImplementsFramePool
