SPECIFICATION Spec
CONSTANTS
  Texts <- MCTexts
  Free = Free
  Contexts <- MCContexts
  Names = {"a"}
  Rates = {2}
  HeapCounts = {5, 10}
  Codec <- MCCodec
  MaxBlocks = 3
  MaxStreams = 4
INVARIANTS
  EntriesServed
  RunsWhileWaited
CHECK_DEADLOCK FALSE
