SPECIFICATION Spec
CONSTANTS
  Length = 2
  MaxFrames = 6
INVARIANTS
  ConversionsHold
  
  
  SamplesHold
  
CHECK_DEADLOCK FALSE
