CONSTANTS
  ReqSize = 5
  SendSize = 5
  Allowance = 2
  MaxFrame = 4
SPECIFICATION FairSpec
INVARIANTS
  RingMatches
PROPERTIES
  DropHappens
