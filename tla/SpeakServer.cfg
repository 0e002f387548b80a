SPECIFICATION Spec
CONSTANTS
  c1 = c1
  c2 = c2
  None = None
  Clients <- MCClients
  MaxConn = 1
  MaxConnects = 2
  MaxSent <- MCMaxSent
  Copies <- MCCopies
INVARIANTS
  
  SpeakerHasOwner
PROPERTIES
  SpeakerReleased
CHECK_DEADLOCK FALSE
