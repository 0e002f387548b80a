SPECIFICATION Spec
CONSTANTS
  WindowSize = 2
  Windows = 6
  FreeWindows = 3
  TransitLimit = 3
  UnreliableLimit = 2
  GroupWindow = 2
  FreeGroupWindows = 2
  Groups = 8
  Lifetime = 3
  Patience = 8
  Programs <- MCPrograms
INVARIANTS
  InOrderOnce
  AckedHasArrived
  NextGetsThrough
CHECK_DEADLOCK FALSE
