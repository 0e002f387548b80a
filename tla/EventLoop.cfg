CONSTANTS
  root = root
  o1 = o1
  o2 = o2
  e1 = e1
  e2 = e2
  e3 = e3
  e4 = e4
  e5 = e5
  e6 = e6
  Events <- MCEvents6
  Objects <- MCObjects
  Root = root
  MaxFd = 2
  MaxCalls = 2
  NULL = NULL
SPECIFICATION Spec
SYMMETRY Symmetric
INVARIANTS
  ListsSound
  DescriptorsOwned
PROPERTIES
  CalledAlive
  CalledReady
