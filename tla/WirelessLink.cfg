SPECIFICATION Spec
CONSTANTS
  e1 = e1
  e2 = e2
  near = near
  far = far
  NoAp = NoAp
  Endpoints <- MCEndpoints
  AccessPoints <- MCAccessPoints
  Signals <- MCSignals
  Threshold = 3
  Diff = 1
  MaxChkTimes = 4
  ScanRetries = 1
PROPERTIES
  Patient
  SendingResumes
  StopsFlapping
