SPECIFICATION Spec
CONSTANTS
  c1 = c1
  c2 = c2
  pub = pub
  priv = priv
  i1 = i1
  i2 = i2
  Clients = {c1, c2}
  Knows = {c1}
  Locations = {pub, priv}
  Guarded = {priv}
  Nowhere = Nowhere
  Tracks = {0, 1}
  NoSuch = 2
  Ids = {i1, i2}
  RealmLen = 127
  CSeqLens <- MCCSeqLens
  Dates <- MCDates
  MaxHidden = 1
  None = None
  Digits = 2
  Lifetime = 1
INVARIANTS
  KnownClientsGetIn
  RepliesWhole

  
CHECK_DEADLOCK FALSE
SYMMETRY Symmetric
