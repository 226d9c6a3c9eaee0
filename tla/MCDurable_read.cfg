SPECIFICATION FairSpec
CONSTANTS
  c1 = c1
  c2 = c2
  k1 = k1
  k2 = k2
  Keys = {k1}
  Vecs = {v1}
  NoVec = NoVec
  Capacity = 1
  Clients = {c1}
  KeysOf <- SharedKeys
  BlindDeletes = FALSE
  Faults = {"read"}
  MaxLog = 2
PROPERTY
  OpenLosesNothing
