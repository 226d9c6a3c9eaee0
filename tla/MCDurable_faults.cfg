SPECIFICATION FairSpec
CONSTANTS
  c1 = c1
  c2 = c2
  k1 = k1
  k2 = k2
  Keys = {k1}
  Vecs = {v1}
  NoVec = NoVec
  Capacity = 1
  Clients = {c1, c2}
  KeysOf <- SharedKeys
  BlindDeletes = TRUE
  Faults = {"append", "read", "flush", "power"}
  MaxLog = 2
INVARIANTS
  TypeOK
  ReplayMatchesReference
PROPERTIES
  CallsReturn
  SnapshotsReturn
