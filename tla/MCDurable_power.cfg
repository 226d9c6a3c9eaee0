SPECIFICATION Spec
CONSTANTS
  c1 = c1
  c2 = c2
  k1 = k1
  k2 = k2
  Keys = {k1, k2}
  Vecs = {v1}
  NoVec = NoVec
  Capacity = 2
  Clients = {c1, c2}
  KeysOf <- OwnKeys
  BlindDeletes = FALSE
  Faults = {"power"}
  MaxLog = 2
INVARIANT
  RotationLosesNothing
