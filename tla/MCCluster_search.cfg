SPECIFICATION FairSpec
CONSTANTS
  a = a
  b = b
  c = c
  Keys = {a, b, c}
  Vecs = {1, 2, 3}
  NoVec = NoVec
  Capacity = 2
  NumShards = 2
  HashKey <- Hash
  Restored <- Start
  Requests <- Rivals
  Writers = {w1}
  Ks = {2}
  MaxLate = 1
INVARIANTS
  TypeOK
  SearchComplete
  AckedAreFound
  ErrorIsGenuine
PROPERTIES
  FailsFast
