SPECIFICATION Spec
CONSTANTS
  a = a
  b = b
  c = c
  Keys = {a, b, c}
  Vecs = {1, 2, 3}
  NoVec = NoVec
  Capacity = 2
  NumShards = 2
  HashKey <- Hash
  Restored <- Start
  Requests <- Retried
  Writers = {w1}
  Ks = {2}
  MaxLate = 1
INVARIANT
  NoKeyTwice
