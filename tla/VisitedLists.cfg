SPECIFICATION Spec
CONSTANTS
  Threads = {t1, t2}
  Nodes = {n1, n2, n3}
  Tags = 5
INVARIANTS
  TypeOK
  MarksAreThisSearch
  ExpandedOnce
  PoolBounded
PROPERTIES
  SearchEnds
