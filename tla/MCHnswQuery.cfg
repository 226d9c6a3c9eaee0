SPECIFICATION ActiveSpec
CONSTANTS
  t1 = t1
  t2 = t2
  t3 = t3
  Threads = {t1, t2, t3}
  LabelOf <- OwnLabels
  VecOf <- Vectors
  Levels = {0, 1}
  MaxElements = 3
  M = 2
  Ef = 2
  Target = 5
  K = 2
  EfSearch = 1
  Markable = {t2}
  SizeT = 16
INVARIANTS
  DeletedStayHidden
  WalkWithinLevels
  QueryExact
  ActiveSizeRight
