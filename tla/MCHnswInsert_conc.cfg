SPECIFICATION Spec
CONSTANTS
  t1 = t1
  t2 = t2
  t3 = t3
  t4 = t4
  Threads = {t1, t2, t3, t4}
  LabelOf <- OwnLabels
  VecOf <- Vectors
  Levels = {0, 2}
  MaxElements = 3
  M = 2
  Ef = 2
CHECK_DEADLOCK FALSE
INVARIANTS
  TypeOK
  LinksWithinLevels
  EntryOnTop
  FullMeansFull
  NoSelfLink
  NoDuplicateLinks
  NotStuck
PROPERTIES
  EntryWrittenExclusively
