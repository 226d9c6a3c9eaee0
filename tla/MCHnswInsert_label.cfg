SPECIFICATION Spec
CONSTANTS
  t1 = t1
  t2 = t2
  t3 = t3
  t4 = t4
  Threads = {t1, t2}
  LabelOf <- OneLabel
  VecOf <- Vectors
  Levels = {0, 1}
  MaxElements = 3
  M = 2
  Ef = 2
CHECK_DEADLOCK FALSE
INVARIANT
  LabelsUnique
