SPECIFICATION Spec
CONSTANTS
  MaxElements = 2
  Labels = {"a", "b", "c"}
INVARIANTS
  TypeOK
  IndexSound
PROPERTIES
  LoadedIsSaved
