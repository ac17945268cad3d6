SPECIFICATION FairSpec
CONSTANTS
  SplitDisable = FALSE
INVARIANTS
  MutualExclusion
  WriteAlone
PROPERTIES
  AtomicTas
  Progress
