SPECIFICATION FairSpec
CONSTANTS
  Kinds = {"mux", "ff", "lock"}
INVARIANTS
  NoRepeat
  StableUntilAck
  LockExclusive
  SlaveLockSpans
PROPERTIES
  NoStarvation
