SPECIFICATION Spec
CONSTANTS
  LongLen = 4
  ShortLen = 2
  Active = {1, 2, 3, 4}
  DmaDrives <- MixedDma
  SilentUnlock = TRUE
INVARIANTS
  StableUntilAck
  BurstIndivisible
  CountsAgree
  LockExclusion
  BeatsMatch
