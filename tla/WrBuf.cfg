SPECIFICATION FairSpec
CONSTANTS
  Addr = {"x", "y"}
  Value = {0, 1}
  Zero = 0
  Depth = 2
INVARIANTS
  NoOverflow
  AckedIsQueued
PROPERTIES
  Transparent
  Answered
