SPECIFICATION FairSpec
CONSTANTS
  NLines = 2
  MaxLevel = 2
  Settings <- OneByOne
  SystemKinds = {}
  PitLevel = 1
  CountLevel = 1
  AckGap = 2
  MayDisable = TRUE
INVARIANTS
  DisabledIsSilent
