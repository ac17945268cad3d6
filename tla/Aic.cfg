SPECIFICATION FairSpec
CONSTANTS
  NLines = 2
  MaxLevel = 2
  Settings <- AllOrNothing
  SystemKinds = {"nmi"}
  PitLevel = 1
  CountLevel = 1
  AckGap = 2
  MayDisable = FALSE
INVARIANTS
  TypeOK
  NothingLost
  OneInterruptPerEdge
PROPERTIES
  LastEdgeServed
