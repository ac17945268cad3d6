SPECIFICATION FairSpec
CONSTANTS
  Variant = FALSE
  Outputs = 2
  MaxEdits = 4
INVARIANTS
  NotBehind
PROPERTIES
  Caught
  Stops
