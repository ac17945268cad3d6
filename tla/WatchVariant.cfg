SPECIFICATION FairSpec
CONSTANTS
  Variant = TRUE
  Outputs = 1
  MaxEdits = 2
PROPERTIES
  FollowsInputs
