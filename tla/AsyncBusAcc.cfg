SPECIFICATION FairSpec
CONSTANTS
  Data = {0, 1}
  NullData = 0
  MaxA = 4
  MaxB = 2
INVARIANTS
  ShownOnce
  AckIsAnswer
PROPERTIES
  Flancter
  OneTransfer
  EveryRequestAcked
