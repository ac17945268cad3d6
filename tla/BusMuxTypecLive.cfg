SPECIFICATION FairSpec
CONSTANTS
  LongLen = 2
  ShortLen = 2
  Active = {1, 3}
  DmaDrives <- WordDma
  SilentUnlock = FALSE
PROPERTIES
  NoStarvation
