SPECIFICATION Spec
CONSTANTS
    Lower <- MCLower
    Units <- MCUnits
    AddrBits = 10
    WordBits = 20
    MaxLeftBit = 18
    Reserved <- MCReserved
    FirstVector = 17
    Paths = 2
    MaxIncludeDepth = 3
    Boards <- MCBoards
    BoardFile <- MCBoardFile
    ReadTree <- LoadTree
INVARIANTS IncludeIsOverlay DecodesToOwner Legal Faithful InterruptReaches
CHECK_DEADLOCK FALSE
