SPECIFICATION Spec
CONSTANTS
    Trees <- MCTrees
    Written <- MCWritten
    Fragments <- MCFragments
    Words <- MCWords
    Numbers <- MCNumbers
CHECK_DEADLOCK FALSE
INVARIANTS ReadsBack RoundTrip NothingLost WalkInSourceOrder
