SPECIFICATION FairSpec
CONSTANTS
    None = None
    Pages <- MCPages
    MaxTurns = 3
    MaxFaults = 4
INVARIANTS
    UnseenIsHeld TurnsFit
PROPERTIES
    EventuallySettled
CHECK_DEADLOCK FALSE
