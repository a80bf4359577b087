SPECIFICATION Spec
CONSTANTS
    None = None
    Times = {1, 2}
    Packages <- MCPackages
    Grants <- MCGrants
    Offers <- MCOffers
    Turns <- MCTurns
    MaxExits = 2
INVARIANTS
    PointerIsWhole OneSource AnswersAreGranted RepliesAreAllowed
PROPERTIES
    EpochsHold AnchorAdvances
