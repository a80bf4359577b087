SPECIFICATION FairSpec
CONSTANTS
    MaxEvents = 2
    RemoteIds = {d1, d2, d3}
    None = None
    Foreign = Foreign
    MaxFaults = 3
INVARIANTS
    OneFilePerEvent VerifiedIsFresh
PROPERTIES
    CompletionIsTrue EventuallyVerified
