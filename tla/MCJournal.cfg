SPECIFICATION FairSpec
CONSTANTS
    u1 = u1  r1 = r1  r2 = r2  x = x  c1 = c1  c2 = c2
    s = s  k = k
    original = original  edited = edited  blank = blank
    a1 = a1  a2 = a2
    None = None
    Ids <- MCIds
    Sessions = {s}
    Seqs = {1, 2, 3, 4, 5}
    CorrIds = {k}
    Contents = {original, edited, blank}
    Attempts = {a1, a2}
    Events <- MCEvents
    Calls <- MCCalls
    MaxFaults = 2
INVARIANTS
    TerminalSlotHeld TerminalTruth ProviderBoundary
    EndIsFree
PROPERTIES
    ReadyMeansRecovered ImplementsEvidenceLog
    CrossedIsClosed OpeningEnds
