SPECIFICATION Spec
CONSTANTS
    s1 = s1  s2 = s2  A = A  B = B  p = p  q = q
    small = small  large = large
    old = old  new = new  past = past
    None = None
    Turns <- MCTurns
    Worlds <- MCWorlds
    Bytes <- MCBytes
    RecentTurns = 2
    MaxEvidence = 2
    MaxExits = 1
INVARIANTS
    ShownIsReadable TurnsInOrder PendingIsResumable
PROPERTIES
    InputIsReadable
