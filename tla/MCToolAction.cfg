SPECIFICATION Spec
CONSTANTS
    one = one  two = two  three = three
    x1 = x1  x2 = x2  x3 = x3
    k1 = k1  k2 = k2  k3 = k3
    s1 = s1  s2 = s2
    t = t  g = g
    None = None
    Requests <- MCRequests
    Worlds <- MCWorlds
    MaxActions = 2
    MaxExits = 2
INVARIANTS
    OneEffect OutcomeIsTrue EvidenceIsOwn TurnsInOrder
PROPERTIES
    EffectIsAuthorised
