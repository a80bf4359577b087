SPECIFICATION FairSpec
CONSTANTS
    h1 = h1  h2 = h2  r1 = r1  r2 = r2  t1 = t1  t2 = t2
    alice = alice  w1 = w1  p1 = p1  p2 = p2
    None = None
    Requests <- MCRequests
    Responses <- MCResponses
    Wakes = {w1}
    Rosters <- MCRosters
    Times = {1, 2, 3}
    MaxRequests = 2
    MaxExits = 1
INVARIANTS
    CountIsTrue EvidenceAgrees LaneInOrder OneHop
PROPERTIES
    HopIsAnswered EventuallyClosed
