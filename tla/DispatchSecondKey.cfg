CONSTANTS
    j1 = j1
    j2 = j2
    t1 = t1
    t2 = t2
    k1 = k1
    k2 = k2
    Nobody = Nobody
    Jobs = {j1, j2}
    Therapists = {t1}
    Candidates <- Everyone
    Overlaps <- Both
    Legacy = {}
    LegacyOwner <- None
    Requests <- SecondKey
    MaxInFlight = 1
    MaxFaults = 0
SPECIFICATION Spec
INVARIANTS
    ServiceBlocks
CHECK_DEADLOCK FALSE
