SPECIFICATION FairSpec
CONSTANTS
    Procs = {p1, p2}
    Writers = {p2}
    Names = {n1}
    Values = {v1, v2}
    Ttls = {0, 1}
    None = None
    IntMax = 3
    MaxClock = 3
INVARIANTS TypeOK RekeysExpired
PROPERTIES LoopEnds
