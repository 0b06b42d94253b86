SPECIFICATION Spec
CONSTANTS
    Procs = {p1}
    Revokers = {p1}
    Ttls = {2}
    Chars = {c1, c2, Star, Slash}
    Resources <- SegmentResources
    Scopes <- SegmentScopes
    Names <- SegmentNames
    None = None
    Star = Star
    Slash = Slash
    NoColon = NoColon
    c1 = c1
    c2 = c2
    MaxLen = 3
    MaxSeconds = 4
    MaxClock = 3
    MaxTokens = 1
    MaxKey = 1
INVARIANTS StarSpansOneSegment
