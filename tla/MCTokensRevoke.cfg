SPECIFICATION Spec
CONSTANTS
    Procs = {p1, p2}
    Revokers = {p1}
    Ttls = {2}
    Chars = {c1, c2, Star, Slash}
    Resources <- SomeResources
    Scopes <- SomeScopes
    Names <- SomeNames
    None = None
    Star = Star
    Slash = Slash
    NoColon = NoColon
    c1 = c1
    c2 = c2
    MaxLen = 3
    MaxSeconds = 4
    MaxClock = 3
    MaxTokens = 2
    MaxKey = 2
INVARIANTS TypeOK AuthorisedIsCovered GrantIsSubtree
PROPERTIES RevokedRefused
