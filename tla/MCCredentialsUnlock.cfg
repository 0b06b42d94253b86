SPECIFICATION Spec
CONSTANTS
    Procs = {p1, p2}
    Passwords = {w1, w2}
    None = None
    MaxSalt = 3
    MaxFailures = 1
SYMMETRY Symmetry
INVARIANTS TypeOK OneMetaKey AlwaysOpenable OpenIsVerified
PROPERTIES UnlockIsAtomic InitReplacesOnlyRacing
