SPECIFICATION Spec
CONSTANTS
    Procs = {p1, p2}
    pub = pub
    pub2 = pub2
    priv = priv
    Pairs <- SharedPrivate
    Outs = {o1, o2}
    Passes = {x1}
    None = None
    MaxKeys = 2
    MaxCommits = 2
SYMMETRY Symmetric
INVARIANTS SnapshotCoversRoot PublicHasPrivate SuccessIsComplete
PROPERTIES NeverOverwritten
