SPECIFICATION Spec
CONSTANTS
    Procs = {p1}
    pub = pub
    pub2 = pub2
    priv = priv
    Pairs <- SharedPrivate
    Outs = {o1}
    Passes = {x1}
    None = None
    MaxKeys = 2
    MaxCommits = 1
PROPERTIES PairKept
