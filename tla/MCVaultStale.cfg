SPECIFICATION Spec
CONSTANTS
    Procs = {p1, p2}
    Names = {n1}
    Values = {v1}
    Passwords = {w1, w2}
    FirstPassword = w1
    None = None
    Ops = {"put", "rotate"}
    IntMax = 2
    Int64Max = 3
    MaxLog = 3
    MaxKek = 2
INVARIANTS EveryRowUnwraps
