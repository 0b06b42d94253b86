SPECIFICATION Spec
CONSTANTS
    Procs = {p1, p2}
    Names = {n1}
    Values = {v1}
    Passwords = {w1}
    FirstPassword = w1
    None = None
    Ops = {"put", "get"}
    IntMax = 2
    Int64Max = 3
    MaxLog = 4
    MaxKek = 1
INVARIANTS ChainIsLinked
