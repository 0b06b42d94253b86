SPECIFICATION FairSpec
CONSTANTS
    Procs = {p1, p2}
    Names = {n1}
    Values = {v1, v2}
    Passwords = {w1}
    FirstPassword = w1
    None = None
    Ops = {"put", "delete", "rollback", "get", "rotate"}
    IntMax = 3
    Int64Max = 4
    MaxLog = 3
    MaxKek = 3
INVARIANTS TypeOK ActiveIsLatest GaplessVersions AuditReplays NoTxnLeak RatchetIndex ReadsAudited DeletesRetire
PROPERTIES HistoryImmutable ImplementsStore AuditAppendOnly RotationTotal OnlyCurrentRotates OnlyStaleBreaks OperationsEnd
