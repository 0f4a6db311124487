SPECIFICATION AccessSpec
CONSTANTS
    t1 = t1
    None = None
    ArtifactIds = {a1, a2, a3}
    Tasks = {t1}
    Declared <- Several
    Workers = {w1, w2}
    Limit = 2
    MaxTaskCount = 3  MaxTaskBytes = 6  MaxOwnerCount = 4  MaxOwnerBytes = 5
    PendingDays = 1  QuarantineDays = 1  AvailableDays = 1
    MaxTime = 1
    EvidenceIds = {e1, e2}
    MaxAttempt = 2
    Readers = {r1}
CHECK_DEADLOCK FALSE
SYMMETRY Symmetry
INVARIANTS TypeOK ServedIsStored SecretsStayQuarantined QuotaHolds CopyAlwaysFits
    EvidenceIsKept ReadMissesOnlySealed
