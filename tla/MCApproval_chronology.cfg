SPECIFICATION ApprovalSpec
CONSTANTS
    a1 = a1  a2 = a2  a3 = a3  t1 = t1  t2 = t2
    NoPolicy = NoPolicy
    TaskOf <- Allocation
    Tasks = {t1}
    Approvals = {a1}
    Versions = {1, 2}
    Demanding = {1}
    Lifetimes = {2}
    Lag = 1
    MaxTime = 2
SYMMETRY Symmetry
INVARIANTS HistoriesAreChronological
