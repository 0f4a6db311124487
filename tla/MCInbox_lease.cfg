SPECIFICATION Spec
CONSTANTS
    a1 = a1  a2 = a2  k1 = k1  k2 = k2 
    f1 = f1   h1 = h1  h2 = h2
    NoItem = NoItem  NoToken = NoToken
    Recipient <- OneRecipient
    ProcessOf <- SameProcess
    Agents = {a1}
    Items = {1, 2}
    InitialMembers = {1, 2}
    ClaimKeys = {k1, k2}
    FinishKeys = {f1}
    Handlers = {h1, h2}
    MaxAttempts = 2
    Durations = {1}
    Waits = {0}
    Delays = {0}
    MaxTime = 2
SYMMETRY Symmetry
INVARIANTS TypeOK AttemptsAreAnswered SettledOnce LeasesDisjoint
