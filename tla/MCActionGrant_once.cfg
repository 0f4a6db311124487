SPECIFICATION Spec
CONSTANTS
    a1 = a1  t1 = t1  p1 = p1  p2 = p2  w1 = w1  w2 = w2
    e1 = e1  e2 = e2  h1 = h1
    NoPolicy = NoPolicy  None = None
    TaskOf <- ApprovalTask
    WorkspaceTask <- Binding
    WorkspaceOf <- Origin
    HeadOf <- OneHead
    Tasks = {t1}
    Approvals = {a1}
    Versions = {1, 2}
    Demanding = {1}
    Lifetimes = {1}
    Lag = 0
    MaxTime = 1
    Adapters = {p1, p2}
    Mortal = {p1, p2}
    Workspaces = {w1, w2}
    Evidences = {e1, e2}
    Heads = {h1}
    Window = 2
    Ahead = 0
    Skew = 0
    Second = 2
SYMMETRY Symmetry
INVARIANTS TypeOK AtMostOneAttempt CommitsAreGranted ReceiptsAreTrue TaskAwaitsDecision
PROPERTIES ImplementsOneShot DecisionMovesTask
