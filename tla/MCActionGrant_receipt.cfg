SPECIFICATION FairSpec
CONSTANTS
    a1 = a1  t1 = t1  p1 = p1  p2 = p2  w1 = w1  w2 = w2
    e1 = e1  e2 = e2  h1 = h1
    NoPolicy = NoPolicy  None = None
    TaskOf <- ApprovalTask
    WorkspaceTask <- Binding
    WorkspaceOf <- OneWorkspace
    HeadOf <- OneHead
    Tasks = {t1}
    Approvals = {a1}
    Versions = {1}
    Demanding = {1}
    Lifetimes = {2}
    Lag = 0
    MaxTime = 2
    Adapters = {p2}
    Mortal = {}
    Workspaces = {w1}
    Evidences = {e1}
    Heads = {h1}
    Window = 2
    Ahead = 0
    Skew = 0
    Second = 2
PROPERTIES EveryReceiptArrives
