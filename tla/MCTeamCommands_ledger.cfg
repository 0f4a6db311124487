SPECIFICATION Spec
CONSTANTS
    None = None
    a1 = a1  a2 = a2  o1 = o1  o2 = o2  p1 = p1
    t1 = t1  t2 = t2  t3 = t3  w1 = w1  w2 = w2  e1 = e1  e2 = e2  v1 = v1  v2 = v2
    Owners = {o1, o2}
    OwnerOf <- TwoAgents
    Projects = {p1}
    Bindings <- OneBinding
    GitEvidence <- OneEvidence
    Requests <- Asked
    TaskIds = {t1, t2, t3}
    WorkspaceIds = {w1, w2}
    EventIds = {e1, e2}
    Versions = {v1, v2}
INVARIANTS EveryEffectOnce AnswersAreStable SelectionsFollow
CHECK_DEADLOCK FALSE
