SPECIFICATION MCSpec
CONSTANTS
    None = None
    g1 = g1  g2 = g2  t1 = t1  t2 = t2  t3 = t3  late = late
    r1 = r1  r2 = r2  m1 = m1  m2 = m2
    a1 = a1  a2 = a2
    Evidences = {g1, g2, t1, t2, t3, late}
    Prior = {g1, g2, t1, t2, t3}
    Facts <- TwoCommits
    Requests <- Claims
    RecordIds = {r1, r2}
    MemoryIds = {m1, m2}
    Assessors = {a1, a2}
    Touching = {2}
    MaxHead = 2
    MaxAssessments = 2
SYMMETRY Symmetry
INVARIANTS FoundIsUndisputed AssessmentsInOrder
PROPERTIES NoRunIsHidden SupersededIsFinal
