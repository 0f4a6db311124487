SPECIFICATION Spec
CONSTANTS
    None = None
    a1 = a1  c1 = c1  c2 = c2  o1 = o1  r1 = r1  r2 = r2
    v1 = v1  v2 = v2  g1 = g1  g2 = g2
    Resources = {r1, r2}
    TeamResources = {r1, r2}
    Owners = {o1}
    Parties <- OneParty
    Subjects = {a1}
    Limits = {1}
    MaxDenials = 1
    Approvals = {a1}
    RepositoryOf <- OneRepository
    Calls = {c1, c2}
    Revisions = {g1, g2}
    Versions = {v1, v2}
    Lifetimes = {1}
    MaxClock = 1
SYMMETRY Symmetry
INVARIANTS LedgersAgree PagesAreExact
PROPERTIES ImplementsOneShot
CHECK_DEADLOCK FALSE
