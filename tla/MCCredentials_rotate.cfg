SPECIFICATION Spec
CONSTANTS
    None = None
    i1 = i1  i2 = i2  i3 = i3  c1 = c1  c2 = c2
    Ids = {i1, i2, i3}
    Calls = {c1, c2}
    Profiles <- Asked
    Lifetimes = {1}
    MaxClock = 2
SYMMETRY Symmetry
INVARIANTS TypeOK NeverAuthenticatedLate
PROPERTIES ImplementsHandover
CHECK_DEADLOCK FALSE
