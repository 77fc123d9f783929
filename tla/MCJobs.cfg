CONSTANTS
    Procs = {p1, p2}
    JobIds = {j1, j2, j3}
    c1 = c1
    c2 = c2
    Customers = {c1, c2}
    u1 = u1
    u2 = u2
    Users = {u1, u2}
    Years = {2026}
    TypedNumbers <- MCTyped
    Texts <- MCTexts
    Trim <- MCTrim
    Blank = ""
    Creates <- MCCreates
    Updates <- MCUpdates
    ByHand = ByHand
    None = None
    Absent = Absent
SPECIFICATION JobsSpec
SYMMETRY Symmetry
CONSTRAINT Moderate
INVARIANTS NumbersConsecutive PrimaryIsFirst NameIsAssigned
CHECK_DEADLOCK FALSE
