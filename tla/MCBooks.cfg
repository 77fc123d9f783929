CONSTANTS
    Procs = {p1, p2}
    Accounts <- MCAccounts
    Chart <- MCChart
    Bodies <- MCBodies
    EntryIds = {e1, e2}
    Postings <- MCPostings
    None = None
    Gone = Gone
SPECIFICATION Spec
SYMMETRY Symmetry
CONSTRAINT OneChanged
INVARIANTS LedgerEndsAtBalance RetainedEarningsAreProfit TrendAddsUp
CHECK_DEADLOCK FALSE
