CONSTANTS
    Procs = {p1, p2}
    Jobs = {j1, j2}
    PlanIds = {a1, a2, a3}
    Containers <- MCContainers
    Key <- MCKey
    Payloads <- MCPayloads
    None = None
    Removed = Removed
SPECIFICATION PlansSpec
SYMMETRY Symmetry
CONSTRAINT Moderate
PROPERTIES SyncMatchesPayload KeptRowsKeepStatus StatusMovesOneStep
CHECK_DEADLOCK FALSE
