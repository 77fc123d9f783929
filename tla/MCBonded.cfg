CONSTANTS
    kwb = kwb  l2 = l2
    Procs = {p1, p2}
    ItemIds = {i1, i2}
    LocationIds = {kwb, l2}
    Names = {"RELEASED"}
    Bls = {"BL", "SHEET"}
    Kwb = kwb
    CreateDtos <- MCCreateDtos
    UpdateDtos <- MCUpdateDtos
    HeaderDtos <- MCHeaderDtos
    MovementDtos <- MCMovementDtos
    BatchDtos <- MCBatchDtos
    Sheets <- MCSheets
    MaxMovements = 2
    None = None
    Gone = Gone
SPECIFICATION Spec
SYMMETRY Symmetry
CONSTRAINT Moderate
INVARIANTS TypeOK ReleasesAddUp StockAddsUp DutyIsAccountedFor
PROPERTIES EmptiedIsReleased ReleasedWithinReceived ImportedInPlace
CHECK_DEADLOCK FALSE
