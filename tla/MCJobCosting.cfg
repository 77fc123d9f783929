CONSTANTS
    bank = bank  ap = ap  held = held  goods = goods  j1 = j1  j2 = j2
    Procs = {p1, p2}
    BillIds = {b1}
    DepositIds = {d1, d2}
    DepositDtos <- MCDepositDtos
    CreateDtos <- MCCreateDtos
    UpdateDtos <- MCUpdateDtos
    Batches = {}
    Years = {2026}
    Bank = bank
    BankAccounts = {bank}
    AccountsPayable = ap
    MaxEntries = 2
    MaxPayments = 0
    None = None
    Gone = Gone
    Accounts = {bank, ap, held, goods}
    TypeOf <- MCTypeOf
SPECIFICATION Spec
SYMMETRY Symmetry
CONSTRAINT OverlapsOnOneDeposit
INVARIANTS DepositOnTheBooks TrackerMirrorsBill ChargedOnce
PROPERTY RefundedIsLocked
CHECK_DEADLOCK FALSE
