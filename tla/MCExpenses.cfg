CONSTANTS
    bank = bank  ap = ap  fuel = fuel  port = port
    Procs = {p1, p2}
    BillIds = {b1, b2}
    DepositIds = {}
    DepositDtos = {}
    CreateDtos <- MCCreateDtos
    UpdateDtos <- MCUpdateDtos
    Batches <- MCBatches
    Years = {2026}
    Bank = bank
    BankAccounts = {bank}
    AccountsPayable = ap
    MaxEntries = 4
    MaxPayments = 2
    None = None
    Gone = Gone
    Accounts = {bank, ap, fuel, port}
    TypeOf <- MCTypeOf
SPECIFICATION Spec
SYMMETRY Symmetry
CONSTRAINT OverlapsOnOneBill
INVARIANTS BillMatchesLedger PaidWithinAmount PayableIsWhatIsOwed
CHECK_DEADLOCK FALSE
