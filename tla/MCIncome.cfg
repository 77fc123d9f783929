CONSTANTS
    bank = bank  r1 = r1  r2 = r2
    Procs = {p1, p2}
    RecordIds = {i1, i2}
    EntryIds = {e1, e2, e3}
    Years = {2025, 2026}
    Amounts = {1, 2}
    RevenueAccounts = {r1, r2}
    InvoiceIds = {inv}
    CreateDtos <- MCCreateDtos
    UpdateDtos <- MCUpdateDtos
    ManualLines <- MCManualLines
    Bank = bank
    OperationRevenue = r1
    None = None
    Accounts = {bank, r1, r2}
    TypeOf <- MCTypeOf
SPECIFICATION Spec
INVARIANTS OneEntryPerIncome BalancesMirrorJournal
PROPERTY ImplementsRegister
CHECK_DEADLOCK FALSE
SYMMETRY Symmetry
