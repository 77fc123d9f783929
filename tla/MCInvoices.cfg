CONSTANTS
    bank = bank  ar = ar  rev = rev  vat = vat
    Procs = {p1, p2}
    InvoiceIds = {i1, i2}
    PaymentIds = {m1, m2}
    EntryIds = {e1, e2, e3}
    Years = {2025, 2026}
    CreateDtos <- MCCreateDtos
    UpdateDtos <- MCUpdateDtos
    PaymentAmounts = {5, 16}
    CashAccounts = {bank}
    AccountsReceivable = ar
    OperationRevenue = rev
    VatPayable = vat
    None = None
    Accounts = {bank, ar, rev, vat}
    TypeOf <- MCTypeOf
SPECIFICATION Spec
SYMMETRY Symmetry
CONSTRAINT OverlapsOnOneInvoice
INVARIANTS PaidIsOnRegister LedgerMatchesInvoice BalancesMatchPayments ReceivableIsWhatIsOwed
CHECK_DEADLOCK FALSE
