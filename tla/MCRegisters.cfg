CONSTANTS
    Procs = {p1, p2}
    RateIds = {r1, r2, r3}
    Percents = {5, 10, 20}
    SeededRates <- MCSeeded
    TypeIds = {t1, t2}
    Bases = {"OTHER", "REFUND"}
    Other = "OTHER"
    Copies = 2
    Records = {i1, i2}
    Customers = {c1}
    None = None
SPECIFICATION RegistersSpec
SYMMETRY Symmetry
CONSTRAINT OneRegister
INVARIANTS DefaultIsSingle NamedTypeExists StatusHasRemark
CHECK_DEADLOCK FALSE
