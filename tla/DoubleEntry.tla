---------------------------- MODULE DoubleEntry ----------------------------
(***************************************************************************)
(* What the lines of a journal entry do to an account: the arithmetic of   *)
(* journal/journal.service.ts with common/accounting.constants.ts.  A line *)
(* is a record [account, side, amount]; an account is an asset, a debt,... *)
(* according to its type.                                                  *)
(***************************************************************************)
EXTENDS Integers, Sequences, FiniteSets, Functions

AccountTypes == {"ASSET", "BANK", "LIABILITY", "EQUITY", "REVENUE", "EXPENSE"}

Debit(a, n)  == [account |-> a, side |-> "DEBIT",  amount |-> n]
Credit(a, n) == [account |-> a, side |-> "CREDIT", amount |-> n]

\* A debit raises what the company owns or spends and lowers the rest.
balanceDelta(type, side, amount) ==
    IF (type \in {"ASSET", "EXPENSE", "BANK"}) = (side = "DEBIT")
    THEN amount
    ELSE -amount

SideTotal(lines, side) ==
    SumFunction([i \in DOMAIN lines |-> IF lines[i].side = side THEN lines[i].amount ELSE 0])

\* The check postJournal makes before it writes anything.
Balanced(lines) == SideTotal(lines, "DEBIT") = SideTotal(lines, "CREDIT")

\* What the lines do to account a under the given types of accounts.
Delta(types, lines, a) ==
    SumFunction([i \in DOMAIN lines |->
        IF lines[i].account = a
        THEN balanceDelta(types[a], lines[i].side, lines[i].amount)
        ELSE 0])

\* What the entries do to it.
TotalDelta(types, entries, a) == SumFunction([e \in entries |-> Delta(types, e.lines, a)])

============================================================================
