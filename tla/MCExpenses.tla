----------------------------- MODULE MCExpenses -----------------------------
(* Model values and bounds for Expenses: bills and their payments, without *)
(* clearance jobs.                                                         *)
EXTENDS Expenses

CONSTANTS bank, ap, fuel, port

MCTypeOf == [a \in {bank, ap, fuel, port} |->
    CASE a = bank -> "BANK" [] a = ap -> "LIABILITY" [] OTHER -> "EXPENSE"]

\* A voucher of two items, the second on the account of its header.
Voucher(first) ==
    <<[account |-> fuel, amount |-> first, tax |-> 1, deposit |-> None],
      [account |-> None, amount |-> 3, tax |-> None, deposit |-> None]>>

MCCreateDtos ==
    {[year |-> 2026, job |-> None, account |-> port, items |-> Voucher(2),
      amount |-> None, taxRate |-> None, tax |-> None, deposit |-> None,
      actualCost |-> None]}

Patch == [year |-> None, job |-> None, account |-> None, items |-> None,
          amount |-> None, taxRate |-> None, tax |-> None, deposit |-> None,
          actualCost |-> None]

\* New items, or a new amount over the old ones.
MCUpdateDtos == {[Patch EXCEPT !.items = Voucher(1)], [Patch EXCEPT !.amount = 4]}

\* A part payment, a bill paid twice in one batch, and two bills at once.
MCBatches ==
    {<<[id |-> b, amount |-> 3]>> : b \in BillIds}
      \cup {<<[id |-> b, amount |-> 2], [id |-> b, amount |-> 3]>> : b \in BillIds}
      \cup {<<[id |-> b, amount |-> 3], [id |-> c, amount |-> 4]>> :
               <<b, c>> \in {<<x, y>> \in BillIds \X BillIds : x # y}}

Symmetry == Permutations(Procs) \cup Permutations(BillIds)

\* Bound: requests overlap only while there is one bill.
OverlapsOnOneBill ==
    disturbed # {} => Cardinality({id \in BillIds : bill[id] # None}) = 1

=============================================================================
