---------------------------- MODULE MCJobCosting ----------------------------
(* Model values and bounds for Expenses: the cost lines of clearance jobs  *)
(* and their container deposits, without payments.                         *)
EXTENDS Expenses

CONSTANTS bank, ap, held, goods, j1, j2

MCTypeOf == [a \in {bank, ap, held, goods} |->
    CASE a = bank -> "BANK" [] a = goods -> "EXPENSE" [] OTHER -> "LIABILITY"]

\* A flat cost line with a deposit.
MCCreateDtos ==
    {[year |-> 2026, job |-> j1, account |-> goods, items |-> <<>>, amount |-> 5,
      taxRate |-> 10, tax |-> None, deposit |-> 3,
      actualCost |-> None]}

Patch == [year |-> None, job |-> None, account |-> None, items |-> None,
          amount |-> None, taxRate |-> None, tax |-> None, deposit |-> None,
          actualCost |-> None]

\* The deposit is resized, or cleared by a body that states the actual cost.
MCUpdateDtos == {[Patch EXCEPT !.deposit = 2],
                 [Patch EXCEPT !.deposit = 0, !.actualCost = 7]}

\* The bill is moved to another job.
MoveDtos == {[Patch EXCEPT !.job = j2]}

MCDepositDtos == {[year |-> 2026, job |-> j2, amount |-> 4, account |-> held]}

Symmetry == Permutations(Procs) \cup Permutations(DepositIds)

\* Bound: requests overlap, or are cut off, only while there is one deposit.
OverlapsOnOneDeposit ==
    disturbed # {} => Cardinality({d \in DepositIds : deposit[d] # None}) <= 1

=============================================================================
