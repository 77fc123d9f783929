------------------------------ MODULE MCIncome ------------------------------
(* Model values and bounds for Income. *)
EXTENDS Income, TLC

CONSTANTS bank, r1, r2

MCTypeOf == bank :> "BANK" @@ r1 :> "REVENUE" @@ r2 :> "REVENUE"

MCCreateDtos == {[year |-> 2026, amount |-> 1, account |-> r1]}

\* A new amount and account; another year.
MCUpdateDtos ==
    {[year |-> None, amount |-> 2,    account |-> r2],
     [year |-> 2025, amount |-> None, account |-> None]}

\* A correction between the revenue accounts, and a slip that does not balance.
MCManualLines == {<<Debit(r1, 1), Credit(r2, 1)>>, <<Debit(r1, 1), Credit(r2, 2)>>}

Symmetry == Permutations(Procs) \cup Permutations(RecordIds) \cup Permutations(EntryIds)

============================================================================
