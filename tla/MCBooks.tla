------------------------------ MODULE MCBooks ------------------------------
(* Model values and bounds for Books. *)
EXTENDS Books, TLC

\* The bank and the revenue account of the seed and one that is added.
MCAccounts == {"1100", "4001", "5001"}

MCChart == [a \in {"1100", "4001"} |-> IF a = "1100" THEN "BANK" ELSE "REVENUE"]

MCBodies == {[type |-> "LIABILITY", isActive |-> None], [type |-> "EXPENSE", isActive |-> TRUE],
             [type |-> None, isActive |-> FALSE]}

Entered(a, side, n) == [account |-> a, side |-> side, amount |-> n]

\* A sale in the last month of a year, an expense in the first of the next, and
\* lines that do not balance.
MCPostings ==
    {[month |-> 12 * 2025 + 11, lines |-> <<Entered("1100", "DEBIT", 3), Entered("4001", "CREDIT", 3)>>],
     [month |-> 12 * 2026, lines |-> <<Entered("5001", "DEBIT", 2), Entered("1100", "CREDIT", 2)>>],
     [month |-> 12 * 2026, lines |-> <<Entered("1100", "DEBIT", 2), Entered("4001", "CREDIT", 1)>>]}

\* The accounts that differ from the chart, the added one from an expense.
Changed == {a \in Accounts :
    /\ Exists(a)
    /\ \/ account[a].type # IF a \in DOMAIN Chart THEN Chart[a] ELSE "EXPENSE"
       \/ ~account[a].isActive}

\* Bounds: one account at a time differs, the added one is not given a type of
\* the chart or of an asset, one balance is disturbed, one entry is reversed.
OneChanged ==
    /\ Cardinality(Changed) <= 1 /\ Cardinality(disturbed) <= 1
    /\ \A a \in Accounts \ DOMAIN Chart : Exists(a) =>
          account[a].type \in {"EXPENSE", "LIABILITY", "EQUITY"}
    /\ Cardinality({e \in EntryIds : journal[e] = Gone}) <= 1

Symmetry == Permutations(Procs) \cup Permutations(EntryIds)

=============================================================================
