------------------------------ MODULE Journal ------------------------------
(***************************************************************************)
(* The double-entry core every money-moving service goes through:          *)
(* journal/journal.service.ts.  Only operators live here; the services     *)
(* that post own the state.                                                *)
(*                                                                         *)
(* The journal is a set of POSTED entries (nothing in the code writes      *)
(* another entry status).  An entry is a record                            *)
(*   id      its primary key (a uuid, never used twice)                    *)
(*   number  its unique entryNumber: JE-<year>-<seq>                       *)
(*   ref     <<referenceType, referenceId>>                                *)
(*   lines   a sequence of [account, side, amount]                         *)
(* and balance[a] is the stored column Account.balance.                    *)
(***************************************************************************)
EXTENDS DoubleEntry, FiniteSetsExt

CONSTANTS
    Accounts,   \* the chart of accounts
    TypeOf      \* TypeOf[a]: the AccountType of account a

ASSUME TypeOfAssumption == TypeOf \in [Accounts -> AccountTypes]

----------------------------------------------------------------------------
(* Balances *)

\* What one entry's lines do to account a.
LinesDelta(lines, a) == Delta(TypeOf, lines, a)

Posted(balance, lines) ==
    [a \in Accounts |-> balance[a] + LinesDelta(lines, a)]

EntriesDelta(entries, a) == TotalDelta(TypeOf, entries, a)

\* The balances once each of the entries has been undone.
Reversed(balance, entries) ==
    [a \in Accounts |-> balance[a] - EntriesDelta(entries, a)]

----------------------------------------------------------------------------
(* Entries and their numbers *)

EntriesOf(journal, ref) == {e \in journal : e.ref = ref}

\* The next number of a year is the count of the year's rows, plus one.
NextNumber(rows, year) ==
    [year |-> year,
     seq  |-> Cardinality({r \in rows : r.number.year = year}) + 1]

\* A unique column refuses a second row with the same number.
Taken(rows, number) == \E r \in rows : r.number = number

NewEntry(id, number, ref, lines) ==
    [id |-> id, number |-> number, ref |-> ref, lines |-> lines]

============================================================================
