--------------------------- MODULE IncomeRegister ---------------------------
(***************************************************************************)
(* What the income register promises its users, with no transaction, read  *)
(* or number in sight: a record and its posting change together, in one    *)
(* step, and only a review changes neither.                                *)
(***************************************************************************)
CONSTANTS RecordIds, Years, Amounts, RevenueAccounts, None

VARIABLES
    book,       \* book[id]: what the register shows, None where nothing is
    postings    \* postings[id]: the live ledger postings of the record

regVars == <<book, postings>>

Facts == [year : Years, amount : Amounts, account : RevenueAccounts]

\* A register line from the facts, its source and its approval badge.
Line(f, source, approval) ==
    [year |-> f.year, amount |-> f.amount, account |-> f.account,
     source |-> source, approval |-> approval]

RegInit ==
    /\ book     = [id \in RecordIds |-> None]
    /\ postings = [id \in RecordIds |-> {}]

\* Money received: on the register and in the ledger at once, not yet reviewed.
Record(id, f) ==
    /\ book[id] = None
    /\ book'     = [book EXCEPT ![id] = Line(f, "MANUAL", "PENDING")]
    /\ postings' = [postings EXCEPT ![id] = {f}]

\* A paid invoice shows on the register; its revenue is booked elsewhere.
Mirror(id, f) ==
    /\ book[id] = None
    /\ book' = [book EXCEPT ![id] = Line(f, "INVOICE", "PENDING")]
    /\ UNCHANGED postings

\* A correction replaces the posting and asks for a new review.
Correct(id, f) ==
    /\ book[id] # None
    /\ book[id].source = "MANUAL"
    /\ book'     = [book EXCEPT ![id] = Line(f, "MANUAL", "PENDING")]
    /\ postings' = [postings EXCEPT ![id] = {f}]

Judge(id, verdict) ==
    /\ book[id] # None
    /\ book' = [book EXCEPT ![id].approval = verdict]
    /\ UNCHANGED postings

RegNext ==
    \E id \in RecordIds :
        \/ \E f \in Facts : Record(id, f) \/ Mirror(id, f) \/ Correct(id, f)
        \/ \E verdict \in {"APPROVED", "REJECTED"} : Judge(id, verdict)

RegSpec == RegInit /\ [][RegNext]_regVars

============================================================================
