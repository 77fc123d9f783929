------------------------------- MODULE Income -------------------------------
(***************************************************************************)
(* The income register, income/income.service.ts, posting to the journal.  *)
(*                                                                         *)
(* Every service method is an async request.  Requests of several users    *)
(* interleave at each await, and prisma.$transaction runs at PostgreSQL's  *)
(* default READ COMMITTED: each statement of a transaction sees whatever   *)
(* is committed when it runs.  A request is therefore a few reads, each a  *)
(* step of its own that stores what it saw in req[p], and one commit that  *)
(* applies all its writes.  A write that cannot be applied (a taken unique *)
(* number, P2002; a row that is gone, P2025) leaves the commit disabled,   *)
(* and the request can only Abort; Abort is also a crash, a timeout or a   *)
(* deadlock victim.                                                        *)
(***************************************************************************)
EXTENDS Journal, Requests

CONSTANTS
    RecordIds,      \* primary keys of income records
    EntryIds,       \* primary keys of journal entries (bounds the postings)
    Years,          \* calendar years of record and entry dates
    Amounts,        \* amounts of a record
    RevenueAccounts,\* accounts a record may be booked to
    InvoiceIds,     \* invoices whose payment may link an income row
    CreateDtos,     \* bodies of the create requests
    UpdateDtos,     \* bodies of the update requests
    ManualLines,    \* line lists of manual journal entries
    Bank,           \* account 1100
    OperationRevenue \* the revenue account invoices book to

VARIABLES
    income,     \* the IncomeRecord table, None where no row exists
    journal,    \* the JournalEntry table
    balance,    \* Account.balance
    used        \* entry primary keys handed out so far

vars == <<income, journal, balance, used, req>>

----------------------------------------------------------------------------
(* Rows, requests *)

Numbers == [year : Years, seq : Nat]

Row == [number : Numbers, year : Years, amount : Amounts,
        account : RevenueAccounts, source : {"MANUAL", "INVOICE"},
        invoice : InvoiceIds \cup {None}, approval : {"PENDING", "APPROVED", "REJECTED"}]

\* The columns of a row that a user of the register sees.
ShownRow == [year : Years, amount : Amounts, account : RevenueAccounts,
             source : {"MANUAL", "INVOICE"}, approval : {"PENDING", "APPROVED", "REJECTED"}]

LineType == [account : Accounts, side : {"DEBIT", "CREDIT"}, amount : Int]
Entry    == [id : EntryIds, number : Numbers,
             ref : {"INCOME", "MANUAL_ENTRY"} \X (RecordIds \cup {None}), lines : Seq(LineType)]

\* CreateIncomeDto; UpdateIncomeDto is the same with every field optional.
CreateDto == [year : Years, amount : Amounts, account : RevenueAccounts]
UpdateDto == [year : Years \cup {None}, amount : Amounts \cup {None},
              account : RevenueAccounts \cup {None}]

Request == [pc : {"idle", "numbered", "posting", "editing", "reversing", "reposting",
                  "linking", "inserting", "manual"},
            id : RecordIds \cup InvoiceIds \cup {None},
            data : UpdateDto \cup {None}, lines : ManualLines \cup {None},
            found : SUBSET Entry,
            number : Numbers \cup {None}, entryNumber : Numbers \cup {None}]

ASSUME IncomeAssumption ==
    /\ IsFiniteSet(RecordIds)
    /\ Amounts \subseteq Int
    /\ RevenueAccounts \subseteq Accounts
    /\ Bank \in Accounts
    /\ OperationRevenue \in RevenueAccounts
    /\ CreateDtos \subseteq CreateDto
    /\ UpdateDtos \subseteq UpdateDto
    /\ ManualLines \subseteq Seq(LineType)

ASSUME NoneAssumption ==
    /\ None \notin RecordIds \cup Years \cup Amounts \cup RevenueAccounts \cup InvoiceIds
    /\ None \notin Row \cup ShownRow

Exists(id) == income[id] # None
Rows       == {income[id] : id \in {i \in RecordIds : Exists(i)}}

Given(new, old) == IF new = None THEN old ELSE new

\* The row an update writes: the dto over the row as it is at the write.
Merge(row, dto) ==
    [row EXCEPT !.year    = Given(dto.year, @),
                !.amount  = Given(dto.amount, @),
                !.account = Given(dto.account, @)]

Idle == [pc |-> "idle", id |-> None, data |-> None, lines |-> None, found |-> {},
         number |-> None, entryNumber |-> None]

Done(p)   == req' = [req EXCEPT ![p] = Idle]

Ref(id) == <<"INCOME", id>>

\* DR bank / CR the record's revenue account.
IncomeLines(row) == <<Debit(Bank, row.amount), Credit(row.account, row.amount)>>

TypeOK ==
    /\ income \in [RecordIds -> Row \cup {None}]
    /\ journal \subseteq Entry
    /\ IsFiniteSet(journal)
    /\ DOMAIN balance = Accounts
    /\ used \subseteq EntryIds
    /\ req \in [Procs -> Request]

Init ==
    /\ income  = [id \in RecordIds |-> None]
    /\ journal = {}
    /\ balance = [a \in Accounts |-> 0]
    /\ used    = {}
    /\ req     = [p \in Procs |-> Idle]

----------------------------------------------------------------------------
(* create: the record and its journal entry, in one transaction *)

CreateNumber(p, dto) ==
    /\ At(p, "idle")
    /\ req' = [req EXCEPT ![p] = [Idle EXCEPT !.pc = "numbered", !.data = dto,
                                              !.number = NextNumber(Rows, dto.year)]]
    /\ UNCHANGED <<income, journal, balance, used>>

CreateEntryNumber(p) ==
    /\ At(p, "numbered")
    /\ req' = [req EXCEPT ![p].pc = "posting",
                          ![p].entryNumber = NextNumber(journal, req[p].data.year)]
    /\ UNCHANGED <<income, journal, balance, used>>

NewRow(r) ==
    [number |-> r.number, year |-> r.data.year, amount |-> r.data.amount,
     account |-> r.data.account, source |-> "MANUAL", invoice |-> None,
     approval |-> "PENDING"]

\* postJournal for record id over the journal and balances its transaction sees.
PostIncome(p, id, eid, row, seen, balanceSeen) ==
    /\ eid \in EntryIds \ used
    /\ Balanced(IncomeLines(row))
    /\ ~Taken(seen, req[p].entryNumber)
    /\ journal' = seen \cup {NewEntry(eid, req[p].entryNumber, Ref(id), IncomeLines(row))}
    /\ balance' = Posted(balanceSeen, IncomeLines(row))
    /\ used'    = used \cup {eid}

CreateCommit(p, id, eid) ==
    /\ At(p, "posting")
    /\ ~Exists(id)
    /\ ~Taken(Rows, req[p].number)
    /\ income' = [income EXCEPT ![id] = NewRow(req[p])]
    /\ PostIncome(p, id, eid, NewRow(req[p]), journal, balance)
    /\ Done(p)

----------------------------------------------------------------------------
(* update: reverse the record's entry, rewrite the record, post again *)

\* findOne and the source check run before the transaction starts.
UpdateRead(p, id, dto) ==
    /\ At(p, "idle")
    /\ Exists(id)
    /\ income[id].source = "MANUAL"
    /\ req' = [req EXCEPT ![p] = [Idle EXCEPT !.pc = "editing", !.id = id, !.data = dto]]
    /\ UNCHANGED <<income, journal, balance, used>>

\* reverseEntriesByReference reads the entries it will undo and delete.
UpdateFind(p) ==
    /\ At(p, "editing")
    /\ req' = [req EXCEPT ![p].pc = "reversing",
                          ![p].found = EntriesOf(journal, Ref(req[p].id))]
    /\ UNCHANGED <<income, journal, balance, used>>

\* The count no longer sees the entries this transaction deleted.
UpdateEntryNumber(p) ==
    LET row == Merge(income[req[p].id], req[p].data)
    IN  /\ At(p, "reversing")
        /\ req' = [req EXCEPT ![p].pc = "reposting",
                              ![p].entryNumber = NextNumber(journal \ req[p].found, row.year)]
        /\ UNCHANGED <<income, journal, balance, used>>

\* Mutant: deleteMany, which does not mind that the entry is gone.
DeletableAlways(entries) == TRUE

\* delete, by primary key: refused when another request already deleted the entry.
Deletable(entries) == entries \subseteq journal

\* Mutant: the badge of the last review survives the edit.
RewrittenKeepsBadge(row, dto) == Merge(row, dto)

\* The edited record goes back to PENDING.
Rewritten(row, dto) == [Merge(row, dto) EXCEPT !.approval = "PENDING"]

UpdateCommit(p, eid) ==
    LET id  == req[p].id
        row == Rewritten(income[id], req[p].data)
    IN  /\ At(p, "reposting")
        /\ Deletable(req[p].found)
        /\ income' = [income EXCEPT ![id] = row]
        /\ PostIncome(p, id, eid, row, journal \ req[p].found,
                      Reversed(balance, req[p].found))
        /\ Done(p)

----------------------------------------------------------------------------
(* approve and reject: one write of the approval columns *)

Review(id, verdict) ==
    /\ Exists(id)
    /\ income' = [income EXCEPT ![id].approval = verdict]
    /\ UNCHANGED <<journal, balance, used, req>>

Approve(id) == Review(id, "APPROVED")
Reject(id)  == Review(id, "REJECTED")

----------------------------------------------------------------------------
(* createFromInvoiceTx: a reporting-only row for a fully paid invoice *)

Linked(inv) == \E row \in Rows : row.invoice = inv

\* The payment gives the date, the invoice the amount: a dto stands for both.
LinkRead(p, inv, dto) ==
    /\ At(p, "idle")
    /\ ~Linked(inv)
    /\ req' = [req EXCEPT ![p] = [Idle EXCEPT !.pc = "linking", !.id = inv,
                                     !.data = [dto EXCEPT !.account = OperationRevenue]]]
    /\ UNCHANGED <<income, journal, balance, used>>

LinkNumber(p) ==
    /\ At(p, "linking")
    /\ req' = [req EXCEPT ![p].pc = "inserting",
                          ![p].number = NextNumber(Rows, req[p].data.year)]
    /\ UNCHANGED <<income, journal, balance, used>>

LinkCommit(p, id) ==
    /\ At(p, "inserting")
    /\ ~Exists(id)
    /\ ~Taken(Rows, req[p].number)
    /\ ~Linked(req[p].id)
    /\ income' = [income EXCEPT ![id] =
                    [NewRow(req[p]) EXCEPT !.source = "INVOICE", !.invoice = req[p].id]]
    /\ UNCHANGED <<journal, balance, used>>
    /\ Done(p)

----------------------------------------------------------------------------
(* journal createEntry: a manual entry on the same journal *)

ManualNumber(p, lines, year) ==
    /\ At(p, "idle")
    /\ Balanced(lines)
    /\ req' = [req EXCEPT ![p] = [Idle EXCEPT !.pc = "manual", !.lines = lines,
                                              !.entryNumber = NextNumber(journal, year)]]
    /\ UNCHANGED <<income, journal, balance, used>>

ManualCommit(p, eid) ==
    LET lines == req[p].lines
    IN  /\ At(p, "manual")
        /\ eid \in EntryIds \ used
        /\ ~Taken(journal, req[p].entryNumber)
        /\ journal' = journal \cup
                {NewEntry(eid, req[p].entryNumber, <<"MANUAL_ENTRY", None>>, lines)}
        /\ balance' = Posted(balance, lines)
        /\ used'    = used \cup {eid}
        /\ UNCHANGED income
        /\ Done(p)

----------------------------------------------------------------------------

\* A transaction that fails, or a process that stops, leaves nothing behind.
Abort(p) ==
    /\ ~At(p, "idle")
    /\ Done(p)
    /\ UNCHANGED <<income, journal, balance, used>>

Step(p) ==
    \/ \E dto \in CreateDtos : CreateNumber(p, dto)
    \/ CreateEntryNumber(p)
    \/ \E id \in RecordIds, eid \in EntryIds : CreateCommit(p, id, eid)
    \/ \E id \in RecordIds, dto \in UpdateDtos : UpdateRead(p, id, dto)
    \/ UpdateFind(p)
    \/ UpdateEntryNumber(p)
    \/ \E eid \in EntryIds : UpdateCommit(p, eid)
    \/ \E inv \in InvoiceIds, dto \in CreateDtos : LinkRead(p, inv, dto)
    \/ LinkNumber(p)
    \/ \E id \in RecordIds : LinkCommit(p, id)
    \/ \E lines \in ManualLines, y \in Years : ManualNumber(p, lines, y)
    \/ \E eid \in EntryIds : ManualCommit(p, eid)
    \/ Abort(p)

Next ==
    \/ \E p \in Procs : Step(p)
    \/ \E id \in RecordIds : Approve(id) \/ Reject(id)

Spec == Init /\ [][Next]_vars

----------------------------------------------------------------------------
(* Properties *)

\* What the register promises the ledger: whatever requests interleave, each
\* hand-entered record has exactly one live journal entry, booked in the year,
\* to the account and for the amount the record shows, and a row that mirrors a
\* paid invoice has none (the invoice already booked its revenue).
OneEntryPerIncome ==
    \A id \in RecordIds :
        IF Exists(id) /\ income[id].source = "MANUAL"
        THEN \E e \in journal :
                /\ EntriesOf(journal, Ref(id)) = {e}
                /\ e.lines = IncomeLines(income[id])
                /\ e.number.year = income[id].year
        ELSE EntriesOf(journal, Ref(id)) = {}

\* Reversals and postings of concurrent requests never leave a stored balance
\* that differs from what the live entries add up to.
BalancesMirrorJournal ==
    \A a \in Accounts : balance[a] = EntriesDelta(journal, a)

\* What the register and the ledger show for a record.
Shown(row) == [year |-> row.year, amount |-> row.amount, account |-> row.account,
               source |-> row.source, approval |-> row.approval]
PostedFacts(e) == [year |-> e.number.year, amount |-> e.lines[2].amount,
                   account |-> e.lines[2].account]

Register == INSTANCE IncomeRegister WITH
    book     <- [id \in RecordIds |-> IF Exists(id) THEN Shown(income[id]) ELSE None],
    postings <- [id \in RecordIds |-> {PostedFacts(e) : e \in EntriesOf(journal, Ref(id))}]

\* create, update, approve, reject and createFromInvoiceTx, interleaved at every
\* await, look like single steps of the register: nobody ever sees a record
\* without its posting, with two, or with one that shows other facts.
ImplementsRegister == Register!RegSpec

\* An edit re-posts "so account balances stay correct": its commit is never
\* refused because the number it was given is already taken.
EditCanPost ==
    \A p \in Procs :
        At(p, "reposting") => ~Taken(journal \ req[p].found, req[p].entryNumber)

============================================================================
