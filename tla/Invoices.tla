------------------------------ MODULE Invoices ------------------------------
(***************************************************************************)
(* Customer invoices and their payments, invoices/invoices.service.ts:     *)
(* DRAFT -> ISSUED -> PARTIALLY_PAID -> PAID.  (SENT, OVERDUE and          *)
(* CANCELLED exist in the schema but no code sets them.)  Amounts are      *)
(* cents, so the service's 0.001 tolerances are exact comparisons.         *)
(* Requests interleave as in module Income: each read of a READ COMMITTED  *)
(* transaction is a step, its writes are applied by one commit.            *)
(***************************************************************************)
EXTENDS Journal, Requests, SequencesExt

CONSTANTS
    InvoiceIds, PaymentIds, EntryIds,   \* primary keys (they bound the rows)
    Years,          \* calendar years
    CreateDtos, UpdateDtos, \* request bodies: line items, tax rate, kind
    PaymentAmounts, \* amounts a customer may pay
    CashAccounts,   \* accounts a payment may be received on (1100 by default)
    AccountsReceivable, OperationRevenue, VatPayable

VARIABLES
    invoice,    \* the Invoice table
    payments,   \* the Payment table
    register,   \* register[id]: the income row linked to a paid invoice
    journal, balance, used,
    today,      \* the year new Date() is in
    contended   \* history: invoices two requests have worked on at the same time

vars == <<invoice, payments, register, journal, balance, used, today, req, contended>>
ledger == <<journal, balance, used>>

----------------------------------------------------------------------------
(* Rows *)

LineItem == [amount : Nat, taxable : BOOLEAN]
Dto == [lines : Seq(LineItem), taxRate : 0..100, debitNote : BOOLEAN]

ASSUME InvoicesAssumption ==
    /\ CreateDtos \cup UpdateDtos \subseteq Dto
    /\ PaymentAmounts \subseteq Nat \ {0}
    /\ CashAccounts \subseteq Accounts
    /\ {AccountsReceivable, OperationRevenue, VatPayable} \subseteq Accounts
    /\ IsFiniteSet(InvoiceIds)

\* The seeded chart: receivables are an asset account of their own.
ASSUME ChartAssumption ==
    /\ AccountsReceivable \notin {OperationRevenue, VatPayable}
    /\ TypeOf[AccountsReceivable] = "ASSET"

Numbers == [year : Years, seq : Nat]
Statuses == {"DRAFT", "ISSUED", "PARTIALLY_PAID", "PAID"}
InvoiceRow == [number : Numbers, status : Statuses, subtotal : Nat, tax : Nat,
               total : Nat, paid : Nat, due : Int]

ASSUME NoneAssumption == None \notin InvoiceIds /\ None \notin Nat /\ None \notin InvoiceRow

Exists(id) == invoice[id] # None
Rows == {invoice[id] : id \in {i \in InvoiceIds : Exists(i)}}

\* Subtotal, VAT on the taxable lines rounded half up to the cent, and total.
\* A debit note carries no VAT.
computeTotals(dto) ==
    LET lines       == dto.lines
        subtotal    == SumFunction([i \in DOMAIN lines |-> lines[i].amount])
        taxableBase == SumFunction([i \in DOMAIN lines |->
                                       IF lines[i].taxable THEN lines[i].amount ELSE 0])
        tax         == IF dto.debitNote THEN 0
                       ELSE (taxableBase * dto.taxRate + 50) \div 100
    IN  [subtotal |-> subtotal, tax |-> tax, total |-> subtotal + tax]

\* DR A/R, CR revenue and, when there is any, CR VAT payable.
InvoiceLines(inv) ==
    <<Debit(AccountsReceivable, inv.total), Credit(OperationRevenue, inv.subtotal)>>
      \o IF inv.tax > 0 THEN <<Credit(VatPayable, inv.tax)>> ELSE <<>>

InvoiceRef(id) == <<"INVOICE", id>>
PaymentRef(id) == <<"PAYMENT", id>>

----------------------------------------------------------------------------
(* Requests *)

Idle == [pc |-> "idle", id |-> None, row |-> None, dto |-> None, pay |-> None,
         found |-> {}, number |-> None, entryNumber |-> None]

Done(p)   == req' = [req EXCEPT ![p] = Idle]
Reads     == UNCHANGED <<invoice, payments, register, journal, balance, used, today>>

\* postJournal over the entries and balances the transaction sees.
Post(p, eid, ref, lines, seen, balanceSeen) ==
    /\ eid \in EntryIds \ used
    /\ Balanced(lines)
    /\ ~Taken(seen, req[p].entryNumber)
    /\ journal' = seen \cup {NewEntry(eid, req[p].entryNumber, ref, lines)}
    /\ balance' = Posted(balanceSeen, lines)
    /\ used'    = used \cup {eid}

TypeOK ==
    /\ \A id \in InvoiceIds : invoice[id] = None \/ invoice[id] \in InvoiceRow
    /\ \A pay \in payments : pay.invoice \in InvoiceIds /\ pay.number \in Numbers
    /\ \A e \in journal : e.id \in used /\ e.number \in Numbers
    /\ register \in [InvoiceIds -> Nat \cup {None}]
    /\ DOMAIN balance = Accounts
    /\ today \in Years
    /\ \A p \in Procs :
          /\ req[p].pc \in {"idle", "creating", "finalizing", "issuing", "editing",
                            "reversing", "reposting", "paying", "receiving", "settling"}
          /\ req[p].id \in InvoiceIds \cup {None} /\ req[p].row \in InvoiceRow \cup {None}
          /\ {req[p].number, req[p].entryNumber} \subseteq Numbers \cup {None}
          /\ \A e \in req[p].found : e.number \in Numbers

Init ==
    /\ invoice  = [id \in InvoiceIds |-> None]
    /\ payments = {}
    /\ register = [id \in InvoiceIds |-> None]
    /\ journal  = {}
    /\ balance  = [a \in Accounts |-> 0]
    /\ used     = {}
    /\ today \in Years
    /\ req      = [p \in Procs |-> Idle]
    /\ contended = {}

----------------------------------------------------------------------------
(* create: a DRAFT, numbered within the year of its invoice date *)

CreateNumber(p, dto, year) ==
    /\ At(p, "idle")
    /\ req' = [req EXCEPT ![p] = [Idle EXCEPT !.pc = "creating", !.dto = dto,
                                              !.number = NextNumber(Rows, year)]]
    /\ Reads

CreateCommit(p, id) ==
    LET t == computeTotals(req[p].dto)
    IN  /\ At(p, "creating")
        /\ ~Exists(id)
        /\ ~Taken(Rows, req[p].number)
        /\ invoice' = [invoice EXCEPT ![id] =
                [number |-> req[p].number, status |-> "DRAFT", subtotal |-> t.subtotal,
                 tax |-> t.tax, total |-> t.total, paid |-> 0, due |-> t.total]]
        /\ Done(p)
        /\ UNCHANGED <<payments, register, journal, balance, used, today>>

----------------------------------------------------------------------------
(* finalize: issue a draft and post it *)

FinalizeRead(p, id) ==
    /\ At(p, "idle")
    /\ Exists(id)
    /\ invoice[id].status = "DRAFT"
    /\ req' = [req EXCEPT ![p] = [Idle EXCEPT !.pc = "finalizing", !.id = id,
                                              !.row = invoice[id]]]
    /\ Reads

FinalizeNumber(p) ==
    /\ At(p, "finalizing")
    /\ req' = [req EXCEPT ![p].pc = "issuing",
                          ![p].entryNumber = NextNumber(journal, today)]
    /\ Reads

\* The entry carries the amounts read; only the status is written.
FinalizeCommit(p, eid) ==
    LET id == req[p].id
    IN  /\ At(p, "issuing")
        /\ invoice' = [invoice EXCEPT ![id].status = "ISSUED"]
        /\ Post(p, eid, InvoiceRef(id), InvoiceLines(req[p].row), journal, balance)
        /\ Done(p)
        /\ UNCHANGED <<payments, register, today>>

----------------------------------------------------------------------------
(* update: rewrite the amounts and, past DRAFT, reverse and re-post *)

\* The status is checked before the transaction starts; wasPosted comes from it.
UpdateRead(p, id, dto) ==
    /\ At(p, "idle")
    /\ Exists(id)
    /\ invoice[id].status \in {"DRAFT", "ISSUED"}
    /\ req' = [req EXCEPT ![p] = [Idle EXCEPT !.pc = "editing", !.id = id,
                                              !.row = invoice[id], !.dto = dto]]
    /\ Reads

\* Mutant: only the invoice is rewritten.
WasPostedNever(p) == FALSE

WasPosted(p) == req[p].row.status # "DRAFT"

UpdateFind(p) ==
    /\ At(p, "editing")
    /\ WasPosted(p)
    /\ req' = [req EXCEPT ![p].pc = "reversing",
                          ![p].found = EntriesOf(journal, InvoiceRef(req[p].id))]
    /\ Reads

UpdateNumber(p) ==
    /\ At(p, "reversing")
    /\ req' = [req EXCEPT ![p].pc = "reposting",
                          ![p].entryNumber = NextNumber(journal \ req[p].found, today)]
    /\ Reads

\* Mutant: balanceDue is left at the old total.
AmendedKeepsDue(inv, dto) ==
    LET t == computeTotals(dto)
    IN  [inv EXCEPT !.subtotal = t.subtotal, !.tax = t.tax, !.total = t.total]

\* paidAmount and status stay as they are; balanceDue becomes the new total.
Amended(inv, dto) ==
    LET t == computeTotals(dto)
    IN  [inv EXCEPT !.subtotal = t.subtotal, !.tax = t.tax, !.total = t.total,
                    !.due = t.total]

UpdateDraftCommit(p) ==
    LET id == req[p].id
    IN  /\ At(p, "editing")
        /\ ~WasPosted(p)
        /\ invoice' = [invoice EXCEPT ![id] = Amended(@, req[p].dto)]
        /\ Done(p)
        /\ UNCHANGED <<payments, register, journal, balance, used, today>>

\* delete, by primary key: refused when another request already deleted the entry.
Deletable(entries) == entries \subseteq journal

UpdatePostedCommit(p, eid) ==
    LET id  == req[p].id
        inv == Amended(invoice[id], req[p].dto)
    IN  /\ At(p, "reposting")
        /\ Deletable(req[p].found)
        /\ invoice' = [invoice EXCEPT ![id] = inv]
        /\ Post(p, eid, InvoiceRef(id), InvoiceLines(inv), journal \ req[p].found,
                Reversed(balance, req[p].found))
        /\ Done(p)
        /\ UNCHANGED <<payments, register, today>>

----------------------------------------------------------------------------
(* recordPayment: a payment row, the invoice's balances, the register, the *)
(* journal, in one transaction over the invoice as first read              *)

PayRead(p, id, amount, year, cash) ==
    /\ At(p, "idle")
    /\ Exists(id)
    /\ invoice[id].status # "DRAFT"
    /\ amount <= invoice[id].due
    /\ req' = [req EXCEPT ![p] = [Idle EXCEPT !.pc = "paying", !.id = id, !.row = invoice[id],
                    !.pay = [amount |-> amount, year |-> year, cash |-> cash]]]
    /\ Reads

PayNumber(p) ==
    /\ At(p, "paying")
    /\ req' = [req EXCEPT ![p].pc = "receiving",
                          ![p].number = NextNumber(payments, req[p].pay.year)]
    /\ Reads

PayEntryNumber(p) ==
    /\ At(p, "receiving")
    /\ req' = [req EXCEPT ![p].pc = "settling",
                          ![p].entryNumber = NextNumber(journal, req[p].pay.year)]
    /\ Reads

\* DR bank / CR A/R.
PaymentLines(cash, amount) ==
    <<Debit(cash, amount), Credit(AccountsReceivable, amount)>>

\* Mutant: only an invoice paid in one go is put on the register.
RegisteredIfPaidAtOnce(id, row, status) ==
    IF status = "PAID" /\ row.paid = 0 /\ register[id] = None
    THEN [register EXCEPT ![id] = row.total]
    ELSE register

\* createFromInvoiceTx: one reporting row, for the total the payment read.
Registered(id, row, status) ==
    IF status = "PAID" /\ register[id] = None
    THEN [register EXCEPT ![id] = row.total]
    ELSE register

PayCommit(p, pid, eid) ==
    LET id      == req[p].id
        amount  == req[p].pay.amount
        newPaid == req[p].row.paid + amount
        newDue  == req[p].row.total - newPaid
        status  == IF newDue <= 0 THEN "PAID" ELSE "PARTIALLY_PAID"
    IN  /\ At(p, "settling")
        /\ pid \in PaymentIds \ {pay.id : pay \in payments}
        /\ ~Taken(payments, req[p].number)
        /\ payments' = payments \cup {[id |-> pid, number |-> req[p].number,
                                       invoice |-> id, amount |-> amount]}
        /\ invoice' = [invoice EXCEPT ![id].paid = newPaid, ![id].due = newDue,
                                      ![id].status = status]
        /\ register' = Registered(id, req[p].row, status)
        /\ Post(p, eid, PaymentRef(pid), PaymentLines(req[p].pay.cash, amount),
                journal, balance)
        /\ Done(p)
        /\ UNCHANGED today

----------------------------------------------------------------------------

Abort(p) == ~At(p, "idle") /\ Done(p) /\ Reads

NewYear ==
    /\ today + 1 \in Years
    /\ today' = today + 1
    /\ UNCHANGED <<invoice, payments, register, journal, balance, used, req>>

Step(p) ==
    \/ \E dto \in CreateDtos, y \in Years : CreateNumber(p, dto, y)
    \/ \E id \in InvoiceIds : CreateCommit(p, id)
    \/ \E id \in InvoiceIds : FinalizeRead(p, id)
    \/ FinalizeNumber(p)
    \/ \E eid \in EntryIds : FinalizeCommit(p, eid)
    \/ \E id \in InvoiceIds, dto \in UpdateDtos : UpdateRead(p, id, dto)
    \/ UpdateFind(p)
    \/ UpdateNumber(p)
    \/ UpdateDraftCommit(p)
    \/ \E eid \in EntryIds : UpdatePostedCommit(p, eid)
    \/ \E id \in InvoiceIds, n \in PaymentAmounts, y \in Years, c \in CashAccounts :
          PayRead(p, id, n, y, c)
    \/ PayNumber(p)
    \/ PayEntryNumber(p)
    \/ \E pid \in PaymentIds, eid \in EntryIds : PayCommit(p, pid, eid)
    \/ Abort(p)

\* The invoices two requests are working on now.
Overlapping ==
    {id \in InvoiceIds : \E p, q \in Procs :
        p # q /\ ~At(p, "idle") /\ ~At(q, "idle") /\ req[p].id = id /\ req[q].id = id}

Next ==
    /\ NewYear \/ \E p \in Procs : Step(p)
    /\ contended' = contended \cup Overlapping'

Spec == Init /\ [][Next]_vars

----------------------------------------------------------------------------
(* Properties that hold however requests interleave *)

\* Reversals and postings never leave a stored balance that differs from what
\* the live entries add up to.
BalancesMirrorJournal ==
    \A a \in Accounts : balance[a] = EntriesDelta(journal, a)

\* Every payment a customer made is in the ledger once, for its amount, as cash
\* in and receivable down, and no payment entry stands without its payment.
PaymentsPosted ==
    /\ \A pay \in payments : \E e \in journal :
          /\ EntriesOf(journal, PaymentRef(pay.id)) = {e}
          /\ LinesDelta(e.lines, AccountsReceivable) = -pay.amount
          /\ \E c \in CashAccounts : LinesDelta(e.lines, c) = pay.amount
    /\ \A e \in journal : e.ref[1] = "PAYMENT" => \E pay \in payments : pay.id = e.ref[2]

\* An invoice that shows as PAID has its row on the income register, although
\* the row is written only by the payment that saw the balance reach zero.
PaidIsOnRegister ==
    \A id \in InvoiceIds : Exists(id) /\ invoice[id].status = "PAID" => register[id] # None

----------------------------------------------------------------------------
(* Properties of an invoice whose requests do not overlap, whatever goes on *)
(* with the other invoices, which share its journal and its number series    *)

PaymentsOf(id) == {pay \in payments : pay.invoice = id}
Received(id)   == SumFunction([pay \in PaymentsOf(id) |-> pay.amount])

\* Invoices whose requests were always served one after the other.
Serial == {id \in InvoiceIds \ contended : Exists(id)}

\* A draft has no ledger entry; any other invoice has exactly one, and it
\* carries the amounts the invoice shows now, edits included.
LedgerMatchesInvoice ==
    \A id \in Serial :
        IF invoice[id].status = "DRAFT"
        THEN EntriesOf(journal, InvoiceRef(id)) = {}
        ELSE \E e \in journal : /\ EntriesOf(journal, InvoiceRef(id)) = {e}
                                /\ e.lines = InvoiceLines(invoice[id])

\* The stored paid and due amounts are those of the payment rows, the status is
\* the one they imply, and the customer never paid more than the total.
BalancesMatchPayments ==
    \A id \in Serial :
        LET inv == invoice[id]
        IN  /\ inv.paid = Received(id)
            /\ inv.due = inv.total - inv.paid
            /\ inv.due >= 0
            /\ inv.paid > 0 => inv.status = IF inv.due = 0 THEN "PAID" ELSE "PARTIALLY_PAID"
            /\ inv.paid = 0 => inv.status \in {"DRAFT", "ISSUED"}

Issued == {id \in InvoiceIds : Exists(id) /\ invoice[id].status # "DRAFT"}

\* While no two requests have met on an invoice, accounts receivable in the
\* ledger is what customers still owe on the invoices that were issued.
ReceivableIsWhatIsOwed ==
    contended = {} => balance[AccountsReceivable] =
        SumFunction([id \in Issued |-> invoice[id].due])

----------------------------------------------------------------------------
(* What the service says, and overlapping requests on one invoice break *)

\* "Payment ... exceeds balance due": payments never add up to more than the total.
NeverOverpaid ==
    \A id \in InvoiceIds : Exists(id) => Received(id) <= invoice[id].total

\* "Anything past DRAFT already posted to the ledger and must be re-posted": what the
\* ledger holds for an issued invoice are the amounts it shows.
IssuedIsPosted ==
    \A id \in Issued : \A e \in EntriesOf(journal, InvoiceRef(id)) :
        e.lines = InvoiceLines(invoice[id])

============================================================================
