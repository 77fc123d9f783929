------------------------------ MODULE Expenses ------------------------------
(***************************************************************************)
(* Bills: expense/expense.service.ts with the cost lines of                *)
(* costing/costing.service.ts, composed with module Deposits.  A bill is   *)
(* created PENDING, posted to accounts payable when it is approved or at   *)
(* its first payment, and paid in parts.  A bill of a clearance job keeps  *)
(* a container deposit in step with it: after its own commit, create and   *)
(* update call DepositsService.syncForCostLine, and a request that dies in *)
(* between leaves the deposit behind.                                      *)
(*                                                                         *)
(* update, reject and deleteCostLine check the bill before, and outside,   *)
(* the write; approve and the payments check it inside their transaction,  *)
(* where a READ COMMITTED read takes no lock either.                       *)
(***************************************************************************)
EXTENDS Deposits, SequencesExt

CONSTANTS
    BillIds,            \* primary keys of expense records, never used twice
    CreateDtos,         \* bodies of POST /expenses and of a new cost line
    UpdateDtos,         \* bodies of PATCH /expenses/:id
    Batches,            \* what a payment request clears: sequences of [id, amount]
    Years,              \* the years a request may date an entry with
    BankAccounts,       \* accounts a payment may be made from (1100 by default)
    AccountsPayable,    \* the account coded 2100
    MaxPayments         \* bound on the vendor payments

\* A line of a voucher.
Item == [account : Accounts \cup {None}, amount : Int, tax : Int \cup {None},
         deposit : Int \cup {None}]

ASSUME ExpensesAssumption ==
    /\ AccountsPayable \in Accounts /\ BankAccounts \subseteq Accounts
    /\ Batches \subseteq Seq([id : BillIds, amount : Nat \ {0}]) /\ <<>> \notin Batches
    /\ IsFiniteSet(BillIds) /\ {None, Gone} \cap BillIds = {}
    /\ \A dto \in CreateDtos : dto.year \in Years /\ dto.items # None
    /\ \A dto \in CreateDtos \cup UpdateDtos :
          /\ dto.account \in Accounts \cup {None}
          /\ {dto.amount, dto.taxRate, dto.tax, dto.deposit, dto.actualCost}
                 \subseteq Int \cup {None}
          /\ dto.items # None => dto.items \in Seq(Item)
    /\ \A dto \in CreateDtos : dto.items = <<>> => dto.amount # None
    /\ \A dto \in UpdateDtos : dto.items # <<>>

\* Ids are unique across tables, so a history of rows can hold both.
ASSUME IdsAssumption == DepositIds \cap BillIds = {}

VARIABLES
    bill,       \* the ExpenseRecord table, with its items
    payments,   \* the VendorPayment table
    disturbed   \* history: bills and deposits two requests worked on at once,
                \* or whose request died between two of its transactions

billVars == <<bill, payments>>
vars     == <<deposit, journal, balance, req, bill, payments, disturbed>>

----------------------------------------------------------------------------
(* Rows *)

\* a ?? b
Given(v, default) == IF v = None THEN default ELSE v

SumAmounts(items)  == SumFunction([i \in DOMAIN items |-> items[i].amount])
SumTaxes(items)    == SumFunction([i \in DOMAIN items |-> Given(items[i].tax, 0)])
SumDeposits(items) == SumFunction([i \in DOMAIN items |-> Given(items[i].deposit, 0)])

\* Cents, rounded half up.
Percent(amount, rate) == (amount * rate + 50) \div 100

Live(id)  == bill[id] \notin {None, Gone}
BillRows  == {bill[id] : id \in {i \in BillIds : Live(i)}}
Posted2Ap(row) == row.status = "POSTED"

\* Mutant: the refundable deposit is counted as a cost.
ActualCostWithDeposit(amount, tax, dep) == amount + tax

ActualCost(amount, tax, dep) == amount + tax - dep

\* A voucher's amount, tax and deposit are those of its items; a bill without
\* items carries its own.  The body may state the actual cost; stated is history,
\* that the last body did.
CreatedRow(dto, number) ==
    LET itemised == dto.items # <<>>
        amount  == IF itemised THEN SumAmounts(dto.items) ELSE dto.amount
        tax     == IF itemised THEN SumTaxes(dto.items)
                   ELSE IF dto.tax # None THEN dto.tax
                   ELSE IF dto.taxRate # None THEN Percent(amount, dto.taxRate) ELSE 0
        dep     == IF itemised THEN SumDeposits(dto.items) ELSE Given(dto.deposit, 0)
    IN  [number |-> number, year |-> dto.year, job |-> dto.job, account |-> dto.account,
         amount |-> amount, taxRate |-> dto.taxRate, tax |-> tax, deposit |-> dep,
         actual |-> Given(dto.actualCost, ActualCost(amount, tax, dep)),
         stated |-> dto.actualCost # None, items |-> dto.items,
         status |-> "PENDING", approval |-> "PENDING"]

\* Amounts come from the patch over the row that was read; the other columns
\* are written over the row as it is.  Items are replaced only when given.
Updated(row, read, dto) ==
    LET itemised == dto.items # None
        amount  == IF itemised THEN SumAmounts(dto.items) ELSE Given(dto.amount, read.amount)
        taxRate == Given(dto.taxRate, read.taxRate)
        tax     == IF itemised THEN SumTaxes(dto.items)
                   ELSE IF dto.tax # None THEN dto.tax
                   ELSE IF taxRate # None THEN Percent(amount, taxRate) ELSE read.tax
        dep     == IF itemised THEN SumDeposits(dto.items) ELSE Given(dto.deposit, read.deposit)
    IN  [row EXCEPT !.year = Given(dto.year, @), !.job = Given(dto.job, @),
                    !.account = Given(dto.account, @), !.taxRate = Given(dto.taxRate, @),
                    !.amount = amount, !.tax = tax, !.deposit = dep,
                    !.actual = Given(dto.actualCost, ActualCost(amount, tax, dep)),
                    !.stated = dto.actualCost # None, !.items = Given(dto.items, @),
                    !.status = "PENDING", !.approval = "PENDING"]

BillRow ==
    LET dtos == CreateDtos \cup UpdateDtos
    IN  [number : [year : Years, seq : Nat], year : {dto.year : dto \in dtos},
         job : {dto.job : dto \in dtos}, account : {dto.account : dto \in dtos},
         amount : Int, taxRate : {dto.taxRate : dto \in dtos}, tax : Int, deposit : Int,
         actual : Int, stated : BOOLEAN, items : {dto.items : dto \in dtos} \ {None},
         status : {"PENDING", "POSTED"}, approval : {"PENDING", "APPROVED", "REJECTED"}]

\* A row is not the absence of one.
ASSUME RowsAssumption == None \notin BillRow /\ Gone \notin BillRow

----------------------------------------------------------------------------
(* postExpenseToAp *)

\* DR the items grouped by account, or the bill's own account; CR A/P.
LinesFor(items, account, amount) ==
    LET accounts == {Given(items[i].account, account) : i \in DOMAIN items}
        Share(a) == SumFunction([i \in DOMAIN items |->
                                    IF Given(items[i].account, account) = a THEN items[i].amount ELSE 0])
    IN  (IF items = <<>> THEN <<Debit(account, amount)>>
         ELSE SetToSeq({Debit(a, Share(a)) : a \in accounts}))
          \o <<Credit(AccountsPayable, amount)>>

ApLines(row) == LinesFor(row.items, row.account, row.amount)

\* "Each expense line needs an expense account".
HasAccounts(row) ==
    IF row.items = <<>> THEN row.account # None
    ELSE \A i \in DOMAIN row.items : Given(row.items[i].account, row.account) # None

Postable(row) == HasAccounts(row) /\ Balanced(ApLines(row))

BillRef(id)      == <<"EXPENSE", id>>
PaymentRef(number) == <<"PAYMENT", number>>
PaymentLines(bank, amount) == <<Debit(AccountsPayable, amount), Credit(bank, amount)>>

Approved(row) == [row EXCEPT !.status = "POSTED", !.approval = "APPROVED"]

Init ==
    /\ deposit  = [d \in DepositIds |-> None]
    /\ journal  = {}
    /\ balance  = [a \in Accounts |-> 0]
    /\ req      = [p \in Procs |-> Idle]
    /\ bill     = [id \in BillIds |-> None]
    /\ payments = {}
    /\ disturbed = {}

Reads == UNCHANGED <<deposit, journal, balance, bill, payments>>

\* A transaction that has posted a bill holds the lock of its row.
PostedByUs(p, id) ==
    \E e \in req[p].own.entries : e.ref = BillRef(id)
Unlocked(p, id)   == \A q \in Procs \ {p} : ~PostedByUs(q, id)

----------------------------------------------------------------------------
(* create, update, reject, deleteCostLine *)

\* The tail of create and update: what the deposit is to be brought in line with.
ThenSync(p, id, row) ==
    req' = [req EXCEPT ![p] =
        IF row.job = None THEN Idle
        ELSE [Idle EXCEPT !.pc = "syncing", !.id = id,
                          !.cost = [source |-> id, job |-> row.job, year |-> row.year,
                                    amount |-> row.deposit]]]

BillNumber(p, dto) ==
    /\ At(p, "idle")
    /\ req' = [req EXCEPT ![p] = [Idle EXCEPT !.pc = "billing", !.dto = dto,
                                              !.number = NextNumber(BillRows, dto.year)]]
    /\ Reads

BillCommit(p, id) ==
    LET row == CreatedRow(req[p].dto, req[p].number)
    IN  /\ At(p, "billing")
        /\ bill[id] = None
        /\ ~Taken(BillRows, req[p].number)
        /\ bill' = [bill EXCEPT ![id] = row]
        /\ ThenSync(p, id, row)
        /\ UNCHANGED <<deposit, journal, balance, payments>>

\* Mutant: a posted bill may be edited, rejected and deleted.
EditableAlways(row) == TRUE

\* What update, reject and deleteCostLine check.
Editable(row) == ~Posted2Ap(row)

\* Read and check; dto says which of the three handlers goes on.
EditRead(p, id, pc, dto) ==
    /\ At(p, "idle")
    /\ Live(id)
    /\ Editable(bill[id])
    /\ req' = [req EXCEPT ![p] = [Idle EXCEPT !.pc = pc, !.id = id, !.row = bill[id],
                                              !.dto = dto]]
    /\ Reads

UpdateCommit(p) ==
    LET id  == req[p].id
        row == Updated(bill[id], req[p].row, req[p].dto)
    IN  /\ At(p, "updating")
        /\ Live(id) /\ Unlocked(p, id)
        /\ bill' = [bill EXCEPT ![id] = row]
        /\ ThenSync(p, id, row)
        /\ UNCHANGED <<deposit, journal, balance, payments>>

RejectCommit(p) ==
    LET id == req[p].id
    IN  /\ At(p, "rejecting")
        /\ Live(id) /\ Unlocked(p, id)
        /\ bill' = [bill EXCEPT ![id].status = "PENDING", ![id].approval = "REJECTED"]
        /\ Done(p)
        /\ UNCHANGED <<deposit, journal, balance, payments>>

\* Payments and entries of the bill survive it, their link set to null.
DeleteCommit(p) ==
    /\ At(p, "deleting")
    /\ Live(req[p].id) /\ Unlocked(p, req[p].id)
    /\ bill' = [bill EXCEPT ![req[p].id] = Gone]
    /\ Done(p)
    /\ UNCHANGED <<deposit, journal, balance, payments>>

----------------------------------------------------------------------------
(* approve *)

ApproveRead(p, id) ==
    /\ At(p, "idle")
    /\ Live(id)
    /\ bill[id].approval # "APPROVED"
    /\ Postable(bill[id])
    /\ req' = [req EXCEPT ![p] = [Idle EXCEPT !.pc = "approving", !.id = id,
                                              !.row = bill[id]]]
    /\ Reads

ApproveNumber(p, year) ==
    /\ At(p, "approving")
    /\ req' = [req EXCEPT ![p].pc = "posting", ![p].entryNumber = NextNumber(journal, year)]
    /\ Reads

ApproveCommit(p) ==
    LET id == req[p].id
    IN  /\ At(p, "posting")
        /\ Live(id) /\ Unlocked(p, id)
        /\ bill' = [bill EXCEPT ![id] = Approved(@)]
        /\ Post(req[p].entryNumber, BillRef(id), ApLines(req[p].row))
        /\ Done(p)
        /\ UNCHANGED <<deposit, payments>>

----------------------------------------------------------------------------
(* payBill and payBills: one transaction over a batch of bills.  Its own   *)
(* writes are in own until it commits: they are seen by its later reads,   *)
(* and by nobody else.                                                     *)

Entries(p)  == journal \cup req[p].own.entries
Payments(p) == payments \cup req[p].own.payments
PaymentsOf(pays, id) == {pay \in pays : pay.bill = id}
Paid(pays, id) == SumFunction([pay \in PaymentsOf(pays, id) |-> pay.amount])

PayBegin(p, batch) ==
    /\ At(p, "idle")
    /\ req' = [req EXCEPT ![p] = [Idle EXCEPT !.pc = "paying", !.batch = batch]]
    /\ Reads

\* Read the next bill; an unposted one is posted first.
PayRead(p) ==
    LET id == Head(req[p].batch).id
    IN  /\ At(p, "paying")
        /\ Live(id)
        /\ req' = [req EXCEPT ![p].id = id, ![p].row = bill[id],
                ![p].pc = IF Posted2Ap(bill[id]) \/ PostedByUs(p, id) THEN "summing"
                          ELSE "posting first"]
        /\ Reads

PayPostFirst(p, year) ==
    LET number == NextNumber(Entries(p), year)
        id     == req[p].id
    IN  /\ At(p, "posting first")
        /\ Unlocked(p, id)
        /\ Postable(req[p].row)
        /\ ~Taken(Entries(p), number)
        /\ req' = [req EXCEPT ![p].pc = "summing",
                ![p].own.entries = @ \cup
                    {NewEntry(number, number, BillRef(id), ApLines(req[p].row))}]
        /\ Reads

\* Mutant: the bill's earlier payments do not count.
OutstandingIgnoresPaid(p) == req[p].row.amount

\* The amount that was read less the payments there are.
Outstanding(p) == req[p].row.amount - Paid(Payments(p), req[p].id)

PaySum(p) ==
    /\ At(p, "summing")
    /\ Head(req[p].batch).amount <= Outstanding(p)
    /\ req' = [req EXCEPT ![p].pc = "numbering"]
    /\ Reads

PayNumber(p, year) ==
    LET number == NextNumber(Payments(p), year)
    IN  /\ At(p, "numbering")
        /\ Cardinality(Payments(p)) < MaxPayments
        /\ ~Taken(Payments(p), number)
        /\ req' = [req EXCEPT ![p].pc = "settling", ![p].number = number,
                ![p].own.payments = @ \cup {[number |-> number, bill |-> req[p].id,
                                             amount |-> Head(req[p].batch).amount]}]
        /\ Reads

\* The payment's own entry; then the next bill of the batch, or the end.
PaySettle(p, year, bank) ==
    LET number == NextNumber(Entries(p), year)
        rest   == Tail(req[p].batch)
    IN  /\ At(p, "settling")
        /\ ~Taken(Entries(p), number)
        /\ req' = [req EXCEPT ![p].pc = IF rest = <<>> THEN "clearing" ELSE "paying",
                ![p].batch = rest,
                ![p].own.entries = @ \cup
                    {NewEntry(number, number, PaymentRef(req[p].number),
                              PaymentLines(bank, Head(req[p].batch).amount))}]
        /\ Reads

PostedBills(p) == {id \in BillIds : PostedByUs(p, id)}

PayCommit(p) ==
    LET own == req[p].own
    IN  /\ At(p, "clearing")
        /\ \A id \in PostedBills(p) : Live(id)
        /\ \A pay \in own.payments : Live(pay.bill) /\ ~Taken(payments, pay.number)
        /\ \A e \in own.entries : ~Taken(journal, e.number)
        /\ Cardinality(Entries(p)) <= MaxEntries
        /\ bill' = [id \in BillIds |-> IF id \in PostedBills(p) THEN Approved(bill[id]) ELSE bill[id]]
        /\ payments' = payments \cup own.payments
        /\ journal' = journal \cup own.entries
        /\ balance' = [a \in Accounts |-> balance[a] + EntriesDelta(own.entries, a)]
        /\ Done(p)
        /\ UNCHANGED deposit

----------------------------------------------------------------------------

\* A check fails, a unique number is taken, the process dies.
Abort(p) == ~At(p, "idle") /\ Done(p) /\ Reads

BillStep(p, year) ==
    \/ \E dto \in CreateDtos : BillNumber(p, dto)
    \/ \E id \in BillIds : BillCommit(p, id)
    \/ \E id \in BillIds, dto \in UpdateDtos : EditRead(p, id, "updating", dto)
    \/ UpdateCommit(p)
    \/ \E id \in BillIds : EditRead(p, id, "rejecting", None)
    \/ RejectCommit(p)
    \/ \E id \in BillIds : EditRead(p, id, "deleting", None)
    \/ DeleteCommit(p)
    \/ \E id \in BillIds : ApproveRead(p, id)
    \/ ApproveNumber(p, year)
    \/ ApproveCommit(p)
    \/ \E batch \in Batches : PayBegin(p, batch)
    \/ PayRead(p)
    \/ PayPostFirst(p, year)
    \/ PaySum(p)
    \/ PayNumber(p, year)
    \/ \E bank \in BankAccounts : PaySettle(p, year, bank)
    \/ PayCommit(p)

\* What a request is working on: its bill and the bills its batch has dealt with,
\* its deposit, and the bill and deposits tied to those.
Touched(p) ==
    LET r    == req[p]
        own  == {pay.bill : pay \in r.own.payments} \cup PostedBills(p)
        tied == IF r.dep \in DepositIds /\ Deposited(r.dep) THEN {deposit[r.dep].source} ELSE {}
    IN  ({r.id, r.dep} \cup own \cup tied \cup (IF r.id = None THEN {} ELSE TrackersOf(r.id)))
          \cap (BillIds \cup DepositIds)

Overlapping ==
    {x \in BillIds \cup DepositIds : \E p, q \in Procs :
        p # q /\ x \in Touched(p) /\ x \in Touched(q)}

CutOff(p) == IF req[p].pc \in SyncPcs THEN Touched(p) ELSE {}

Next ==
    \/ /\ \E p \in Procs, year \in Years :
             BillStep(p, year) \/ (DepositStep(p, year) /\ UNCHANGED billVars)
       /\ disturbed' = disturbed \cup Overlapping'
    \/ \E p \in Procs : Abort(p) /\ disturbed' = disturbed \cup CutOff(p)

Spec == Init /\ [][Next]_vars

TypeOK ==
    /\ \A id \in BillIds : Live(id) =>
          /\ bill[id].status \in {"PENDING", "POSTED"}
          /\ bill[id].approval \in {"PENDING", "APPROVED", "REJECTED"}
          /\ bill[id].amount \in Int /\ bill[id].tax \in Int /\ bill[id].deposit \in Int
    /\ \A d \in DepositIds : Deposited(d) =>
          /\ deposit[d].amount \in Nat \ {0}
          /\ deposit[d].source \in BillIds \cup {None}
          /\ deposit[d].account \in Accounts \cup {None}
    /\ \A pay \in payments : pay.bill \in BillIds /\ pay.amount \in Nat \ {0}
    /\ DOMAIN balance = Accounts
    /\ \A p \in Procs : req[p].pc \in DepositPcs \cup {"billing", "updating", "rejecting",
          "deleting", "approving", "posting", "paying", "posting first", "summing",
          "numbering", "settling", "clearing"}

----------------------------------------------------------------------------
(* Properties *)

\* Bills and deposits whose requests were served one after the other, and
\* completed.
Calm == (BillIds \cup DepositIds) \ disturbed

\* A bill is in the ledger once if it is posted, with its items' debits and its
\* amount, and not at all before, however approval and payments share the work.
BillMatchesLedger ==
    \A id \in Calm \cap BillIds :
        IF Live(id) /\ Posted2Ap(bill[id])
        THEN \E e \in journal : /\ EntriesOf(journal, BillRef(id)) = {e}
                                /\ e.lines = ApLines(bill[id])
        ELSE EntriesOf(journal, BillRef(id)) = {}

\* Payments, in one batch or several, never exceed the bill, and stand only on
\* a posted one.
PaidWithinAmount ==
    \A id \in Calm \cap BillIds :
        LET paid == Paid(payments, id)
        IN  paid > 0 => Live(id) /\ Posted2Ap(bill[id]) /\ paid <= bill[id].amount

OnAccount == {id \in BillIds : Live(id) /\ Posted2Ap(bill[id])}

\* Accounts payable in the ledger is what is still owed on posted bills.
PayableIsWhatIsOwed ==
    disturbed = {} => balance[AccountsPayable] =
        SumFunction([id \in OnAccount |-> bill[id].amount - Paid(payments, id)])

\* What a deposit's entries did to the bank account.
BankEffect(d) == EntriesDelta(EntriesOf(journal, DepositRef(d)), Bank)

\* A deposit that was entered by hand is out of the bank until it is refunded,
\* and then back in full; a tracking deposit never moves money.
DepositOnTheBooks ==
    \A d \in Calm \cap DepositIds :
        IF Deposited(d) /\ OnTheBooks(deposit[d])
        THEN /\ BankEffect(d) = deposit[d].refunded - deposit[d].amount
             /\ deposit[d].refunded = IF deposit[d].status = Refunded THEN deposit[d].amount ELSE 0
        ELSE EntriesOf(journal, DepositRef(d)) = {}

\* "Refunded deposits are locked": neither a status move nor the cost line
\* behind it changes one.
RefundedIsLocked ==
    [][\A d \in DepositIds :
          Deposited(d) /\ deposit[d].status = Refunded /\ deposit'[d] # deposit[d]
             => d \in disturbed]_vars

AtRest(id) == \A p \in Procs : req[p].id # id

\* Once the requests on a job's bill are through, its tracking deposit is there
\* exactly when the bill has one, once, and for the same amount unless it was
\* refunded before.
TrackerMirrorsBill ==
    \A id \in Calm \cap BillIds :
        Live(id) /\ bill[id].job # None /\ AtRest(id) =>
            IF bill[id].deposit > 0
            THEN \E d \in DepositIds :
                    /\ TrackersOf(id) = {d}
                    /\ deposit[d].status = Refunded \/ deposit[d].amount = bill[id].deposit
            ELSE \A d \in TrackersOf(id) : deposit[d].status = Refunded

\* The money a tracking deposit holds for a bill.
Held(id) == SumFunction([d \in TrackersOf(id) |-> deposit[d].amount])

\* "Actual cost mirrors the client's B/L costing formula: Amount + Tax - Deposit"
\* (expense.service.ts:65): what a job's bill charges is counted once, as the cost
\* the costing statement adds up or as money the deposits page holds, although the
\* two are written in different transactions.  A body may state the actual cost
\* instead, and a refunded deposit is no longer brought in line.
ChargedOnce ==
    \A id \in Calm \cap BillIds :
        /\ Live(id) /\ bill[id].job # None /\ AtRest(id)
        /\ ~bill[id].stated /\ bill[id].deposit >= 0
        /\ \A d \in TrackersOf(id) : deposit[d].status # Refunded
        => bill[id].actual + Held(id) = bill[id].amount + bill[id].tax

----------------------------------------------------------------------------
(* What the code says of itself, and does not keep *)

\* "The parent ExpenseRecord.amount = sum of item amounts", which postExpenseToAp
\* relies on: "Total debits = amount, so the entry stays balanced".
VoucherAddsUp ==
    \A id \in BillIds : Live(id) /\ bill[id].items # <<>> =>
        SumAmounts(bill[id].items) = bill[id].amount

\* "the deposit tracker always mirrors the cost line": an open tracking deposit
\* is filed under the job of the bill it came from.
TrackerFollowsJob ==
    \A d \in Calm \cap DepositIds :
        Deposited(d) /\ deposit[d].source # None /\ deposit[d].status # Refunded =>
            LET id == deposit[d].source
            IN  id \in Calm /\ Live(id) /\ AtRest(id) => deposit[d].job = bill[id].job

\* "Payment exceeds outstanding balance": payments of a bill, also overlapping
\* ones, never come to more than the bill.
BillNeverOverpaid ==
    \A id \in BillIds : Live(id) => Paid(payments, id) <= bill[id].amount

\* "Posted expense records cannot be edited": the amount of a bill in the ledger
\* stays, also under an edit that read it before it was posted.
PostedAmountStays ==
    [][\A id \in BillIds :
          Live(id) /\ Posted2Ap(bill[id]) /\ bill'[id] # Gone
             => bill'[id].amount = bill[id].amount]_vars

\* "Refunded is terminal - fully locked once reached": also for a status move
\* that read the deposit before it was refunded.
RefundedIsTerminal ==
    [][\A d \in DepositIds :
          Deposited(d) /\ deposit[d].status = Refunded => deposit'[d] = deposit[d]]_vars

============================================================================
