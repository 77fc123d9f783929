--------------------------- MODULE InvoicesProofs ---------------------------
(***************************************************************************)
(* Proofs about Invoices for every number of concurrent requests,          *)
(* invoices, payments, entries, years, bodies and amounts: first what the  *)
(* rows, the entries and the requests know of each other, then what the    *)
(* payments and the receivables add up to.                                 *)
(***************************************************************************)
EXTENDS Invoices, LedgerLemmas, SequenceTheorems

\* A rate of an amount, rounded half up.
LEMMA PercentType ==
    ASSUME NEW n \in Nat, NEW rate \in 0..100 PROVE (n * rate + 50) \div 100 \in Nat
<1>1. rate \in Nat
      OBVIOUS
<1>2. n * rate \in Nat
      BY <1>1
<1> QED BY <1>2

USE InvoicesAssumption, NoneAssumption

----------------------------------------------------------------------------
(* The inductive invariant *)

Refs  == {"INVOICE", "PAYMENT"} \X (InvoiceIds \cup PaymentIds)
Line  == [account : Accounts, side : {"DEBIT", "CREDIT"}, amount : Nat]
Lines == Seq(Line)
Entry == [id : EntryIds, number : Numbers,
          ref : Refs, lines : Lines]
Pay   == [amount : PaymentAmounts, year : Years, cash : CashAccounts]

Request == [pc : {"idle", "creating", "finalizing", "issuing", "editing", "reversing",
                  "reposting", "paying", "receiving", "settling"},
            id : InvoiceIds \cup {None}, row : InvoiceRow \cup {None},
            dto : CreateDtos \cup UpdateDtos \cup {None}, pay : Pay \cup {None},
            found : SUBSET Entry,
            number : Numbers \cup {None}, entryNumber : Numbers \cup {None}]

\* The tables a commit writes besides the invoice's.
TablesOK ==
    /\ register \in [InvoiceIds -> Nat \cup {None}]
    /\ IsFiniteSet(payments)
    /\ \A pay \in payments : pay.invoice \in InvoiceIds /\ pay.number \in Numbers
    /\ journal \subseteq Entry /\ IsFiniteSet(journal)
    /\ \A e \in journal : e.id \in used
    /\ DOMAIN balance = Accounts
    /\ today \in Years

TypeInv ==
    /\ invoice \in [InvoiceIds -> InvoiceRow \cup {None}]
    /\ TablesOK
    /\ req \in [Procs -> Request]

\* What request r knows at each of its steps.  While no other request has met it
\* on its invoice, the row it read is the row there is, and the entries it found
\* are the entries there are.
CreateKnows(r) ==
    r.pc = "creating" => r.id = None /\ r.dto \in CreateDtos /\ r.number \in Numbers

RowKnows(r) ==
    r.pc \notin {"idle", "creating"} =>
        /\ r.id \in InvoiceIds /\ Exists(r.id)
        /\ r.row \in InvoiceRow
        /\ r.id \notin contended => r.row = invoice[r.id]

FinalizeKnows(r) ==
    /\ r.pc \in {"finalizing", "issuing"} => r.row.status = "DRAFT"
    /\ r.pc = "issuing" => r.entryNumber \in Numbers

UpdateKnows(r) ==
    /\ r.pc \in {"editing", "reversing", "reposting"} =>
          r.dto \in UpdateDtos /\ r.row.status \in {"DRAFT", "ISSUED"}
    /\ r.pc \in {"reversing", "reposting"} =>
          /\ r.row.status = "ISSUED"
          /\ \A e \in r.found : e.ref = InvoiceRef(r.id)
          /\ r.id \notin contended => r.found = EntriesOf(journal, InvoiceRef(r.id))
    /\ r.pc = "reposting" => r.entryNumber \in Numbers

PayKnows(r) ==
    /\ r.pc \in {"paying", "receiving", "settling"} =>
          r.pay \in Pay /\ r.pay.amount <= r.row.due /\ r.row.status # "DRAFT"
    /\ r.pc \in {"receiving", "settling"} => r.number \in Numbers
    /\ r.pc = "settling" => r.entryNumber \in Numbers

Knows(r) == CreateKnows(r) /\ RowKnows(r) /\ FinalizeKnows(r) /\ UpdateKnows(r) /\ PayKnows(r)

\* A posted entry is that of an invoice there is.
NoStrayEntry ==
    \A id \in InvoiceIds : EntriesOf(journal, InvoiceRef(id)) # {} => Exists(id)

\* LedgerMatchesInvoice, of one invoice.
LedgerOf(id) ==
    IF invoice[id].status = "DRAFT"
    THEN EntriesOf(journal, InvoiceRef(id)) = {}
    ELSE \E e \in journal : /\ EntriesOf(journal, InvoiceRef(id)) = {e}
                            /\ e.lines = InvoiceLines(invoice[id])

\* What the stored amounts and the status of one invoice say of each other.
SettledRow(inv) ==
    /\ inv.due = inv.total - inv.paid
    /\ inv.due >= 0
    /\ inv.paid > 0 => inv.status = IF inv.due = 0 THEN "PAID" ELSE "PARTIALLY_PAID"
    /\ inv.paid = 0 => inv.status \in {"DRAFT", "ISSUED"}

\* The amounts and the status of an invoice whose requests never overlapped agree.
Settled == \A id \in Serial : SettledRow(invoice[id])

IInv ==
    /\ TypeInv
    /\ Overlapping \subseteq contended
    /\ \A p \in Procs : Knows(req[p])
    /\ NoStrayEntry
    /\ LedgerMatchesInvoice
    /\ Settled
    /\ PaidIsOnRegister

----------------------------------------------------------------------------
(* Lemmas about rows, numbers, lines and single requests *)

LEMMA RowsFinite == TypeInv => IsFiniteSet(Rows)
<1> SUFFICES ASSUME TypeInv PROVE IsFiniteSet(Rows)
    OBVIOUS
<1> DEFINE S == {i \in InvoiceIds : Exists(i)}
           f == [i \in S |-> invoice[i]]
<1>1. IsFiniteSet(S)
      BY FS_Subset
<1>2. f \in Surjection(S, Rows)
      BY DEF Surjection, Rows
<1> QED BY <1>1, <1>2, FS_Surjection

\* Counting a year's rows gives a number.
LEMMA NextNumberType ==
    ASSUME NEW rows, IsFiniteSet(rows), NEW y \in Years
    PROVE  NextNumber(rows, y) \in Numbers
<1> DEFINE S == {r \in rows : r.number.year = y}
<1>1. Cardinality(S) \in Nat
      BY FS_Subset, FS_CardinalityType
<1> QED BY <1>1 DEF NextNumber, Numbers

LEMMA LinesType ==
    ASSUME NEW inv \in InvoiceRow PROVE InvoiceLines(inv) \in Lines
<1>1. /\ Debit(AccountsReceivable, inv.total) \in Line
      /\ Credit(OperationRevenue, inv.subtotal) \in Line
      /\ Credit(VatPayable, inv.tax) \in Line
      BY DEF Debit, Credit, Line, InvoiceRow
<1> DEFINE a == <<Debit(AccountsReceivable, inv.total), Credit(OperationRevenue, inv.subtotal)>>
           b == IF inv.tax > 0 THEN <<Credit(VatPayable, inv.tax)>> ELSE <<>>
<1>2. a \in Seq(Line) /\ b \in Seq(Line)
      BY <1>1
<1>3. InvoiceLines(inv) = a \o b
      BY DEF InvoiceLines
<1> HIDE DEF a, b
<1> QED BY <1>2, <1>3, ConcatProperties DEF Lines

LEMMA PaymentLinesType ==
    ASSUME NEW c \in CashAccounts, NEW n \in PaymentAmounts
    PROVE  PaymentLines(c, n) \in Lines
<1>1. Debit(c, n) \in Line /\ Credit(AccountsReceivable, n) \in Line
      BY DEF Debit, Credit, Line
<1> QED BY <1>1 DEF PaymentLines, Lines

\* The status and the payments of an invoice are not in its entry.
LEMMA LinesOfAmounts ==
    ASSUME NEW a \in InvoiceRow, NEW b \in InvoiceRow,
           a.subtotal = b.subtotal, a.tax = b.tax, a.total = b.total
    PROVE  InvoiceLines(a) = InvoiceLines(b)
BY DEF InvoiceLines

\* Sums of amounts are amounts.
LEMMA TotalsType ==
    ASSUME NEW dto \in CreateDtos \cup UpdateDtos
    PROVE  computeTotals(dto) \in [subtotal : Nat, tax : Nat, total : Nat]
<1>1. dto.lines \in Seq(LineItem) /\ dto.taxRate \in 0..100
  <2>1. dto \in Dto
        OBVIOUS
  <2> QED BY <2>1 DEF Dto
<1>2. PICK lines : lines = dto.lines
      OBVIOUS
<1>3. DOMAIN lines = 1..Len(lines) /\ Len(lines) \in Nat /\ \A i \in DOMAIN lines : lines[i] \in LineItem
      BY <1>1, <1>2
<1>4. IsFiniteSet(DOMAIN lines) /\ \A i \in DOMAIN lines : lines[i].amount \in Nat
      BY <1>3, FS_Interval DEF LineItem
<1>5. PICK f, g : /\ f = [i \in DOMAIN lines |-> lines[i].amount]
                  /\ g = [i \in DOMAIN lines |-> IF lines[i].taxable THEN lines[i].amount ELSE 0]
      OBVIOUS
<1>6. /\ IsFiniteSet(DOMAIN f) /\ \A x \in DOMAIN f : f[x] \in Nat
      /\ IsFiniteSet(DOMAIN g) /\ \A x \in DOMAIN g : g[x] \in Nat
      BY <1>4, <1>5
<1>7. SumFunction(f) \in Nat /\ SumFunction(g) \in Nat
      BY <1>6, SumFunctionNat
<1>8. PICK tax : tax = IF dto.debitNote THEN 0 ELSE (SumFunction(g) * dto.taxRate + 50) \div 100
      OBVIOUS
<1>9. tax \in Nat
  <2>1. PICK n, rate : n = SumFunction(g) /\ rate = dto.taxRate
        OBVIOUS
  <2>2. n \in Nat /\ rate \in 0..100
        BY <1>1, <1>7, <2>1
  <2>3. (n * rate + 50) \div 100 \in Nat
        BY <2>2, PercentType
  <2> QED BY <1>8, <2>1, <2>3
<1>10. computeTotals(dto) = [subtotal |-> SumFunction(f), tax |-> tax, total |-> SumFunction(f) + tax]
      BY <1>2, <1>5, <1>8 DEF computeTotals
<1> QED BY <1>7, <1>9, <1>10

LEMMA AmendedType ==
    ASSUME NEW inv \in InvoiceRow, NEW dto \in UpdateDtos
    PROVE  /\ Amended(inv, dto) \in InvoiceRow
           /\ Amended(inv, dto).status = inv.status
           /\ Amended(inv, dto).paid = inv.paid
           /\ Amended(inv, dto).due = Amended(inv, dto).total
<1>1. PICK t : t = computeTotals(dto)
      OBVIOUS
<1>2. t \in [subtotal : Nat, tax : Nat, total : Nat]
      BY <1>1, TotalsType
<1>3. Amended(inv, dto) = [inv EXCEPT !.subtotal = t.subtotal, !.tax = t.tax,
                                      !.total = t.total, !.due = t.total]
      BY <1>1 DEF Amended
<1>4. t.subtotal \in Nat /\ t.tax \in Nat /\ t.total \in Nat /\ t.total \in Int
      BY <1>2
<1> QED BY <1>3, <1>4 DEF InvoiceRow

\* An edit before any payment leaves the whole total due.
LEMMA AmendedSettled ==
    ASSUME NEW inv \in InvoiceRow, NEW dto \in UpdateDtos,
           SettledRow(inv), inv.status \in {"DRAFT", "ISSUED"}
    PROVE  SettledRow(Amended(inv, dto))
<1>1. PICK new : new = Amended(inv, dto)
      OBVIOUS
<1>2. /\ new \in InvoiceRow /\ new.status = inv.status /\ new.paid = inv.paid
      /\ new.due = new.total
      BY <1>1, AmendedType
<1>3. inv.paid = 0
      BY DEF SettledRow, InvoiceRow
<1> QED BY <1>1, <1>2, <1>3 DEF SettledRow, InvoiceRow

LEMMA IdleKnows == Idle \in Request /\ Knows(Idle) /\ Knows(Idle)'
BY DEF Idle, Request, Knows, CreateKnows, RowKnows, FinalizeKnows, UpdateKnows, PayKnows

----------------------------------------------------------------------------
(* Steps that only read, or that end a request *)

\* What a request knows stays so while the tables do: contended only grows.
LEMMA KnowsKept ==
    ASSUME NEW r, Knows(r), contended \subseteq contended', UNCHANGED <<invoice, journal>>
    PROVE  Knows(r)'
<1>1. /\ CreateKnows(r)' /\ FinalizeKnows(r)' /\ PayKnows(r)'
      BY DEF Knows, CreateKnows, FinalizeKnows, PayKnows
<1>2. RowKnows(r)'
      BY DEF Knows, RowKnows, Exists
<1>3. UpdateKnows(r)'
      BY DEF Knows, UpdateKnows, EntriesOf
<1> QED BY <1>1, <1>2, <1>3 DEF Knows

\* A step that changes no table keeps what is said of the tables.
LEMMA TablesKept ==
    ASSUME IInv, UNCHANGED <<invoice, payments, register, journal, balance, used>>,
           today' \in Years, contended \subseteq contended'
    PROVE  TablesOK' /\ NoStrayEntry' /\ LedgerMatchesInvoice' /\ Settled' /\ PaidIsOnRegister'
<1>1. TablesOK'
      BY DEF IInv, TypeInv, TablesOK
<1>2. NoStrayEntry'
      BY DEF IInv, NoStrayEntry, EntriesOf, Exists
<1>3. Serial' \subseteq Serial
      BY DEF Serial, Exists
<1>4. LedgerMatchesInvoice'
      BY <1>3 DEF IInv, LedgerMatchesInvoice, EntriesOf
<1>5. Settled'
      BY <1>3 DEF IInv, Settled, SettledRow
<1>6. PaidIsOnRegister'
      BY DEF IInv, PaidIsOnRegister, Exists
<1> QED BY <1>1, <1>2, <1>4, <1>5, <1>6

LEMMA RequestStep ==
    ASSUME IInv, NEW p \in Procs, NEW r,
           req' = [req EXCEPT ![p] = r], r \in Request, Knows(r),
           Reads, contended' = contended \cup Overlapping'
    PROVE  IInv'
<1>1. /\ UNCHANGED <<invoice, payments, register, journal, balance, used, today>>
      /\ contended \subseteq contended' /\ Overlapping' \subseteq contended'
      BY DEF Reads
<1>2. today' \in Years
      BY <1>1 DEF IInv, TypeInv, TablesOK
<1>3. TablesOK' /\ NoStrayEntry' /\ LedgerMatchesInvoice' /\ Settled' /\ PaidIsOnRegister'
      BY <1>1, <1>2, TablesKept
<1>4. TypeInv'
      BY <1>1, <1>3 DEF IInv, TypeInv
<1>5. ASSUME NEW q \in Procs PROVE Knows(req[q])'
  <2>1. PICK k : k = req'[q]
        OBVIOUS
  <2>2. Knows(k)
        BY <2>1 DEF IInv, TypeInv
  <2>3. Knows(k)'
        BY <1>1, <2>2, KnowsKept
  <2> QED BY <2>1, <2>3 DEF Knows, CreateKnows, RowKnows, FinalizeKnows, UpdateKnows, PayKnows
<1> QED BY <1>1, <1>3, <1>4, <1>5 DEF IInv

LEMMA CreateNumberStep ==
    ASSUME IInv, NEW p \in Procs, NEW dto \in CreateDtos, NEW y \in Years,
           CreateNumber(p, dto, y), contended' = contended \cup Overlapping'
    PROVE  IInv'
<1>1. PICK r : r = [Idle EXCEPT !.pc = "creating", !.dto = dto, !.number = NextNumber(Rows, y)]
      OBVIOUS
<1>2. NextNumber(Rows, y) \in Numbers
      BY RowsFinite, NextNumberType DEF IInv
<1>3. r \in Request /\ Knows(r)
      BY <1>1, <1>2
      DEF Idle, Request, Knows, CreateKnows, RowKnows, FinalizeKnows, UpdateKnows, PayKnows
<1> QED BY <1>1, <1>3, RequestStep DEF CreateNumber

LEMMA FinalizeReadStep ==
    ASSUME IInv, NEW p \in Procs, NEW id \in InvoiceIds,
           FinalizeRead(p, id), contended' = contended \cup Overlapping'
    PROVE  IInv'
<1>1. PICK r : r = [Idle EXCEPT !.pc = "finalizing", !.id = id, !.row = invoice[id]]
      OBVIOUS
<1>2. invoice[id] \in InvoiceRow /\ invoice[id].status = "DRAFT"
      BY DEF FinalizeRead, Exists, IInv, TypeInv
<1>3. r \in Request /\ Knows(r)
      BY <1>1, <1>2 DEF FinalizeRead,
         Idle, Request, Knows, CreateKnows, RowKnows, FinalizeKnows, UpdateKnows, PayKnows
<1> QED BY <1>1, <1>3, RequestStep DEF FinalizeRead

LEMMA FinalizeNumberStep ==
    ASSUME IInv, NEW p \in Procs, FinalizeNumber(p), contended' = contended \cup Overlapping'
    PROVE  IInv'
<1>1. PICK r : r = [req[p] EXCEPT !.pc = "issuing", !.entryNumber = NextNumber(journal, today)]
      OBVIOUS
<1>2. NextNumber(journal, today) \in Numbers
      BY NextNumberType DEF IInv, TypeInv, TablesOK
<1>3. req[p] \in Request /\ req[p].pc = "finalizing" /\ Knows(req[p])
      BY DEF IInv, TypeInv, FinalizeNumber, At
<1>4. r \in Request /\ Knows(r)
      BY <1>1, <1>2, <1>3
      DEF Request, Knows, CreateKnows, RowKnows, FinalizeKnows, UpdateKnows, PayKnows
<1>5. req' = [req EXCEPT ![p] = r]
      BY <1>1, <1>3 DEF FinalizeNumber, IInv, TypeInv
<1> QED BY <1>4, <1>5, RequestStep DEF FinalizeNumber

LEMMA UpdateReadStep ==
    ASSUME IInv, NEW p \in Procs, NEW id \in InvoiceIds, NEW dto \in UpdateDtos,
           UpdateRead(p, id, dto), contended' = contended \cup Overlapping'
    PROVE  IInv'
<1>1. PICK r : r = [Idle EXCEPT !.pc = "editing", !.id = id, !.row = invoice[id], !.dto = dto]
      OBVIOUS
<1>2. invoice[id] \in InvoiceRow
      BY DEF UpdateRead, Exists, IInv, TypeInv
<1>3. r \in Request /\ Knows(r)
      BY <1>1, <1>2 DEF UpdateRead,
         Idle, Request, Knows, CreateKnows, RowKnows, FinalizeKnows, UpdateKnows, PayKnows
<1> QED BY <1>1, <1>3, RequestStep DEF UpdateRead

LEMMA UpdateFindStep ==
    ASSUME IInv, NEW p \in Procs, UpdateFind(p), contended' = contended \cup Overlapping'
    PROVE  IInv'
<1>1. PICK found : found = EntriesOf(journal, InvoiceRef(req[p].id))
      OBVIOUS
<1>2. PICK r : r = [req[p] EXCEPT !.pc = "reversing", !.found = found]
      OBVIOUS
<1>3. found \in SUBSET Entry /\ \A e \in found : e.ref = InvoiceRef(req[p].id)
      BY <1>1 DEF EntriesOf, IInv, TypeInv, TablesOK
<1>4. req[p] \in Request /\ req[p].pc = "editing" /\ Knows(req[p]) /\ req[p].row.status # "DRAFT"
      BY DEF IInv, TypeInv, UpdateFind, At, WasPosted
<1>5. /\ r \in Request /\ r.pc = "reversing" /\ r.id = req[p].id /\ r.row = req[p].row
      /\ r.dto = req[p].dto /\ r.found = found
      BY <1>2, <1>3, <1>4 DEF Request
<1>6. Knows(r)
      BY <1>1, <1>3, <1>4, <1>5
      DEF Knows, CreateKnows, RowKnows, FinalizeKnows, UpdateKnows, PayKnows
<1>7. req' = [req EXCEPT ![p] = r]
      BY <1>1, <1>2, <1>4 DEF UpdateFind, IInv, TypeInv
<1> QED BY <1>5, <1>6, <1>7, RequestStep DEF UpdateFind

LEMMA UpdateNumberStep ==
    ASSUME IInv, NEW p \in Procs, UpdateNumber(p), contended' = contended \cup Overlapping'
    PROVE  IInv'
<1>1. PICK n : n = NextNumber(journal \ req[p].found, today)
      OBVIOUS
<1>2. PICK r : r = [req[p] EXCEPT !.pc = "reposting", !.entryNumber = n]
      OBVIOUS
<1>3. n \in Numbers
  <2>1. IsFiniteSet(journal \ req[p].found)
        BY FS_Subset DEF IInv, TypeInv, TablesOK
  <2> QED BY <1>1, <2>1, NextNumberType DEF IInv, TypeInv, TablesOK
<1>4. req[p] \in Request /\ req[p].pc = "reversing" /\ Knows(req[p])
      BY DEF IInv, TypeInv, UpdateNumber, At
<1>5. /\ r \in Request /\ r.pc = "reposting" /\ r.id = req[p].id /\ r.row = req[p].row
      /\ r.dto = req[p].dto /\ r.found = req[p].found /\ r.entryNumber = n
      BY <1>2, <1>3, <1>4 DEF Request
<1>6. Knows(r)
      BY <1>3, <1>4, <1>5
      DEF Knows, CreateKnows, RowKnows, FinalizeKnows, UpdateKnows, PayKnows
<1>7. req' = [req EXCEPT ![p] = r]
      BY <1>1, <1>2, <1>4 DEF UpdateNumber, IInv, TypeInv
<1> QED BY <1>5, <1>6, <1>7, RequestStep DEF UpdateNumber

LEMMA PayReadStep ==
    ASSUME IInv, NEW p \in Procs, NEW id \in InvoiceIds, NEW n \in PaymentAmounts,
           NEW y \in Years, NEW c \in CashAccounts,
           PayRead(p, id, n, y, c), contended' = contended \cup Overlapping'
    PROVE  IInv'
<1>1. PICK pay : pay = [amount |-> n, year |-> y, cash |-> c]
      OBVIOUS
<1>2. pay \in Pay /\ pay.amount = n
      BY <1>1 DEF Pay
<1>3. PICK r : r = [Idle EXCEPT !.pc = "paying", !.id = id, !.row = invoice[id], !.pay = pay]
      OBVIOUS
<1>4. invoice[id] \in InvoiceRow /\ invoice[id].status # "DRAFT" /\ n <= invoice[id].due
      BY DEF PayRead, Exists, IInv, TypeInv
<1>5. r \in Request /\ Knows(r)
      BY <1>2, <1>3, <1>4 DEF PayRead,
         Idle, Request, Knows, CreateKnows, RowKnows, FinalizeKnows, UpdateKnows, PayKnows
<1> QED BY <1>1, <1>3, <1>5, RequestStep DEF PayRead

LEMMA PayNumberStep ==
    ASSUME IInv, NEW p \in Procs, PayNumber(p), contended' = contended \cup Overlapping'
    PROVE  IInv'
<1>1. PICK n : n = NextNumber(payments, req[p].pay.year)
      OBVIOUS
<1>2. PICK r : r = [req[p] EXCEPT !.pc = "receiving", !.number = n]
      OBVIOUS
<1>3. req[p] \in Request /\ req[p].pc = "paying" /\ Knows(req[p])
      BY DEF IInv, TypeInv, PayNumber, At
<1>4. req[p].pay.year \in Years
      BY <1>3 DEF Knows, PayKnows, Pay
<1>5. n \in Numbers
      BY <1>1, <1>4, NextNumberType DEF IInv, TypeInv, TablesOK
<1>6. /\ r \in Request /\ r.pc = "receiving" /\ r.id = req[p].id /\ r.row = req[p].row
      /\ r.pay = req[p].pay /\ r.number = n
      BY <1>2, <1>3, <1>5 DEF Request
<1>7. Knows(r)
      BY <1>3, <1>5, <1>6
      DEF Knows, CreateKnows, RowKnows, FinalizeKnows, UpdateKnows, PayKnows
<1>8. req' = [req EXCEPT ![p] = r]
      BY <1>1, <1>2, <1>3 DEF PayNumber, IInv, TypeInv
<1> QED BY <1>6, <1>7, <1>8, RequestStep DEF PayNumber

LEMMA PayEntryNumberStep ==
    ASSUME IInv, NEW p \in Procs, PayEntryNumber(p), contended' = contended \cup Overlapping'
    PROVE  IInv'
<1>1. PICK n : n = NextNumber(journal, req[p].pay.year)
      OBVIOUS
<1>2. PICK r : r = [req[p] EXCEPT !.pc = "settling", !.entryNumber = n]
      OBVIOUS
<1>3. req[p] \in Request /\ req[p].pc = "receiving" /\ Knows(req[p])
      BY DEF IInv, TypeInv, PayEntryNumber, At
<1>4. req[p].pay.year \in Years
      BY <1>3 DEF Knows, PayKnows, Pay
<1>5. n \in Numbers
      BY <1>1, <1>4, NextNumberType DEF IInv, TypeInv, TablesOK
<1>6. /\ r \in Request /\ r.pc = "settling" /\ r.id = req[p].id /\ r.row = req[p].row
      /\ r.pay = req[p].pay /\ r.number = req[p].number /\ r.entryNumber = n
      BY <1>2, <1>3, <1>5 DEF Request
<1>7. Knows(r)
      BY <1>3, <1>5, <1>6
      DEF Knows, CreateKnows, RowKnows, FinalizeKnows, UpdateKnows, PayKnows
<1>8. req' = [req EXCEPT ![p] = r]
      BY <1>1, <1>2, <1>3 DEF PayEntryNumber, IInv, TypeInv
<1> QED BY <1>6, <1>7, <1>8, RequestStep DEF PayEntryNumber

LEMMA AbortStep ==
    ASSUME IInv, NEW p \in Procs, Abort(p), contended' = contended \cup Overlapping'
    PROVE  IInv'
<1>1. PICK r : r = Idle
      OBVIOUS
<1> QED BY <1>1, IdleKnows, RequestStep DEF Abort, Done

----------------------------------------------------------------------------
(* Commits *)

\* A request in its transaction whose invoice is id, which another request that
\* is on the same invoice has met.
LEMMA OthersMet ==
    ASSUME IInv, NEW p \in Procs, NEW q \in Procs \ {p}, NEW id \in InvoiceIds,
           req[p].pc # "idle", req[p].id = id, req[q].pc # "idle", req[q].id = id
    PROVE  id \in contended
BY DEF IInv, Overlapping, At

\* What another request knows, once the row of invoice id and entries of id only
\* are written: nothing of it is about id unless it has been met there.
LEMMA OthersKnow ==
    ASSUME NEW r, Knows(r), NEW id \in InvoiceIds, NEW row, row # None,
           invoice \in [InvoiceIds -> InvoiceRow \cup {None}],
           invoice' = [invoice EXCEPT ![id] = row],
           \A i \in InvoiceIds \ {id} :
               EntriesOf(journal', InvoiceRef(i)) = EntriesOf(journal, InvoiceRef(i)),
           contended \subseteq contended',
           r.pc \notin {"idle", "creating"} /\ r.id = id => id \in contended
    PROVE  Knows(r)'
<1>1. /\ CreateKnows(r)' /\ FinalizeKnows(r)' /\ PayKnows(r)'
      BY DEF Knows, CreateKnows, FinalizeKnows, PayKnows
<1>2. ASSUME r.pc \notin {"idle", "creating"}
      PROVE  /\ Exists(r.id)'
             /\ r.id \notin contended' => r.id # id /\ invoice'[r.id] = invoice[r.id]
  <2>1. r.id \in InvoiceIds /\ Exists(r.id)
        BY <1>2 DEF Knows, RowKnows
  <2> QED BY <1>2, <2>1 DEF Exists
<1>3. RowKnows(r)'
      BY <1>2 DEF Knows, RowKnows
<1>4. UpdateKnows(r)'
  <2>1. r.pc \in {"reversing", "reposting"} => r.id \in InvoiceIds
        BY DEF Knows, RowKnows
  <2>2. r.pc \in {"reversing", "reposting"} /\ r.id \notin contended' =>
           EntriesOf(journal', InvoiceRef(r.id)) = EntriesOf(journal, InvoiceRef(r.id))
        BY <1>2, <2>1
  <2> QED BY <2>2 DEF Knows, UpdateKnows
<1> QED BY <1>1, <1>3, <1>4 DEF Knows

\* A commit that writes the row of invoice id, and entries of no other invoice.
LEMMA CommitStep ==
    ASSUME IInv, NEW p \in Procs, NEW id \in InvoiceIds, NEW row \in InvoiceRow,
           invoice' = [invoice EXCEPT ![id] = row], Done(p), TablesOK',
           contended' = contended \cup Overlapping',
           \A q \in Procs \ {p} :
               req[q].pc \notin {"idle", "creating"} /\ req[q].id = id => id \in contended,
           \A i \in InvoiceIds \ {id} :
               EntriesOf(journal', InvoiceRef(i)) = EntriesOf(journal, InvoiceRef(i)),
           \A i \in InvoiceIds : register[i] # None => register'[i] # None,
           row.status = "PAID" => register'[id] # None,
           id \notin contended => SettledRow(row) /\ LedgerOf(id)'
    PROVE  IInv'
<1>1. /\ row # None /\ invoice \in [InvoiceIds -> InvoiceRow \cup {None}]
      /\ contended \subseteq contended' /\ Overlapping' \subseteq contended'
      BY DEF IInv, TypeInv
<1>2. /\ invoice' \in [InvoiceIds -> InvoiceRow \cup {None}] /\ invoice'[id] = row
      /\ \A i \in InvoiceIds \ {id} : invoice'[i] = invoice[i]
      BY <1>1
<1>3. TypeInv'
  <2>1. req' \in [Procs -> Request]
    <3>1. Idle \in Request
          BY IdleKnows
    <3> HIDE DEF Idle
    <3> QED BY <3>1 DEF Done, IInv, TypeInv
  <2> QED BY <1>2, <2>1 DEF TypeInv
<1>4. ASSUME NEW q \in Procs PROVE Knows(req[q])'
  <2>1. PICK k : k = req'[q]
        OBVIOUS
  <2>2. Knows(k)'
    <3>1. CASE q = p
          BY <2>1, <3>1, IdleKnows DEF Done, IInv, TypeInv
    <3>2. CASE q # p
      <4>1. k = req[q] /\ Knows(k)
            BY <2>1, <3>2 DEF Done, IInv, TypeInv
      <4>2. k.pc \notin {"idle", "creating"} /\ k.id = id => id \in contended
            BY <3>2, <4>1
      <4> QED BY <1>1, <4>1, <4>2, OthersKnow
    <3> QED BY <3>1, <3>2
  <2> QED BY <2>1, <2>2 DEF Knows, CreateKnows, RowKnows, FinalizeKnows, UpdateKnows, PayKnows
<1>5. NoStrayEntry'
      BY <1>1, <1>2 DEF IInv, NoStrayEntry, Exists
<1>6. ASSUME NEW i \in Serial' PROVE LedgerOf(i)' /\ SettledRow(invoice[i])'
  <2>1. CASE i = id
        BY <1>1, <1>2, <1>6, <2>1 DEF Serial, SettledRow
  <2>2. CASE i # id
    <3>1. i \in Serial /\ i \in InvoiceIds /\ invoice'[i] = invoice[i]
          BY <1>1, <1>2, <1>6, <2>2 DEF Serial, Exists
    <3>2. LedgerOf(i) /\ SettledRow(invoice[i])
          BY <3>1 DEF IInv, LedgerMatchesInvoice, Settled, LedgerOf
    <3>3. EntriesOf(journal', InvoiceRef(i)) = EntriesOf(journal, InvoiceRef(i))
          BY <2>2, <3>1
    <3>4. \A e : EntriesOf(journal', InvoiceRef(i)) = {e} => e \in journal'
          BY DEF EntriesOf
    <3> QED BY <3>1, <3>2, <3>3, <3>4 DEF LedgerOf, SettledRow
  <2> QED BY <2>1, <2>2
<1>7. LedgerMatchesInvoice' /\ Settled'
      BY <1>6 DEF LedgerMatchesInvoice, LedgerOf, Settled
<1>8. PaidIsOnRegister'
      BY <1>2 DEF IInv, PaidIsOnRegister, Exists
<1> QED BY <1>1, <1>3, <1>4, <1>5, <1>7, <1>8 DEF IInv

\* postJournal adds one entry to what the transaction sees, with a key of its own.
LEMMA PostEffect ==
    ASSUME IInv, NEW p \in Procs, NEW eid, NEW ref \in Refs,
           NEW lines \in Lines, NEW seen \in SUBSET journal, NEW b,
           req[p].entryNumber \in Numbers, Post(p, eid, ref, lines, seen, b)
    PROVE  /\ journal' \subseteq Entry /\ IsFiniteSet(journal')
           /\ \A e \in journal' : e.id \in used'
           /\ DOMAIN balance' = Accounts
           /\ \E e \in Entry : e.ref = ref /\ e.lines = lines /\ journal' = seen \cup {e}
<1>1. PICK e : e = NewEntry(eid, req[p].entryNumber, ref, lines)
      OBVIOUS
<1>2. eid \in EntryIds \ used /\ journal' = seen \cup {e} /\ used' = used \cup {eid}
      BY <1>1 DEF Post
<1>3. e \in Entry /\ e.id = eid /\ e.ref = ref /\ e.lines = lines
      BY <1>1, <1>2 DEF NewEntry, Entry
<1>4. journal' \subseteq Entry /\ IsFiniteSet(journal')
      BY <1>2, <1>3, FS_Subset, FS_AddElement DEF IInv, TypeInv, TablesOK
<1>5. \A x \in journal' : x.id \in used'
      BY <1>2, <1>3 DEF IInv, TypeInv, TablesOK
<1>6. DOMAIN balance' = Accounts
      BY DEF Post, Posted
<1> QED BY <1>2, <1>3, <1>4, <1>5, <1>6

LEMMA CreateCommitStep ==
    ASSUME IInv, NEW p \in Procs, NEW id \in InvoiceIds,
           CreateCommit(p, id), contended' = contended \cup Overlapping'
    PROVE  IInv'
<1>1. PICK t : t = computeTotals(req[p].dto)
      OBVIOUS
<1>2. PICK row : row = [number |-> req[p].number, status |-> "DRAFT", subtotal |-> t.subtotal,
                        tax |-> t.tax, total |-> t.total, paid |-> 0, due |-> t.total]
      OBVIOUS
<1>3. req[p].dto \in CreateDtos /\ req[p].number \in Numbers
      BY DEF IInv, Knows, CreateKnows, CreateCommit, At
<1>4. t \in [subtotal : Nat, tax : Nat, total : Nat]
      BY <1>1, <1>3, TotalsType
<1>5. row \in InvoiceRow /\ row.status = "DRAFT" /\ SettledRow(row)
      BY <1>2, <1>3, <1>4 DEF InvoiceRow, Statuses, SettledRow
<1>6. /\ invoice' = [invoice EXCEPT ![id] = row] /\ ~Exists(id) /\ Done(p)
      /\ UNCHANGED <<payments, register, journal, balance, used, today>>
      BY <1>1, <1>2 DEF CreateCommit
<1>7. TablesOK'
      BY <1>6 DEF IInv, TypeInv, TablesOK
<1>8. \A q \in Procs \ {p} :
         req[q].pc \notin {"idle", "creating"} /\ req[q].id = id => id \in contended
      BY <1>6 DEF IInv, Knows, RowKnows
<1>9. LedgerOf(id)'
  <2>1. invoice'[id] = row
        BY <1>6 DEF IInv, TypeInv
  <2>2. EntriesOf(journal', InvoiceRef(id)) = {}
        BY <1>6 DEF IInv, NoStrayEntry
  <2> QED BY <1>5, <2>1, <2>2 DEF LedgerOf
<1> QED BY <1>5, <1>6, <1>7, <1>8, <1>9, CommitStep

LEMMA FinalizeCommitStep ==
    ASSUME IInv, NEW p \in Procs, NEW eid \in EntryIds,
           FinalizeCommit(p, eid), contended' = contended \cup Overlapping'
    PROVE  IInv'
<1>1. PICK id : id = req[p].id
      OBVIOUS
<1>2. PICK old : old = invoice[id]
      OBVIOUS
<1>3. PICK row : row = [old EXCEPT !.status = "ISSUED"]
      OBVIOUS
<1>4. /\ req[p] \in Request /\ req[p].pc = "issuing" /\ Knows(req[p])
      BY DEF IInv, TypeInv, FinalizeCommit, At
<1>5. /\ id \in InvoiceIds /\ Exists(id) /\ req[p].row \in InvoiceRow
      /\ req[p].row.status = "DRAFT" /\ req[p].entryNumber \in Numbers
      /\ id \notin contended => req[p].row = old
      BY <1>1, <1>2, <1>4 DEF Knows, RowKnows, FinalizeKnows
<1>6. old \in InvoiceRow
      BY <1>2, <1>5 DEF Exists, IInv, TypeInv
<1>7. /\ row \in InvoiceRow /\ row.status = "ISSUED" /\ row.subtotal = old.subtotal
      /\ row.tax = old.tax /\ row.total = old.total /\ row.paid = old.paid /\ row.due = old.due
      BY <1>3, <1>6 DEF InvoiceRow, Statuses
<1>8. PICK lines : lines = InvoiceLines(req[p].row)
      OBVIOUS
<1>9. PICK ref : ref = InvoiceRef(id)
      OBVIOUS
<1>10. PICK b, seen : b = balance /\ seen = journal
      OBVIOUS
<1>11. /\ seen \in SUBSET journal /\ lines \in Lines
       /\ ref \in Refs
      BY <1>5, <1>8, <1>9, <1>10, LinesType DEF InvoiceRef, Refs
<1>12. /\ invoice' = [invoice EXCEPT ![id] = row] /\ Done(p)
       /\ Post(p, eid, ref, lines, seen, b)
       /\ UNCHANGED <<payments, register, today>>
      BY <1>1, <1>2, <1>3, <1>5, <1>8, <1>9, <1>10 DEF FinalizeCommit, IInv, TypeInv
<1>13. /\ journal' \subseteq Entry /\ IsFiniteSet(journal')
       /\ \A e \in journal' : e.id \in used'
       /\ DOMAIN balance' = Accounts
       /\ \E e \in Entry : e.ref = ref /\ e.lines = lines /\ journal' = seen \cup {e}
      BY <1>5, <1>11, <1>12, PostEffect
<1>14. TablesOK'
      BY <1>12, <1>13 DEF IInv, TypeInv, TablesOK
<1>15. \A q \in Procs \ {p} :
         req[q].pc \notin {"idle", "creating"} /\ req[q].id = id => id \in contended
      BY <1>1, <1>4, <1>5, OthersMet
<1>16. \A i \in InvoiceIds \ {id} :
         EntriesOf(journal', InvoiceRef(i)) = EntriesOf(journal, InvoiceRef(i))
      BY <1>9, <1>10, <1>13 DEF InvoiceRef, EntriesOf
<1>17. ASSUME id \notin contended PROVE SettledRow(row) /\ LedgerOf(id)'
  <2>1. id \in Serial /\ old.status = "DRAFT"
        BY <1>5, <1>17 DEF Serial
  <2>2. EntriesOf(journal, ref) = {} /\ SettledRow(old)
        BY <1>2, <1>9, <2>1 DEF IInv, LedgerMatchesInvoice, Settled
  <2>3. SettledRow(row)
        BY <1>6, <1>7, <2>1, <2>2 DEF SettledRow, InvoiceRow
  <2>4. lines = InvoiceLines(row)
        BY <1>5, <1>6, <1>7, <1>8, <1>17, LinesOfAmounts
  <2>5. invoice'[id] = row
        BY <1>5, <1>12 DEF IInv, TypeInv
  <2>6. \E e \in journal' : EntriesOf(journal', ref) = {e} /\ e.lines = lines
        BY <1>10, <1>13, <2>2 DEF EntriesOf
  <2>7. LedgerOf(id)'
        BY <1>7, <1>9, <2>4, <2>5, <2>6 DEF LedgerOf
  <2> QED BY <2>3, <2>7
<1> QED BY <1>5, <1>7, <1>12, <1>14, <1>15, <1>16, <1>17, CommitStep

LEMMA UpdateDraftCommitStep ==
    ASSUME IInv, NEW p \in Procs,
           UpdateDraftCommit(p), contended' = contended \cup Overlapping'
    PROVE  IInv'
<1>1. PICK id : id = req[p].id
      OBVIOUS
<1>2. PICK old : old = invoice[id]
      OBVIOUS
<1>3. PICK row : row = Amended(old, req[p].dto)
      OBVIOUS
<1>4. req[p] \in Request /\ req[p].pc = "editing" /\ Knows(req[p]) /\ req[p].row.status = "DRAFT"
      BY DEF IInv, TypeInv, UpdateDraftCommit, At, WasPosted
<1>5. /\ id \in InvoiceIds /\ Exists(id) /\ req[p].dto \in UpdateDtos
      /\ id \notin contended => old.status = "DRAFT"
      BY <1>1, <1>2, <1>4 DEF Knows, RowKnows, UpdateKnows
<1>6. old \in InvoiceRow
      BY <1>2, <1>5 DEF Exists, IInv, TypeInv
<1>7. row \in InvoiceRow /\ row.status = old.status
      BY <1>3, <1>5, <1>6, AmendedType
<1>8. /\ invoice' = [invoice EXCEPT ![id] = row] /\ Done(p)
      /\ UNCHANGED <<payments, register, journal, balance, used, today>>
      BY <1>1, <1>2, <1>3, <1>5 DEF UpdateDraftCommit, IInv, TypeInv
<1>9. TablesOK'
      BY <1>8 DEF IInv, TypeInv, TablesOK
<1>10. \A q \in Procs \ {p} :
         req[q].pc \notin {"idle", "creating"} /\ req[q].id = id => id \in contended
      BY <1>1, <1>4, <1>5, OthersMet
<1>11. row.status = "PAID" => register'[id] # None
      BY <1>2, <1>5, <1>7, <1>8 DEF IInv, PaidIsOnRegister
<1>12. ASSUME id \notin contended PROVE SettledRow(row) /\ LedgerOf(id)'
  <2>1. id \in Serial /\ old.status = "DRAFT"
        BY <1>5, <1>12 DEF Serial
  <2>2. EntriesOf(journal, InvoiceRef(id)) = {} /\ SettledRow(old)
        BY <1>2, <2>1 DEF IInv, LedgerMatchesInvoice, Settled
  <2>3. SettledRow(row)
        BY <1>3, <1>5, <1>6, <2>1, <2>2, AmendedSettled
  <2>4. invoice'[id] = row /\ EntriesOf(journal', InvoiceRef(id)) = {}
        BY <1>5, <1>8, <2>2 DEF IInv, TypeInv
  <2> QED BY <1>7, <2>1, <2>3, <2>4 DEF LedgerOf
<1> QED BY <1>5, <1>7, <1>8, <1>9, <1>10, <1>11, <1>12, CommitStep

\* Past DRAFT the entries found, those of the invoice unless it is contended, make
\* room for one with the new amounts.
LEMMA UpdatePostedCommitStep ==
    ASSUME IInv, NEW p \in Procs, NEW eid \in EntryIds,
           UpdatePostedCommit(p, eid), contended' = contended \cup Overlapping'
    PROVE  IInv'
<1>1. PICK id : id = req[p].id
      OBVIOUS
<1>2. PICK old : old = invoice[id]
      OBVIOUS
<1>3. PICK row : row = Amended(old, req[p].dto)
      OBVIOUS
<1>4. req[p] \in Request /\ req[p].pc = "reposting" /\ Knows(req[p])
      BY DEF IInv, TypeInv, UpdatePostedCommit, At
<1>5. /\ id \in InvoiceIds /\ Exists(id) /\ req[p].dto \in UpdateDtos
      /\ req[p].entryNumber \in Numbers
      /\ \A e \in req[p].found : e.ref = InvoiceRef(id)
      /\ id \notin contended =>
            old.status = "ISSUED" /\ req[p].found = EntriesOf(journal, InvoiceRef(id))
      BY <1>1, <1>2, <1>4 DEF Knows, RowKnows, UpdateKnows
<1>6. old \in InvoiceRow
      BY <1>2, <1>5 DEF Exists, IInv, TypeInv
<1>7. row \in InvoiceRow /\ row.status = old.status
      BY <1>3, <1>5, <1>6, AmendedType
<1>8. PICK lines : lines = InvoiceLines(row)
      OBVIOUS
<1>9. PICK ref : ref = InvoiceRef(id)
      OBVIOUS
<1>10. PICK b, seen : b = Reversed(balance, req[p].found) /\ seen = journal \ req[p].found
      OBVIOUS
<1>11. seen \in SUBSET journal /\ lines \in Lines /\ ref \in Refs
      BY <1>5, <1>7, <1>8, <1>9, <1>10, LinesType DEF InvoiceRef, Refs
<1>12. /\ invoice' = [invoice EXCEPT ![id] = row] /\ Done(p)
       /\ Post(p, eid, ref, lines, seen, b)
       /\ UNCHANGED <<payments, register, today>>
      BY <1>1, <1>2, <1>3, <1>8, <1>9, <1>10 DEF UpdatePostedCommit
<1>13. /\ journal' \subseteq Entry /\ IsFiniteSet(journal')
       /\ \A e \in journal' : e.id \in used'
       /\ DOMAIN balance' = Accounts
       /\ \E e \in Entry : e.ref = ref /\ e.lines = lines /\ journal' = seen \cup {e}
      BY <1>5, <1>11, <1>12, PostEffect
<1>14. TablesOK'
      BY <1>12, <1>13 DEF IInv, TypeInv, TablesOK
<1>15. \A q \in Procs \ {p} :
         req[q].pc \notin {"idle", "creating"} /\ req[q].id = id => id \in contended
      BY <1>1, <1>4, <1>5, OthersMet
<1>16. \A i \in InvoiceIds \ {id} :
         EntriesOf(journal', InvoiceRef(i)) = EntriesOf(journal, InvoiceRef(i))
      BY <1>5, <1>9, <1>10, <1>13 DEF InvoiceRef, EntriesOf
<1>17. row.status = "PAID" => register'[id] # None
      BY <1>2, <1>5, <1>7, <1>12 DEF IInv, PaidIsOnRegister
<1>18. ASSUME id \notin contended PROVE SettledRow(row) /\ LedgerOf(id)'
  <2>1. id \in Serial /\ old.status = "ISSUED"
        BY <1>5, <1>18 DEF Serial
  <2>2. SettledRow(old)
        BY <1>2, <2>1 DEF IInv, Settled
  <2>3. SettledRow(row)
        BY <1>3, <1>5, <1>6, <2>1, <2>2, AmendedSettled
  <2>4. \E e \in journal' : EntriesOf(journal', ref) = {e} /\ e.lines = lines
        BY <1>5, <1>9, <1>10, <1>13, <1>18 DEF EntriesOf
  <2>5. invoice'[id] = row
        BY <1>5, <1>12 DEF IInv, TypeInv
  <2>6. LedgerOf(id)'
        BY <1>7, <1>8, <1>9, <2>1, <2>4, <2>5 DEF LedgerOf
  <2> QED BY <2>3, <2>6
<1> QED BY <1>5, <1>7, <1>12, <1>14, <1>15, <1>16, <1>17, <1>18, CommitStep

LEMMA PayCommitStep ==
    ASSUME IInv, NEW p \in Procs, NEW pid \in PaymentIds, NEW eid \in EntryIds,
           PayCommit(p, pid, eid), contended' = contended \cup Overlapping'
    PROVE  IInv'
<1>1. PICK id : id = req[p].id
      OBVIOUS
<1>2. PICK old : old = invoice[id]
      OBVIOUS
<1>3. PICK read, amount : read = req[p].row /\ amount = req[p].pay.amount
      OBVIOUS
<1>4. PICK newPaid, newDue : newPaid = read.paid + amount /\ newDue = read.total - newPaid
      OBVIOUS
<1>5. PICK status : status = IF newDue <= 0 THEN "PAID" ELSE "PARTIALLY_PAID"
      OBVIOUS
<1>6. PICK row : row = [old EXCEPT !.paid = newPaid, !.due = newDue, !.status = status]
      OBVIOUS
<1>7. req[p] \in Request /\ req[p].pc = "settling" /\ Knows(req[p])
      BY DEF IInv, TypeInv, PayCommit, At
<1>8. /\ id \in InvoiceIds /\ Exists(id) /\ read \in InvoiceRow
      /\ req[p].number \in Numbers /\ req[p].entryNumber \in Numbers
      /\ req[p].pay.cash \in CashAccounts /\ amount \in PaymentAmounts
      /\ amount <= read.due /\ read.status # "DRAFT"
      /\ id \notin contended => read = old
      BY <1>1, <1>2, <1>3, <1>7 DEF Knows, RowKnows, PayKnows, Pay
<1>9. old \in InvoiceRow
      BY <1>2, <1>8 DEF Exists, IInv, TypeInv
<1>10. amount \in Nat /\ amount > 0 /\ newPaid \in Nat /\ newPaid > 0 /\ newDue \in Int
      BY <1>4, <1>8 DEF InvoiceRow
<1>11. /\ row \in InvoiceRow /\ row.status = status /\ row.paid = newPaid /\ row.due = newDue
       /\ row.subtotal = old.subtotal /\ row.tax = old.tax /\ row.total = old.total
      BY <1>5, <1>6, <1>9, <1>10 DEF InvoiceRow, Statuses
<1>12. PICK lines : lines = PaymentLines(req[p].pay.cash, amount)
      OBVIOUS
<1>13. PICK ref : ref = PaymentRef(pid)
      OBVIOUS
<1>14. PICK b, seen : b = balance /\ seen = journal
      OBVIOUS
<1>15. seen \in SUBSET journal /\ lines \in Lines /\ ref \in Refs
      BY <1>8, <1>12, <1>13, <1>14, PaymentLinesType DEF PaymentRef, Refs
<1>16. PICK pay : pay = [id |-> pid, number |-> req[p].number, invoice |-> id, amount |-> amount]
      OBVIOUS
<1>17. /\ payments' = payments \cup {pay}
       /\ register' = Registered(id, read, status) /\ Done(p)
       /\ Post(p, eid, ref, lines, seen, b) /\ UNCHANGED today
      BY <1>1, <1>3, <1>4, <1>5, <1>12, <1>13, <1>14, <1>16 DEF PayCommit
<1>18. invoice' = [invoice EXCEPT ![id] = row]
  <2>1. invoice' = [invoice EXCEPT ![id].paid = newPaid, ![id].due = newDue, ![id].status = status]
        BY <1>1, <1>3, <1>4, <1>5 DEF PayCommit
  <2> QED BY <1>2, <1>6, <1>8, <2>1 DEF IInv, TypeInv
<1>19. /\ register' \in [InvoiceIds -> Nat \cup {None}]
       /\ \A i \in InvoiceIds : register[i] # None => register'[i] # None
       /\ row.status = "PAID" => register'[id] # None
  <2>1. register \in [InvoiceIds -> Nat \cup {None}] /\ read.total \in Nat /\ read.total # None
        BY <1>8 DEF IInv, TypeInv, TablesOK, InvoiceRow
  <2> QED BY <1>8, <1>11, <1>17, <2>1 DEF Registered
<1>20. /\ journal' \subseteq Entry /\ IsFiniteSet(journal')
       /\ \A e \in journal' : e.id \in used'
       /\ DOMAIN balance' = Accounts
       /\ \E e \in Entry : e.ref = ref /\ e.lines = lines /\ journal' = seen \cup {e}
      BY <1>8, <1>15, <1>17, PostEffect
<1>21. IsFiniteSet(payments') /\ \A x \in payments' : x.invoice \in InvoiceIds /\ x.number \in Numbers
      BY <1>8, <1>16, <1>17, FS_AddElement DEF IInv, TypeInv, TablesOK
<1>22. TablesOK'
      BY <1>17, <1>19, <1>20, <1>21 DEF IInv, TypeInv, TablesOK
<1>23. \A q \in Procs \ {p} :
         req[q].pc \notin {"idle", "creating"} /\ req[q].id = id => id \in contended
      BY <1>1, <1>7, <1>8, OthersMet
<1>24. \A i \in InvoiceIds :
         EntriesOf(journal', InvoiceRef(i)) = EntriesOf(journal, InvoiceRef(i))
      BY <1>13, <1>14, <1>20 DEF InvoiceRef, PaymentRef, EntriesOf
<1>25. ASSUME id \notin contended PROVE SettledRow(row) /\ LedgerOf(id)'
  <2>1. id \in Serial /\ read = old
        BY <1>8, <1>25 DEF Serial
  <2>2. SettledRow(old)
        BY <1>2, <2>1 DEF IInv, Settled
  <2>3. SettledRow(row)
        BY <1>4, <1>5, <1>8, <1>9, <1>10, <1>11, <2>1, <2>2 DEF SettledRow, InvoiceRow
  <2>4. \E e \in journal : /\ EntriesOf(journal, InvoiceRef(id)) = {e}
                           /\ e.lines = InvoiceLines(old)
        BY <1>2, <1>8, <2>1 DEF IInv, LedgerMatchesInvoice
  <2>5. InvoiceLines(row) = InvoiceLines(old)
        BY <1>9, <1>11, LinesOfAmounts
  <2>6. invoice'[id] = row /\ row.status # "DRAFT"
        BY <1>5, <1>8, <1>11, <1>18 DEF IInv, TypeInv
  <2>7. \E e \in journal' : /\ EntriesOf(journal', InvoiceRef(id)) = {e}
                            /\ e.lines = InvoiceLines(row)
        BY <1>8, <1>14, <1>20, <1>24, <2>4, <2>5
  <2>8. LedgerOf(id)'
        BY <2>6, <2>7 DEF LedgerOf
  <2> QED BY <2>3, <2>8
<1> QED BY <1>8, <1>11, <1>17, <1>18, <1>19, <1>22, <1>23, <1>24, <1>25, CommitStep

----------------------------------------------------------------------------
(* The theorems *)

LEMMA NewYearStep ==
    ASSUME IInv, NewYear, contended' = contended \cup Overlapping'
    PROVE  IInv'
<1>1. /\ UNCHANGED <<invoice, payments, register, journal, balance, used, req>>
      /\ today' \in Years
      /\ contended \subseteq contended' /\ Overlapping' \subseteq contended'
      BY DEF NewYear
<1>2. TablesOK' /\ NoStrayEntry' /\ LedgerMatchesInvoice' /\ Settled' /\ PaidIsOnRegister'
      BY <1>1, TablesKept
<1>3. TypeInv'
      BY <1>1, <1>2 DEF IInv, TypeInv
<1>4. ASSUME NEW q \in Procs PROVE Knows(req[q])'
  <2>1. PICK k : k = req[q]
        OBVIOUS
  <2>2. Knows(k)'
        BY <1>1, <2>1, KnowsKept DEF IInv
  <2> QED BY <1>1, <2>1, <2>2
          DEF Knows, CreateKnows, RowKnows, FinalizeKnows, UpdateKnows, PayKnows
<1> QED BY <1>1, <1>2, <1>3, <1>4 DEF IInv

LEMMA StepKeeps ==
    ASSUME IInv, NEW p \in Procs, Step(p), contended' = contended \cup Overlapping'
    PROVE  IInv'
<1>1. ASSUME NEW dto \in CreateDtos, NEW y \in Years, CreateNumber(p, dto, y) PROVE IInv'
      BY <1>1, CreateNumberStep
<1>2. ASSUME NEW id \in InvoiceIds, CreateCommit(p, id) \/ FinalizeRead(p, id) PROVE IInv'
      BY <1>2, CreateCommitStep, FinalizeReadStep
<1>3. CASE FinalizeNumber(p)
      BY <1>3, FinalizeNumberStep
<1>4. ASSUME NEW eid \in EntryIds, FinalizeCommit(p, eid) \/ UpdatePostedCommit(p, eid)
      PROVE  IInv'
      BY <1>4, FinalizeCommitStep, UpdatePostedCommitStep
<1>5. ASSUME NEW id \in InvoiceIds, NEW dto \in UpdateDtos, UpdateRead(p, id, dto) PROVE IInv'
      BY <1>5, UpdateReadStep
<1>6. CASE UpdateFind(p) \/ UpdateNumber(p) \/ UpdateDraftCommit(p)
      BY <1>6, UpdateFindStep, UpdateNumberStep, UpdateDraftCommitStep
<1>7. ASSUME NEW id \in InvoiceIds, NEW n \in PaymentAmounts, NEW y \in Years,
             NEW c \in CashAccounts, PayRead(p, id, n, y, c)
      PROVE  IInv'
      BY <1>7, PayReadStep
<1>8. CASE PayNumber(p) \/ PayEntryNumber(p) \/ Abort(p)
      BY <1>8, PayNumberStep, PayEntryNumberStep, AbortStep
<1>9. ASSUME NEW pid \in PaymentIds, NEW eid \in EntryIds, PayCommit(p, pid, eid) PROVE IInv'
      BY <1>9, PayCommitStep
<1> QED BY <1>1, <1>2, <1>3, <1>4, <1>5, <1>6, <1>7, <1>8, <1>9 DEF Step

LEMMA InitOK == Init => IInv
<1> SUFFICES ASSUME Init PROVE IInv
    OBVIOUS
<1>1. TypeInv
  <2>1. IsFiniteSet({})
        BY FS_EmptySet
  <2>2. Idle \in Request
        BY IdleKnows
  <2> HIDE DEF Idle
  <2> QED BY <2>1, <2>2 DEF Init, TypeInv, TablesOK
<1>2. \A p \in Procs : req[p] = Idle /\ At(p, "idle")
      BY DEF Init, Idle, At
<1>3. Overlapping \subseteq contended
      BY <1>2 DEF Overlapping
<1>4. \A p \in Procs : Knows(req[p])
      BY <1>2, IdleKnows
<1>5. NoStrayEntry /\ LedgerMatchesInvoice /\ Settled /\ PaidIsOnRegister
      BY DEF Init, NoStrayEntry, LedgerMatchesInvoice, Settled, PaidIsOnRegister,
             Serial, Exists, EntriesOf
<1> QED BY <1>1, <1>3, <1>4, <1>5 DEF IInv

LEMMA NextKeeps == IInv /\ [Next]_vars => IInv'
<1> SUFFICES ASSUME IInv, [Next]_vars PROVE IInv'
    OBVIOUS
<1>1. CASE Next
      BY <1>1, NewYearStep, StepKeeps DEF Next
<1>2. CASE UNCHANGED vars
  <2>1. /\ UNCHANGED <<invoice, payments, register, journal, balance, used, req, today, contended>>
        /\ contended \subseteq contended'
        BY <1>2 DEF vars
  <2>2. today' \in Years
        BY <2>1 DEF IInv, TypeInv, TablesOK
  <2>3. TablesOK' /\ NoStrayEntry' /\ LedgerMatchesInvoice' /\ Settled' /\ PaidIsOnRegister'
        BY <2>1, <2>2, TablesKept
  <2>4. TypeInv'
        BY <2>1, <2>3 DEF IInv, TypeInv
  <2>5. Overlapping' \subseteq contended'
        BY <2>1 DEF IInv, Overlapping, At
  <2>6. ASSUME NEW q \in Procs PROVE Knows(req[q])'
    <3>1. PICK k : k = req[q]
          OBVIOUS
    <3>2. Knows(k)'
          BY <2>1, <3>1, KnowsKept DEF IInv
    <3> QED BY <2>1, <3>1, <3>2
            DEF Knows, CreateKnows, RowKnows, FinalizeKnows, UpdateKnows, PayKnows
  <2> QED BY <2>3, <2>4, <2>5, <2>6 DEF IInv
<1> QED BY <1>1, <1>2 DEF vars

LEMMA AlwaysIInv == Spec => []IInv
<1>1. Init => IInv
      BY InitOK
<1>2. IInv /\ [Next]_vars => IInv'
      BY NextKeeps
<1> QED BY <1>1, <1>2, PTL DEF Spec

\* The rows of invoices, payments and entries are well formed, the register keeps
\* a number or nothing for each invoice, and every request is at one of its steps
\* with the row, the entries and the numbers it looked up.
THEOREM InvoicesTypeCorrect == Spec => []TypeOK
<1>1. IInv => TypeOK
      BY DEF IInv, TypeInv, TablesOK, TypeOK, Entry, Request
<1> QED BY <1>1, AlwaysIInv, PTL

\* An invoice that shows as PAID has its row on the income register, with any
\* number of payments, edits and finalizations in flight on it (recordPayment).
THEOREM PaidAlwaysOnRegister == Spec => []PaidIsOnRegister
<1>1. IInv => PaidIsOnRegister
      BY DEF IInv
<1> QED BY <1>1, AlwaysIInv, PTL

\* An invoice whose requests never overlapped has no entry as a draft and one,
\* with the amounts it shows, once issued (finalize, update, recordPayment).
THEOREM LedgerAlwaysMatches == Spec => []LedgerMatchesInvoice
<1>1. IInv => LedgerMatchesInvoice
      BY DEF IInv
<1> QED BY <1>1, AlwaysIInv, PTL

\* On such an invoice paidAmount and balanceDue add up to the total, nothing is
\* overpaid, and the status is the one the amounts imply.
THEOREM AmountsAlwaysSettled == Spec => []Settled
<1>1. IInv => Settled
      BY DEF IInv
<1> QED BY <1>1, AlwaysIInv, PTL

----------------------------------------------------------------------------
(* Balances: every entry that is posted or reversed moves them by its lines *)

LEMMA LinesHaveAmounts == ASSUME NEW lines \in Lines PROVE HasAmounts(lines)
<1>1. \A l \in Line : l.amount \in Int
      BY DEF Line
<1>2. lines \in Seq(Line)
      BY DEF Lines
<1> QED BY <1>1, <1>2, SequenceHasAmounts

LEMMA PostMirrors ==
    ASSUME IInv, BalancesMirrorJournal, NEW p \in Procs, NEW gone \in SUBSET journal,
           NEW eid, NEW ref, NEW lines \in Lines, NEW before,
           before = Reversed(balance, gone) \/ (gone = {} /\ before = balance),
           Post(p, eid, ref, lines, journal \ gone, before)
    PROVE  BalancesMirrorJournal'
<1>1. PICK old, new, entries, e, accounts :
         /\ old = balance /\ new = balance' /\ entries = journal
         /\ e = NewEntry(eid, req[p].entryNumber, ref, lines) /\ accounts = Accounts
      OBVIOUS
<1>2. IsFiniteSet(entries) /\ \A x \in entries : HasAmounts(x.lines)
      BY <1>1, LinesHaveAmounts DEF IInv, TypeInv, TablesOK, Entry
<1>3. e \notin entries /\ e.lines = lines /\ HasAmounts(e.lines)
      BY <1>1, LinesHaveAmounts DEF IInv, TypeInv, TablesOK, NewEntry, Post
<1>4. \A a \in accounts : old[a] = TotalDelta(TypeOf, entries, a)
      BY <1>1 DEF BalancesMirrorJournal, EntriesDelta
<1>5. \A a \in accounts : old[a] \in Int
      BY <1>2, <1>4, TotalDeltaInt
<1>6. ASSUME NEW a \in accounts
      PROVE  new[a] = old[a] - TotalDelta(TypeOf, gone, a) + Delta(TypeOf, e.lines, a)
  <2>1. new[a] = before[a] + Delta(TypeOf, e.lines, a)
        BY <1>1, <1>3 DEF Post, Posted, LinesDelta
  <2>2. CASE before = Reversed(balance, gone)
        BY <1>1, <2>1, <2>2 DEF Reversed, EntriesDelta
  <2>3. CASE gone = {} /\ before = balance
    <3>1. TotalDelta(TypeOf, gone, a) = 0
          BY <2>3, TotalDeltaEmpty
    <3>2. before[a] = old[a] /\ old[a] \in Int
          BY <1>1, <1>5, <2>3
    <3> QED BY <2>1, <3>1, <3>2
  <2> QED BY <2>2, <2>3
<1>7. \A a \in accounts : new[a] = TotalDelta(TypeOf, (entries \ gone) \cup {e}, a)
  <2>1. Reposting(TypeOf, accounts, entries, gone, e, old, new)
        BY <1>1, <1>2, <1>3, <1>4, <1>6 DEF Reposting
  <2> QED BY <2>1, MirrorReposted
<1>8. journal' = (entries \ gone) \cup {e}
      BY <1>1 DEF Post
<1> QED BY <1>1, <1>7, <1>8 DEF BalancesMirrorJournal, EntriesDelta

LEMMA StepMirrors ==
    ASSUME IInv, BalancesMirrorJournal, NEW p \in Procs, Step(p)
    PROVE  BalancesMirrorJournal'
<1>1. ASSUME UNCHANGED <<journal, balance>> PROVE BalancesMirrorJournal'
      BY <1>1 DEF BalancesMirrorJournal, EntriesDelta
<1>2. journal \ {} = journal
      OBVIOUS
<1>3. ASSUME NEW eid \in EntryIds, FinalizeCommit(p, eid) PROVE BalancesMirrorJournal'
  <2>1. PICK lines, ref : lines = InvoiceLines(req[p].row) /\ ref = InvoiceRef(req[p].id)
        OBVIOUS
  <2>2. req[p].row \in InvoiceRow
        BY <1>3 DEF IInv, TypeInv, Knows, RowKnows, FinalizeCommit, At
  <2>3. lines \in Lines
        BY <2>1, <2>2, LinesType
  <2>4. Post(p, eid, ref, lines, journal \ {}, balance)
        BY <1>2, <1>3, <2>1 DEF FinalizeCommit
  <2> QED BY <2>3, <2>4, PostMirrors
<1>4. ASSUME NEW eid \in EntryIds, UpdatePostedCommit(p, eid) PROVE BalancesMirrorJournal'
  <2>1. PICK row : row = Amended(invoice[req[p].id], req[p].dto)
        OBVIOUS
  <2>2. PICK lines, ref, gone, before :
            /\ lines = InvoiceLines(row) /\ ref = InvoiceRef(req[p].id)
            /\ gone = req[p].found /\ before = Reversed(balance, req[p].found)
        OBVIOUS
  <2>3. invoice[req[p].id] \in InvoiceRow /\ req[p].dto \in UpdateDtos
        BY <1>4 DEF IInv, TypeInv, Knows, RowKnows, UpdateKnows, UpdatePostedCommit, At, Exists
  <2>4. lines \in Lines
        BY <2>1, <2>2, <2>3, AmendedType, LinesType
  <2>5. gone \in SUBSET journal
        BY <1>4, <2>2 DEF UpdatePostedCommit, Deletable
  <2>6. Post(p, eid, ref, lines, journal \ gone, before)
        BY <1>4, <2>1, <2>2 DEF UpdatePostedCommit
  <2> QED BY <2>2, <2>4, <2>5, <2>6, PostMirrors
<1>5. ASSUME NEW pid \in PaymentIds, NEW eid \in EntryIds, PayCommit(p, pid, eid)
      PROVE  BalancesMirrorJournal'
  <2>1. PICK lines, ref : /\ lines = PaymentLines(req[p].pay.cash, req[p].pay.amount)
                          /\ ref = PaymentRef(pid)
        OBVIOUS
  <2>2. req[p].pay.cash \in CashAccounts /\ req[p].pay.amount \in PaymentAmounts
        BY <1>5 DEF IInv, Knows, PayKnows, PayCommit, At, Pay
  <2>3. lines \in Lines
        BY <2>1, <2>2, PaymentLinesType
  <2>4. Post(p, eid, ref, lines, journal \ {}, balance)
        BY <1>2, <1>5, <2>1 DEF PayCommit
  <2> QED BY <2>3, <2>4, PostMirrors
<1> QED BY <1>1, <1>3, <1>4, <1>5 DEF Step, CreateNumber, CreateCommit, FinalizeRead, FinalizeNumber,
        UpdateRead, UpdateFind, UpdateNumber, UpdateDraftCommit, PayRead, PayNumber,
        PayEntryNumber, Abort, Reads

\* Postings and reversals of concurrent finalizations, edits and payments leave
\* every stored balance at what the live entries add up to.
THEOREM BalancesAlwaysMirror == Spec => []BalancesMirrorJournal
<1>1. Init => BalancesMirrorJournal
      BY TotalDeltaEmpty DEF Init, BalancesMirrorJournal, EntriesDelta
<1>2. IInv /\ BalancesMirrorJournal /\ [Next]_vars => BalancesMirrorJournal'
  <2> SUFFICES ASSUME IInv, BalancesMirrorJournal, [Next]_vars PROVE BalancesMirrorJournal'
      OBVIOUS
  <2>1. ASSUME UNCHANGED <<journal, balance>> PROVE BalancesMirrorJournal'
        BY <2>1 DEF BalancesMirrorJournal, EntriesDelta
  <2> QED BY <2>1, StepMirrors DEF Next, NewYear, vars
<1> QED BY <1>1, <1>2, AlwaysIInv, PTL DEF Spec

----------------------------------------------------------------------------
(* Payments: the stored amounts of an invoice are those of its payment rows *)

\* Every payment is one of an invoice there is.
PaymentsKnown == \A pay \in payments : pay.amount \in PaymentAmounts /\ Exists(pay.invoice)

PaidIsReceived == \A id \in Serial : invoice[id].paid = Received(id)

\* A step that makes no payment keeps what was paid, and an invoice it creates
\* was paid nothing.
LEMMA NothingReceived ==
    ASSUME IInv, PaymentsKnown, PaidIsReceived, UNCHANGED payments, contended \subseteq contended',
           \A id \in InvoiceIds : Exists(id) => Exists(id)' /\ invoice'[id].paid = invoice[id].paid,
           \A id \in InvoiceIds : ~Exists(id) /\ Exists(id)' => invoice'[id].paid = 0
    PROVE  PaymentsKnown' /\ PaidIsReceived'
<1>1. PaymentsKnown'
      BY DEF PaymentsKnown, IInv, TypeInv, TablesOK
<1>2. ASSUME NEW id \in Serial' PROVE invoice'[id].paid = Received(id)
  <2>1. id \in InvoiceIds /\ Exists(id)' /\ id \notin contended
        BY <1>2 DEF Serial
  <2>2. CASE Exists(id)
    <3>1. id \in Serial
          BY <2>1, <2>2 DEF Serial
    <3> QED BY <2>1, <2>2, <3>1 DEF PaidIsReceived
  <2>3. CASE ~Exists(id)
    <3>1. PaymentsOf(id) = {}
          BY <2>3 DEF PaymentsOf, PaymentsKnown
    <3>2. PICK f : f = [pay \in PaymentsOf(id) |-> pay.amount]
          OBVIOUS
    <3>3. IsFiniteSet(DOMAIN f) /\ \A x \in DOMAIN f : f[x] \in Nat /\ f[x] = 0
          BY <3>1, <3>2, FS_EmptySet
    <3>4. SumFunction(f) = 0
          BY <3>3, SumFunctionNat
    <3> QED BY <2>1, <2>3, <3>2, <3>4 DEF Received
  <2> QED BY <2>2, <2>3
<1>3. \A id \in InvoiceIds : Received(id)' = Received(id)
      BY DEF Received, PaymentsOf
<1> QED BY <1>1, <1>2, <1>3 DEF PaidIsReceived, Serial

\* One payment more adds its amount to what its invoice received.
LEMMA ReceivedMore ==
    ASSUME PaymentsKnown, IsFiniteSet(payments), NEW pay, pay \notin payments,
           pay.amount \in PaymentAmounts, payments' = payments \cup {pay}, NEW id
    PROVE  Received(id)' = Received(id) + IF pay.invoice = id THEN pay.amount ELSE 0
<1>1. PICK f, g : /\ f = [x \in PaymentsOf(id) |-> x.amount]
                  /\ g = [x \in PaymentsOf(id)' |-> x.amount]
      OBVIOUS
<1>2. /\ IsFiniteSet(DOMAIN f) /\ \A x \in DOMAIN f : f[x] \in Int
      /\ \A x \in DOMAIN g : g[x] \in Int
  <2>1. PaymentsOf(id) \in SUBSET payments /\ PaymentsOf(id)' \in SUBSET (payments \cup {pay})
        BY DEF PaymentsOf
  <2>2. DOMAIN f = PaymentsOf(id) /\ DOMAIN g = PaymentsOf(id)'
        BY <1>1
  <2>3. ASSUME NEW x \in payments \cup {pay} PROVE x.amount \in Int
    <3>1. x.amount \in PaymentAmounts
          BY DEF PaymentsKnown
    <3>2. PaymentAmounts \subseteq Int
          OBVIOUS
    <3> QED BY <3>1, <3>2
  <2>4. IsFiniteSet(PaymentsOf(id))
        BY <2>1, FS_Subset
  <2> QED BY <1>1, <2>1, <2>2, <2>3, <2>4
<1>3. Received(id) = SumFunction(f) /\ Received(id)' = SumFunction(g)
      BY <1>1 DEF Received
<1>4. CASE pay.invoice = id
  <2>1. PaymentsOf(id)' = PaymentsOf(id) \cup {pay}
        BY <1>4 DEF PaymentsOf
  <2>2. pay \notin DOMAIN f /\ DOMAIN g = DOMAIN f \cup {pay} /\ \A x \in DOMAIN f : g[x] = f[x]
        BY <1>1, <2>1 DEF PaymentsOf
  <2>3. SumFunction(g) = SumFunction(f) + g[pay]
        BY <1>2, <2>2, SumGrows
  <2>4. g[pay] = pay.amount
        BY <1>1, <2>1
  <2> QED BY <1>3, <1>4, <2>3, <2>4
<1>5. CASE pay.invoice # id
  <2>1. PaymentsOf(id)' = PaymentsOf(id)
        BY <1>5 DEF PaymentsOf
  <2>2. SumFunction(f) \in Int
        BY <1>2, SumFunctionInt
  <2> QED BY <1>1, <1>3, <1>5, <2>1, <2>2
<1> QED BY <1>4, <1>5

LEMMA PayCommitPays ==
    ASSUME IInv, PaymentsKnown, PaidIsReceived, NEW p \in Procs, NEW pid \in PaymentIds,
           NEW eid \in EntryIds, PayCommit(p, pid, eid), contended \subseteq contended'
    PROVE  PaymentsKnown' /\ PaidIsReceived'
<1>1. PICK id, amount, read, due, status :
         /\ id = req[p].id /\ amount = req[p].pay.amount /\ read = req[p].row
         /\ due = read.total - (read.paid + amount)
         /\ status = IF due <= 0 THEN "PAID" ELSE "PARTIALLY_PAID"
      OBVIOUS
<1>2. PICK pay : pay = [id |-> pid, number |-> req[p].number, invoice |-> id, amount |-> amount]
      OBVIOUS
<1>3. /\ id \in InvoiceIds /\ Exists(id) /\ amount \in PaymentAmounts /\ read \in InvoiceRow
      /\ id \notin contended => read = invoice[id]
      BY <1>1 DEF IInv, TypeInv, Knows, RowKnows, PayKnows, PayCommit, At, Pay
<1>4. /\ payments' = payments \cup {pay} /\ pay \notin payments
      /\ invoice' = [invoice EXCEPT ![id].paid = read.paid + amount, ![id].due = due,
                                    ![id].status = status]
      BY <1>1, <1>2 DEF PayCommit
<1>5. /\ pay.amount = amount /\ pay.invoice = id
      BY <1>2
<1>6. /\ invoice \in [InvoiceIds -> InvoiceRow \cup {None}] /\ invoice[id] \in InvoiceRow
      BY <1>3 DEF IInv, TypeInv, Exists
<1>7. /\ \A i \in InvoiceIds : i # id => invoice'[i] = invoice[i]
      /\ invoice'[id].paid = read.paid + amount /\ Exists(id)'
  <2>1. PICK row : row = [invoice[id] EXCEPT !.paid = read.paid + amount, !.due = due,
                                             !.status = status]
        OBVIOUS
  <2>2. invoice' = [invoice EXCEPT ![id] = row]
        BY <1>3, <1>4, <1>6, <2>1
  <2>3. row \in InvoiceRow /\ row.paid = read.paid + amount
    <3>1. read.paid \in Nat /\ read.total \in Nat /\ amount \in Nat
          BY <1>3 DEF InvoiceRow
    <3>2. read.paid + amount \in Nat /\ due \in Int
          BY <1>1, <3>1
    <3>3. status \in Statuses
          BY <1>1 DEF Statuses
    <3> QED BY <1>6, <2>1, <3>2, <3>3 DEF InvoiceRow
  <2> QED BY <1>3, <1>6, <2>2, <2>3 DEF Exists
<1>8. PaymentsKnown'
      BY <1>3, <1>4, <1>5, <1>7 DEF PaymentsKnown, Exists, IInv, TypeInv, TablesOK
<1>9. ASSUME NEW i \in Serial' PROVE invoice'[i].paid = Received(i)'
  <2>1. i \in Serial
        BY <1>3, <1>7, <1>9 DEF Serial, Exists
  <2>2. invoice[i].paid = Received(i) /\ invoice[i].paid \in Nat /\ i \in InvoiceIds
        BY <2>1 DEF PaidIsReceived, Serial, Exists, IInv, TypeInv, InvoiceRow
  <2>3. Received(i)' = Received(i) + IF id = i THEN amount ELSE 0
    <3>1. IsFiniteSet(payments)
          BY DEF IInv, TypeInv, TablesOK
    <3>2. pay.amount \in PaymentAmounts
          BY <1>3, <1>5
    <3> QED BY <1>4, <1>5, <3>1, <3>2, ReceivedMore
  <2>4. i = id => read = invoice[i]
        BY <1>3, <2>1 DEF Serial
  <2> QED BY <1>7, <2>2, <2>3, <2>4
<1> QED BY <1>8, <1>9 DEF PaidIsReceived

LEMMA StepPays ==
    ASSUME IInv, PaymentsKnown, PaidIsReceived, NEW p \in Procs, Step(p), contended \subseteq contended'
    PROVE  PaymentsKnown' /\ PaidIsReceived'
<1>1. ASSUME UNCHANGED <<invoice, payments>> PROVE PaymentsKnown' /\ PaidIsReceived'
      BY <1>1, NothingReceived DEF Exists
<1>2. ASSUME NEW id \in InvoiceIds, CreateCommit(p, id) PROVE PaymentsKnown' /\ PaidIsReceived'
  <2>1. /\ \A i \in InvoiceIds : i # id => invoice'[i] = invoice[i]
        /\ ~Exists(id) /\ invoice'[id].paid = 0 /\ UNCHANGED payments
        BY <1>2 DEF CreateCommit, IInv, TypeInv
  <2>2. \A i \in InvoiceIds : Exists(i) => Exists(i)' /\ invoice'[i].paid = invoice[i].paid
        BY <2>1 DEF Exists
  <2>3. \A i \in InvoiceIds : ~Exists(i) /\ Exists(i)' => invoice'[i].paid = 0
        BY <2>1 DEF Exists
  <2> QED BY <2>1, <2>2, <2>3, NothingReceived
<1>3. ASSUME NEW id \in InvoiceIds, Exists(id), NEW row \in InvoiceRow,
             invoice' = [invoice EXCEPT ![id] = row], row.paid = invoice[id].paid, UNCHANGED payments
      PROVE  PaymentsKnown' /\ PaidIsReceived'
  <2>1. /\ \A i \in InvoiceIds : i # id => invoice'[i] = invoice[i]
        /\ invoice'[id] = row /\ Exists(id)'
        BY <1>3 DEF IInv, TypeInv, Exists
  <2>2. \A i \in InvoiceIds : Exists(i) => Exists(i)' /\ invoice'[i].paid = invoice[i].paid
        BY <1>3, <2>1 DEF Exists
  <2>3. \A i \in InvoiceIds : ~Exists(i) /\ Exists(i)' => invoice'[i].paid = 0
        BY <1>3, <2>1 DEF Exists
  <2> QED BY <1>3, <2>2, <2>3, NothingReceived
<1>4. ASSUME NEW eid \in EntryIds, FinalizeCommit(p, eid) PROVE PaymentsKnown' /\ PaidIsReceived'
  <2>1. PICK id : id = req[p].id
        OBVIOUS
  <2>2. id \in InvoiceIds /\ Exists(id) /\ invoice[id] \in InvoiceRow
        BY <1>4, <2>1 DEF FinalizeCommit, At, IInv, TypeInv, Knows, RowKnows, Exists
  <2>3. PICK row : row = [invoice[id] EXCEPT !.status = "ISSUED"]
        OBVIOUS
  <2>4. row \in InvoiceRow /\ row.paid = invoice[id].paid
        BY <2>2, <2>3 DEF InvoiceRow, Statuses
  <2>5. invoice' = [invoice EXCEPT ![id] = row] /\ UNCHANGED payments
        BY <1>4, <2>1, <2>2, <2>3 DEF FinalizeCommit, IInv, TypeInv
  <2> QED BY <1>3, <2>2, <2>4, <2>5
<1>5. ASSUME UpdateDraftCommit(p) \/ \E eid \in EntryIds : UpdatePostedCommit(p, eid)
      PROVE  PaymentsKnown' /\ PaidIsReceived'
  <2>1. PICK id, row : id = req[p].id /\ row = Amended(invoice[id], req[p].dto)
        OBVIOUS
  <2>2. id \in InvoiceIds /\ Exists(id) /\ invoice[id] \in InvoiceRow /\ req[p].dto \in UpdateDtos
        BY <1>5, <2>1 DEF UpdateDraftCommit, UpdatePostedCommit, At, IInv, TypeInv, Knows, RowKnows,
           UpdateKnows, Exists
  <2>3. row \in InvoiceRow /\ row.paid = invoice[id].paid
        BY <2>1, <2>2, AmendedType
  <2>4. invoice' = [invoice EXCEPT ![id] = row] /\ UNCHANGED payments
        BY <1>5, <2>1, <2>2 DEF UpdateDraftCommit, UpdatePostedCommit, IInv, TypeInv
  <2> QED BY <1>3, <2>2, <2>3, <2>4
<1> QED BY <1>1, <1>2, <1>4, <1>5, PayCommitPays DEF Step, CreateNumber, FinalizeRead, FinalizeNumber,
        UpdateRead, UpdateFind, UpdateNumber, PayRead, PayNumber, PayEntryNumber, Abort, Reads

LEMMA AlwaysReceived == Spec => [](IInv /\ PaymentsKnown /\ PaidIsReceived)
<1>1. Init => PaymentsKnown /\ PaidIsReceived
      BY DEF Init, PaymentsKnown, PaidIsReceived, Serial, Exists
<1>2. IInv /\ PaymentsKnown /\ PaidIsReceived /\ [Next]_vars => PaymentsKnown' /\ PaidIsReceived'
  <2> SUFFICES ASSUME IInv, PaymentsKnown, PaidIsReceived, [Next]_vars
               PROVE  PaymentsKnown' /\ PaidIsReceived'
      OBVIOUS
  <2>1. contended \subseteq contended'
        BY DEF Next, vars
  <2>2. ASSUME UNCHANGED <<invoice, payments>> PROVE PaymentsKnown' /\ PaidIsReceived'
        BY <2>1, <2>2, NothingReceived DEF Exists
  <2> QED BY <2>1, <2>2, StepPays DEF Next, NewYear, vars
<1> QED BY <1>1, <1>2, AlwaysIInv, PTL DEF Spec

\* On an invoice whose requests never overlapped, paidAmount is the sum of its
\* payment rows, balanceDue what is left of the total, the status the one they
\* imply, and nothing is overpaid (recordPayment, update).
THEOREM BalancesAlwaysMatchPayments == Spec => []BalancesMatchPayments
<1>1. IInv /\ PaidIsReceived => BalancesMatchPayments
      BY DEF IInv, Settled, SettledRow, PaidIsReceived, BalancesMatchPayments
<1> QED BY <1>1, AlwaysReceived, PTL

----------------------------------------------------------------------------
(* Receivables: the ledger's balance is what the issued invoices have due *)

\* An invoice's entry raises receivables by the total, a payment's lowers them by
\* the amount.
LEMMA InvoiceLinesDelta ==
    ASSUME NEW inv \in InvoiceRow
    PROVE  Delta(TypeOf, InvoiceLines(inv), AccountsReceivable) = inv.total
<1>1. PICK ar, lines : ar = AccountsReceivable /\ lines = InvoiceLines(inv)
      OBVIOUS
<1>2. HasAmounts(lines)
      BY <1>1, LinesType, LinesHaveAmounts
<1>3. PICK a, b, c : /\ a = Debit(AccountsReceivable, inv.total)
                     /\ b = Credit(OperationRevenue, inv.subtotal)
                     /\ c = Credit(VatPayable, inv.tax)
      OBVIOUS
<1>4. a.account = ar /\ a.side = "DEBIT" /\ a.amount = inv.total /\ b.account # ar /\ c.account # ar
      BY <1>1, <1>3, ChartAssumption DEF Debit, Credit
<1>5. lines = IF inv.tax > 0 THEN <<a, b, c>> ELSE <<a, b>>
  <2>1. CASE inv.tax > 0
        BY <1>1, <1>3, <2>1 DEF InvoiceLines
  <2>2. CASE ~(inv.tax > 0)
        BY <1>1, <1>3, <2>2 DEF InvoiceLines
  <2> QED BY <2>1, <2>2
<1>6. /\ 1 \in DOMAIN lines /\ lines[1] = a
      /\ \A j \in DOMAIN lines : j # 1 => lines[j] \in {b, c}
  <2>1. CASE inv.tax > 0
        BY <1>5, <2>1
  <2>2. CASE ~(inv.tax > 0)
        BY <1>5, <2>2
  <2> QED BY <2>1, <2>2
<1>7. \A j \in DOMAIN lines : lines[j].account = ar => j = 1
      BY <1>4, <1>6
<1>8. lines[1].account = ar
      BY <1>4, <1>6
<1>9. Delta(TypeOf, lines, ar) = balanceDelta(TypeOf[ar], lines[1].side, lines[1].amount)
      BY <1>2, <1>6, <1>7, <1>8, DeltaOfOne
<1>10. TypeOf[ar] = "ASSET"
      BY <1>1, ChartAssumption
<1> QED BY <1>1, <1>4, <1>6, <1>9, <1>10 DEF balanceDelta

LEMMA PaymentLinesDelta ==
    ASSUME NEW cash \in CashAccounts, cash # AccountsReceivable, NEW n \in PaymentAmounts
    PROVE  Delta(TypeOf, PaymentLines(cash, n), AccountsReceivable) = -n
<1>1. PICK ar, lines : ar = AccountsReceivable /\ lines = PaymentLines(cash, n)
      OBVIOUS
<1>2. HasAmounts(lines)
      BY <1>1, PaymentLinesType, LinesHaveAmounts
<1>3. PICK a, b : a = Debit(cash, n) /\ b = Credit(AccountsReceivable, n) /\ lines = <<a, b>>
      BY <1>1 DEF PaymentLines
<1>4. a.account # ar /\ b.account = ar /\ b.side = "CREDIT" /\ b.amount = n
      BY <1>1, <1>3 DEF Debit, Credit
<1>5. 2 \in DOMAIN lines /\ lines[2] = b /\ \A j \in DOMAIN lines : j # 2 => lines[j] = a
      BY <1>3
<1>6. \A j \in DOMAIN lines : lines[j].account = ar => j = 2
      BY <1>4, <1>5
<1>7. lines[2].account = ar
      BY <1>4, <1>5
<1>8. Delta(TypeOf, lines, ar) = balanceDelta(TypeOf[ar], lines[2].side, lines[2].amount)
      BY <1>2, <1>5, <1>6, <1>7, DeltaOfOne
<1>9. TypeOf[ar] = "ASSET"
      BY <1>1, ChartAssumption
<1> QED BY <1>1, <1>4, <1>5, <1>8, <1>9 DEF balanceDelta

Dues == [id \in Issued |-> invoice[id].due]

LEMMA DuesType ==
    ASSUME IInv
    PROVE  IsFiniteSet(DOMAIN Dues) /\ (\A id \in DOMAIN Dues : Dues[id] \in Int)
<1>1. Issued \in SUBSET InvoiceIds
      BY DEF Issued
<1>2. IsFiniteSet(Issued)
      BY <1>1, FS_Subset
<1>3. \A id \in Issued : invoice[id].due \in Int
      BY DEF Issued, Exists, IInv, TypeInv, InvoiceRow
<1> QED BY <1>2, <1>3 DEF Dues

\* A commit that writes the row of invoice id changes its due only.
LEMMA DuesChange ==
    ASSUME IInv, NEW id \in InvoiceIds, NEW row \in InvoiceRow,
           invoice' = [invoice EXCEPT ![id] = row]
    PROVE  /\ id \in Issued /\ row.status # "DRAFT" =>
                 SumFunction(Dues)' = SumFunction(Dues) - invoice[id].due + row.due
           /\ id \notin Issued /\ row.status # "DRAFT" =>
                 SumFunction(Dues)' = SumFunction(Dues) + row.due
           /\ id \notin Issued /\ row.status = "DRAFT" => SumFunction(Dues)' = SumFunction(Dues)
<1>1. PICK f, g : f = Dues /\ g = Dues'
      OBVIOUS
<1>2. IsFiniteSet(DOMAIN f) /\ (\A x \in DOMAIN f : f[x] \in Int)
      BY <1>1, DuesType
<1>3. DOMAIN f = Issued /\ DOMAIN g = Issued'
      BY <1>1 DEF Dues
<1>4. /\ invoice'[id] = row /\ row # None /\ row.due \in Int
      /\ \A i \in InvoiceIds : i # id => invoice'[i] = invoice[i]
      BY DEF IInv, TypeInv, InvoiceRow
<1>5. /\ Issued \subseteq InvoiceIds
      /\ Issued' = (Issued \ {id}) \cup (IF row.status # "DRAFT" THEN {id} ELSE {})
      BY <1>4 DEF Issued, Exists
<1>6. /\ \A x \in DOMAIN f : x # id => x \in DOMAIN g /\ g[x] = f[x]
      /\ id \in DOMAIN f => f[id] = invoice[id].due
      /\ id \in DOMAIN g => g[id] = row.due
      BY <1>1, <1>3, <1>4, <1>5 DEF Dues
<1>7. ASSUME id \in Issued, row.status # "DRAFT"
      PROVE  SumFunction(g) = SumFunction(f) - invoice[id].due + row.due
  <2>1. DOMAIN g = DOMAIN f /\ id \in DOMAIN f
        BY <1>3, <1>5, <1>7
  <2>2. g[id] \in Int /\ \A x \in DOMAIN f : x # id => g[x] = f[x]
        BY <1>4, <1>6, <2>1
  <2>3. SumFunction(g) = SumFunction(f) - f[id] + g[id]
        BY <1>2, <2>1, <2>2, SumChanges
  <2> QED BY <1>6, <2>1, <2>3
<1>8. ASSUME id \notin Issued, row.status # "DRAFT"
      PROVE  SumFunction(g) = SumFunction(f) + row.due
  <2>1. DOMAIN g = DOMAIN f \cup {id} /\ id \notin DOMAIN f
        BY <1>3, <1>5, <1>8
  <2>2. /\ \A x \in DOMAIN f : g[x] = f[x]
        /\ \A x \in DOMAIN g : g[x] \in Int
        BY <1>2, <1>4, <1>6, <2>1
  <2>3. SumFunction(g) = SumFunction(f) + g[id]
        BY <1>2, <2>1, <2>2, SumGrows
  <2> QED BY <1>6, <2>1, <2>3
<1>9. ASSUME id \notin Issued, row.status = "DRAFT" PROVE g = f
  <2>1. Issued' = Issued
        BY <1>5, <1>9
  <2>2. \A x \in Issued : invoice'[x] = invoice[x]
        BY <1>4, <1>5, <1>9
  <2> QED BY <1>1, <2>1, <2>2 DEF Dues
<1> QED BY <1>1, <1>7, <1>8, <1>9

LEMMA PostMoves ==
    ASSUME NEW p, NEW eid, NEW ref, NEW lines, NEW seen, NEW before,
           Post(p, eid, ref, lines, seen, before)
    PROVE  balance'[AccountsReceivable]
             = before[AccountsReceivable] + Delta(TypeOf, lines, AccountsReceivable)
BY DEF Post, Posted, LinesDelta

\* While no requests met, the balance is the sum of what is due.
Matched == balance[AccountsReceivable] = SumFunction(Dues)

LEMMA MatchedKept ==
    ASSUME Matched, UNCHANGED <<invoice, balance>>
    PROVE  Matched'
BY DEF Matched, Dues, Issued, Exists

LEMMA CreateMatches ==
    ASSUME IInv, Matched, NEW p \in Procs, NEW id \in InvoiceIds, CreateCommit(p, id)
    PROVE  Matched'
<1>1. PICK t : t = computeTotals(req[p].dto)
      OBVIOUS
<1>2. PICK row : row = [number |-> req[p].number, status |-> "DRAFT", subtotal |-> t.subtotal,
                        tax |-> t.tax, total |-> t.total, paid |-> 0, due |-> t.total]
      OBVIOUS
<1>3. req[p].dto \in CreateDtos /\ req[p].number \in Numbers
      BY DEF IInv, Knows, CreateKnows, CreateCommit, At
<1>4. t \in [subtotal : Nat, tax : Nat, total : Nat]
      BY <1>1, <1>3, TotalsType
<1>5. row \in InvoiceRow /\ row.status = "DRAFT"
      BY <1>2, <1>3, <1>4 DEF InvoiceRow, Statuses
<1>6. invoice' = [invoice EXCEPT ![id] = row] /\ id \notin Issued /\ balance' = balance
      BY <1>1, <1>2 DEF CreateCommit, Issued
<1>7. SumFunction(Dues)' = SumFunction(Dues)
      BY <1>5, <1>6, DuesChange
<1> QED BY <1>6, <1>7 DEF Matched

LEMMA FinalizeMatches ==
    ASSUME IInv, Matched, contended = {}, NEW p \in Procs, NEW eid \in EntryIds,
           FinalizeCommit(p, eid)
    PROVE  Matched'
<1>1. PICK id, old : id = req[p].id /\ old = invoice[id]
      OBVIOUS
<1>2. PICK row : row = [old EXCEPT !.status = "ISSUED"]
      OBVIOUS
<1>3. /\ id \in InvoiceIds /\ Exists(id) /\ req[p].row = old /\ old \in InvoiceRow
      /\ old.status = "DRAFT"
      BY <1>1 DEF FinalizeCommit, At, IInv, TypeInv, Knows, RowKnows, FinalizeKnows
<1>4. SettledRow(old) /\ id \notin Issued
      BY <1>1, <1>3 DEF IInv, Settled, Serial, Issued
<1>5. old.due = old.total
  <2>1. old.paid = 0
        BY <1>3, <1>4 DEF SettledRow, InvoiceRow
  <2> QED BY <1>3, <1>4, <2>1 DEF SettledRow, InvoiceRow
<1>6. row \in InvoiceRow /\ row.status = "ISSUED" /\ row.due = old.due
      BY <1>2, <1>3 DEF InvoiceRow, Statuses
<1>7. invoice' = [invoice EXCEPT ![id] = row]
      BY <1>1, <1>2, <1>3 DEF FinalizeCommit, IInv, TypeInv
<1>8. SumFunction(Dues)' = SumFunction(Dues) + row.due
      BY <1>3, <1>4, <1>6, <1>7, DuesChange
<1>9. PICK ref, lines, seen, before :
         /\ ref = InvoiceRef(id) /\ lines = InvoiceLines(old)
         /\ seen = journal /\ before = balance
      OBVIOUS
<1>10. Post(p, eid, ref, lines, seen, before)
      BY <1>1, <1>3, <1>9 DEF FinalizeCommit
<1>11. Delta(TypeOf, lines, AccountsReceivable) = old.total
      BY <1>3, <1>9, InvoiceLinesDelta
<1> QED BY <1>5, <1>6, <1>8, <1>9, <1>10, <1>11, PostMoves DEF Matched

LEMMA UpdateDraftMatches ==
    ASSUME IInv, Matched, contended = {}, NEW p \in Procs, UpdateDraftCommit(p)
    PROVE  Matched'
<1>1. PICK id, old : id = req[p].id /\ old = invoice[id]
      OBVIOUS
<1>2. PICK row : row = Amended(old, req[p].dto)
      OBVIOUS
<1>3. /\ id \in InvoiceIds /\ Exists(id) /\ req[p].row = old /\ old \in InvoiceRow
      /\ old.status = "DRAFT" /\ req[p].dto \in UpdateDtos
      BY <1>1 DEF UpdateDraftCommit, At, WasPosted, IInv, TypeInv, Knows, RowKnows, UpdateKnows
<1>4. row \in InvoiceRow /\ row.status = "DRAFT" /\ id \notin Issued
      BY <1>1, <1>2, <1>3, AmendedType DEF Issued
<1>5. invoice' = [invoice EXCEPT ![id] = row] /\ balance' = balance
      BY <1>1, <1>2, <1>3 DEF UpdateDraftCommit, IInv, TypeInv
<1>6. SumFunction(Dues)' = SumFunction(Dues)
      BY <1>3, <1>4, <1>5, DuesChange
<1> QED BY <1>5, <1>6 DEF Matched

LEMMA UpdatePostedMatches ==
    ASSUME IInv, Matched, contended = {}, NEW p \in Procs, NEW eid \in EntryIds,
           UpdatePostedCommit(p, eid)
    PROVE  Matched'
<1>1. PICK id, old : id = req[p].id /\ old = invoice[id]
      OBVIOUS
<1>2. PICK row : row = Amended(old, req[p].dto)
      OBVIOUS
<1>3. /\ id \in InvoiceIds /\ Exists(id) /\ old \in InvoiceRow
      /\ old.status = "ISSUED" /\ req[p].dto \in UpdateDtos
      /\ req[p].found = EntriesOf(journal, InvoiceRef(id))
      BY <1>1 DEF UpdatePostedCommit, At, IInv, TypeInv, Knows, RowKnows, UpdateKnows
<1>4. row \in InvoiceRow /\ row.status = "ISSUED" /\ row.due = row.total /\ id \in Issued
      BY <1>1, <1>2, <1>3, AmendedType DEF Issued
<1>5. SettledRow(old) /\ LedgerOf(id)
      BY <1>1, <1>3 DEF IInv, Settled, Serial, LedgerMatchesInvoice, LedgerOf
<1>6. old.due = old.total
  <2>1. old.paid = 0
        BY <1>3, <1>5 DEF SettledRow, InvoiceRow
  <2> QED BY <1>3, <1>5, <2>1 DEF SettledRow, InvoiceRow
<1>7. invoice' = [invoice EXCEPT ![id] = row]
      BY <1>1, <1>2 DEF UpdatePostedCommit
<1>8. SumFunction(Dues)' = SumFunction(Dues) - old.due + row.due
      BY <1>1, <1>3, <1>4, <1>7, DuesChange
<1>9. PICK e : e \in journal /\ req[p].found = {e} /\ e.lines = InvoiceLines(old)
      BY <1>1, <1>3, <1>5 DEF LedgerOf
<1>10. TotalDelta(TypeOf, {e}, AccountsReceivable) = old.total
  <2>1. HasAmounts(e.lines)
        BY <1>3, <1>9, LinesType, LinesHaveAmounts
  <2>2. TotalDelta(TypeOf, {e}, AccountsReceivable) = Delta(TypeOf, e.lines, AccountsReceivable)
        BY <2>1, TotalDeltaOne
  <2>3. Delta(TypeOf, e.lines, AccountsReceivable) = old.total
        BY <1>3, <1>9, InvoiceLinesDelta
  <2> QED BY <2>2, <2>3
<1>11. PICK ref, lines, seen, before :
         /\ ref = InvoiceRef(id) /\ lines = InvoiceLines(row)
         /\ seen = journal \ req[p].found /\ before = Reversed(balance, req[p].found)
      OBVIOUS
<1>12. Post(p, eid, ref, lines, seen, before)
      BY <1>1, <1>2, <1>11 DEF UpdatePostedCommit
<1>13. Delta(TypeOf, lines, AccountsReceivable) = row.total
      BY <1>4, <1>11, InvoiceLinesDelta
<1>14. before[AccountsReceivable] = balance[AccountsReceivable] - old.total
      BY <1>9, <1>10, <1>11 DEF Reversed, EntriesDelta
<1>15. balance'[AccountsReceivable] = balance[AccountsReceivable] - old.total + row.total
      BY <1>12, <1>13, <1>14, PostMoves
<1> QED BY <1>4, <1>6, <1>8, <1>15 DEF Matched

LEMMA PayMatches ==
    ASSUME IInv, Matched, contended = {}, AccountsReceivable \notin CashAccounts,
           NEW p \in Procs, NEW pid \in PaymentIds, NEW eid \in EntryIds, PayCommit(p, pid, eid)
    PROVE  Matched'
<1>1. PICK id, old, amount, due, status :
         /\ id = req[p].id /\ old = invoice[id] /\ amount = req[p].pay.amount
         /\ due = old.total - (old.paid + amount)
         /\ status = IF due <= 0 THEN "PAID" ELSE "PARTIALLY_PAID"
      OBVIOUS
<1>2. PICK row : row = [old EXCEPT !.paid = old.paid + amount, !.due = due, !.status = status]
      OBVIOUS
<1>3. /\ id \in InvoiceIds /\ Exists(id) /\ req[p].row = old /\ old \in InvoiceRow
      /\ old.status # "DRAFT" /\ amount \in PaymentAmounts /\ req[p].pay.cash \in CashAccounts
      BY <1>1 DEF PayCommit, At, IInv, TypeInv, Knows, RowKnows, PayKnows, Pay
<1>4. id \in Issued /\ SettledRow(old)
      BY <1>1, <1>3 DEF IInv, Settled, Serial, Issued
<1>5. old.paid \in Nat /\ old.total \in Nat /\ amount \in Nat
      BY <1>3 DEF InvoiceRow
<1>6. old.paid + amount \in Nat /\ due \in Int /\ status \in Statuses /\ status # "DRAFT"
      BY <1>1, <1>5 DEF Statuses
<1>7. row \in InvoiceRow /\ row.status # "DRAFT" /\ row.due = due
      BY <1>2, <1>3, <1>6 DEF InvoiceRow
<1>8. due = old.due - amount
      BY <1>1, <1>4, <1>5 DEF SettledRow
<1>9. invoice' = [invoice EXCEPT ![id] = row]
  <2>1. invoice' = [invoice EXCEPT ![id].paid = old.paid + amount, ![id].due = due,
                                   ![id].status = status]
        BY <1>1, <1>3 DEF PayCommit
  <2> QED BY <1>1, <1>2, <1>3, <2>1 DEF IInv, TypeInv
<1>10. SumFunction(Dues)' = SumFunction(Dues) - old.due + row.due
      BY <1>1, <1>3, <1>4, <1>7, <1>9, DuesChange
<1>11. PICK ref, lines, seen, before :
         /\ ref = PaymentRef(pid) /\ lines = PaymentLines(req[p].pay.cash, amount)
         /\ seen = journal /\ before = balance
      OBVIOUS
<1>12. Post(p, eid, ref, lines, seen, before)
      BY <1>1, <1>11 DEF PayCommit
<1>13. Delta(TypeOf, lines, AccountsReceivable) = -amount
  <2>1. req[p].pay.cash # AccountsReceivable
        BY <1>3
  <2> QED BY <1>3, <1>11, <2>1, PaymentLinesDelta
<1>14. SumFunction(Dues) \in Int /\ old.due \in Int
      BY <1>3, DuesType, SumFunctionInt DEF InvoiceRow
<1> QED BY <1>5, <1>7, <1>8, <1>10, <1>11, <1>12, <1>13, <1>14, PostMoves DEF Matched

\* As long as requests never meet on an invoice, the balance of accounts receivable
\* is what customers still owe on the issued invoices, through finalizations, edits
\* and payments of any number of invoices at once (invoices.service.ts).  A payment
\* is received on another account: the service books it to whichever the body names.
THEOREM ReceivableAlwaysOwed ==
    ASSUME AccountsReceivable \notin CashAccounts
    PROVE  Spec => []ReceivableIsWhatIsOwed
<1>1. ReceivableIsWhatIsOwed <=> (contended = {} => Matched)
      BY DEF ReceivableIsWhatIsOwed, Matched, Dues
<1>2. Init => Matched
  <2> SUFFICES ASSUME Init PROVE Matched
      OBVIOUS
  <2>1. PICK f : f = Dues
        OBVIOUS
  <2>2. IsFiniteSet(DOMAIN f) /\ \A x \in DOMAIN f : f[x] \in Nat /\ f[x] = 0
        BY <2>1, FS_EmptySet DEF Init, Dues, Issued, Exists
  <2>3. SumFunction(f) = 0
        BY <2>2, SumFunctionNat
  <2> QED BY <2>1, <2>3 DEF Init, Matched
<1>3. IInv /\ (contended = {} => Matched) /\ [Next]_vars => (contended = {} => Matched)'
  <2> SUFFICES ASSUME IInv, contended = {} => Matched, [Next]_vars, contended' = {} PROVE Matched'
      OBVIOUS
  <2>1. contended = {} /\ Matched
        BY DEF Next, vars
  <2>2. ASSUME UNCHANGED <<invoice, balance>> PROVE Matched'
        BY <2>1, <2>2, MatchedKept
  <2>3. ASSUME NEW p \in Procs, Step(p) PROVE Matched'
        BY <2>1, <2>2, <2>3, CreateMatches, FinalizeMatches, UpdateDraftMatches,
           UpdatePostedMatches, PayMatches
           DEF Step, CreateNumber, FinalizeRead, FinalizeNumber, UpdateRead, UpdateFind,
               UpdateNumber, PayRead, PayNumber, PayEntryNumber, Abort, Reads
  <2> QED BY <2>2, <2>3 DEF Next, NewYear, vars
<1>4. Spec => [](contended = {} => Matched)
      BY <1>2, <1>3, AlwaysIInv, PTL DEF Spec
<1> QED BY <1>1, <1>4, PTL

============================================================================
