--------------------------- MODULE ExpensesProofs ---------------------------
(***************************************************************************)
(* Proofs about Expenses, and the Deposits it is composed with, for every  *)
(* number of concurrent requests, bills, deposits, bodies, batches and     *)
(* years.  IInv is about bills and their place in the ledger; PayInv adds  *)
(* the payments on bills, DepositInv the entries of deposits, DueInv what  *)
(* the entries of both come to on accounts payable, and SyncInv the        *)
(* tracking deposits that the bills of a job keep in step.                 *)
(***************************************************************************)
EXTENDS Expenses, LedgerLemmas, SequenceTheorems

USE DepositsAssumption, ExpensesAssumption, RowsAssumption

----------------------------------------------------------------------------
(* The inductive invariant *)

Numbers == [year : Years, seq : Nat]
Batch   == Seq([id : BillIds, amount : Nat \ {0}])

\* A request is a record of these columns.
RequestShape(r) ==
    /\ DOMAIN r = {"pc", "id", "dep", "row", "dto", "to", "number", "entryNumber",
                   "cost", "batch", "own"}
    /\ DOMAIN r.own = {"entries", "payments"}

\* A posted bill is an approved one, and an actual cost that no body stated adds up.
RowOK(row) ==
    /\ Posted2Ap(row) => row.approval = "APPROVED"
    /\ ~row.stated => row.actual = row.amount + row.tax - row.deposit

TypeInv ==
    /\ bill \in [BillIds -> BillRow \cup {None, Gone}]
    /\ \A id \in BillIds : Live(id) => RowOK(bill[id])
    /\ DOMAIN deposit = DepositIds
    /\ DOMAIN req = Procs
    /\ \A p \in Procs : RequestShape(req[p])

\* Of the entries given, one is the bill's, with its lines.
OneEntry(entries, id) ==
    \E e \in entries : /\ EntriesOf(entries, BillRef(id)) = {e}
                       /\ e.lines = ApLines(bill[id])

\* BillMatchesLedger, of one bill.
LedgerOf(id) ==
    IF Live(id) /\ Posted2Ap(bill[id]) THEN OneEntry(journal, id)
    ELSE EntriesOf(journal, BillRef(id)) = {}

CheckedPcs == {"updating", "rejecting", "deleting", "approving", "posting", "posting first"}
PayingPcs  == {"paying", "posting first", "summing", "numbering", "settling"}
WritingPcs == {"resizing", "removing", "advancing", "refunding", "repaying"}

\* What request r carries, whatever the tables hold.
Carries(r) ==
    /\ r.pc = "billing" => r.dto \in CreateDtos /\ r.number \in Numbers
    /\ r.pc \in CheckedPcs => r.id \in BillIds /\ r.row \in BillRow
    /\ r.pc = "updating" => r.dto \in UpdateDtos
    /\ r.pc = "posting first" => EntriesOf(r.own.entries, BillRef(r.id)) = {}
    /\ r.pc \in PayingPcs => r.batch \in Batch /\ r.batch # <<>>
    /\ r.pc \in WritingPcs => r.dep \in DepositIds

\* While no other request has met it there, the bill it checked is as it read it,
\* not posted; the bills it has posted and not committed are not posted yet; and
\* the deposit it is about to write is there, and not refunded.
Knows(r) ==
    /\ r.pc \in CheckedPcs /\ r.id \notin disturbed =>
          bill[r.id] = r.row /\ ~Posted2Ap(r.row)
    /\ \A id \in BillIds \ disturbed :
          EntriesOf(r.own.entries, BillRef(id)) # {} =>
             Live(id) /\ ~Posted2Ap(bill[id]) /\ OneEntry(r.own.entries, id)
    /\ r.pc \in WritingPcs /\ r.dep \notin disturbed =>
          Deposited(r.dep) /\ deposit[r.dep].status # Refunded

IInv ==
    /\ TypeInv
    /\ Overlapping \subseteq disturbed
    /\ \A p \in Procs : Carries(req[p]) /\ Knows(req[p])
    /\ \A id \in BillIds \ disturbed : LedgerOf(id)

\* The bills request r has checked or posted.
Concerns(r, id) == (r.pc \in CheckedPcs /\ r.id = id) \/ EntriesOf(r.own.entries, BillRef(id)) # {}

----------------------------------------------------------------------------
(* Lemmas *)

LEMMA IdleOK == RequestShape(Idle) /\ Carries(Idle) /\ Knows(Idle) /\ Knows(Idle)'
BY DEF Idle, RequestShape, Carries, Knows, EntriesOf, CheckedPcs, PayingPcs, WritingPcs

\* Of two requests on one bill or one deposit, the history tells.
LEMMA BillMet ==
    ASSUME IInv, NEW p \in Procs, NEW q \in Procs, p # q, NEW id \in BillIds,
           Concerns(req[p], id), Concerns(req[q], id)
    PROVE  id \in disturbed
<1>1. ASSUME NEW x \in Procs, Concerns(req[x], id) PROVE id \in Touched(x)
  <2>1. CASE req[x].id = id
        BY <2>1 DEF Touched
  <2>2. CASE EntriesOf(req[x].own.entries, BillRef(id)) # {}
        BY <2>2 DEF EntriesOf, Touched, PostedBills, PostedByUs
  <2> QED BY <1>1, <2>1, <2>2 DEF Concerns
<1>2. id \in Overlapping
      BY <1>1 DEF Overlapping
<1> QED BY <1>2 DEF IInv

LEMMA DepositMet ==
    ASSUME IInv, NEW p \in Procs, NEW q \in Procs, p # q, NEW d \in DepositIds,
           req[p].dep = d, req[q].dep = d
    PROVE  d \in disturbed
<1>1. d \in Touched(p) /\ d \in Touched(q)
      BY DEF Touched
<1>2. d \in Overlapping
      BY <1>1 DEF Overlapping
<1> QED BY <1>2 DEF IInv

\* What a request knows stays so while the bills and the deposit it knows about
\* are left alone, or the history tells that they were not.
LEMMA KnowsKept ==
    ASSUME NEW r, Carries(r), Knows(r), NEW S, NEW D,
           disturbed \subseteq disturbed',
           \A id \in BillIds \ S : bill'[id] = bill[id],
           \A id \in BillIds \cap S : Concerns(r, id) => id \in disturbed,
           \A d \in DepositIds \ D : deposit'[d] = deposit[d],
           \A d \in DepositIds \cap D : r.pc \in WritingPcs /\ r.dep = d => d \in disturbed
    PROVE  Knows(r)'
<1>1. r.pc \in CheckedPcs /\ r.id \notin disturbed' => bill'[r.id] = r.row /\ ~Posted2Ap(r.row)
      BY DEF Carries, Knows, Concerns
<1>2. ASSUME NEW id \in BillIds, id \notin disturbed', EntriesOf(r.own.entries, BillRef(id)) # {}
      PROVE  Live(id)' /\ ~Posted2Ap(bill'[id]) /\ OneEntry(r.own.entries, id)'
  <2>1. id \notin disturbed /\ bill'[id] = bill[id]
        BY <1>2 DEF Concerns
  <2>2. Live(id) /\ ~Posted2Ap(bill[id]) /\ OneEntry(r.own.entries, id)
        BY <1>2, <2>1 DEF Knows
  <2> QED BY <2>1, <2>2 DEF Live, OneEntry
<1>3. r.pc \in WritingPcs /\ r.dep \notin disturbed' =>
         Deposited(r.dep)' /\ deposit'[r.dep].status # Refunded
      BY DEF Carries, Knows, Deposited
<1> QED BY <1>1, <1>2, <1>3 DEF Knows

\* A step of request p that writes bills of S and deposits of D only, none of
\* which another request knows about unmet.
LEMMA TableStep ==
    ASSUME IInv, NEW p \in Procs, NEW r, NEW S, NEW D,
           req' = [req EXCEPT ![p] = r],
           RequestShape(r), Carries(r), Knows(r)',
           bill' \in [BillIds -> BillRow \cup {None, Gone}],
           \A id \in BillIds : Live(id)' => RowOK(bill'[id]),
           DOMAIN deposit' = DepositIds,
           disturbed \subseteq disturbed', Overlapping' \subseteq disturbed',
           \A id \in BillIds \ S :
               /\ bill'[id] = bill[id]
               /\ EntriesOf(journal', BillRef(id)) = EntriesOf(journal, BillRef(id)),
           \A id \in BillIds \cap S : LedgerOf(id)' \/ id \in disturbed,
           \A id \in BillIds \cap S, q \in Procs \ {p} : Concerns(req[q], id) => id \in disturbed,
           \A d \in DepositIds \ D : deposit'[d] = deposit[d],
           \A d \in DepositIds \cap D, q \in Procs \ {p} :
               req[q].pc \in WritingPcs /\ req[q].dep = d => d \in disturbed
    PROVE  IInv'
<1>1. /\ DOMAIN req' = Procs /\ req'[p] = r
      /\ \A q \in Procs \ {p} : req'[q] = req[q]
      BY DEF IInv, TypeInv
<1>2. TypeInv'
      BY <1>1 DEF IInv, TypeInv, RequestShape
<1>3. ASSUME NEW q \in Procs PROVE Carries(req[q])' /\ Knows(req[q])'
  <2>1. PICK k : k = req'[q]
        OBVIOUS
  <2>2. Carries(k) /\ Knows(k)'
    <3>1. CASE q = p
          BY <1>1, <2>1, <3>1
    <3>2. CASE q # p
      <4>1. k = req[q] /\ Carries(k) /\ Knows(k)
            BY <1>1, <2>1, <3>2 DEF IInv
      <4>2. /\ \A id \in BillIds \cap S : Concerns(k, id) => id \in disturbed
            /\ \A d \in DepositIds \cap D : k.pc \in WritingPcs /\ k.dep = d => d \in disturbed
            BY <3>2, <4>1
      <4>3. \A id \in BillIds \ S : bill'[id] = bill[id]
            OBVIOUS
      <4>4. Knows(k)'
            BY <4>1, <4>2, <4>3, KnowsKept
      <4> QED BY <4>1, <4>4
    <3> QED BY <3>1, <3>2
  <2> QED BY <2>1, <2>2 DEF Carries, Knows
<1>4. ASSUME NEW id \in BillIds, id \notin disturbed' PROVE LedgerOf(id)'
  <2>1. CASE id \in S
        BY <1>4, <2>1
  <2>2. CASE id \notin S
    <3>1. LedgerOf(id) /\ bill'[id] = bill[id]
          BY <1>4, <2>2 DEF IInv
    <3>2. PICK es : es = EntriesOf(journal, BillRef(id)) /\ es = EntriesOf(journal', BillRef(id))
          BY <2>2
    <3>3. \A e : es = {e} => e \in journal'
          BY <3>2 DEF EntriesOf
    <3> QED BY <3>1, <3>2, <3>3 DEF LedgerOf, OneEntry, Live
  <2> QED BY <2>1, <2>2
<1> QED BY <1>2, <1>3, <1>4 DEF IInv

\* A step that writes no table.
LEMMA RequestStep ==
    ASSUME IInv, NEW p \in Procs, NEW r,
           req' = [req EXCEPT ![p] = r],
           RequestShape(r), Carries(r), Knows(r),
           UNCHANGED <<deposit, journal, bill>>,
           disturbed \subseteq disturbed', Overlapping' \subseteq disturbed'
    PROVE  IInv'
<1>1. Knows(r)'
  <2>1. PICK S, D : S = {} /\ D = {}
        OBVIOUS
  <2>2. /\ \A id \in BillIds \ S : bill'[id] = bill[id]
        /\ \A id \in BillIds \cap S : Concerns(r, id) => id \in disturbed
        /\ \A d \in DepositIds \ D : deposit'[d] = deposit[d]
        /\ \A d \in DepositIds \cap D : r.pc \in WritingPcs /\ r.dep = d => d \in disturbed
        BY <2>1
  <2> QED BY <2>2, KnowsKept
<1>2. /\ bill' \in [BillIds -> BillRow \cup {None, Gone}]
      /\ \A id \in BillIds : Live(id)' => RowOK(bill'[id])
      /\ DOMAIN deposit' = DepositIds
      BY DEF IInv, TypeInv, Live
<1>3. PICK S, D : S = {} /\ D = {}
      OBVIOUS
<1>4. /\ \A id \in BillIds \ S :
            /\ bill'[id] = bill[id]
            /\ EntriesOf(journal', BillRef(id)) = EntriesOf(journal, BillRef(id))
      /\ \A id \in BillIds \cap S : LedgerOf(id)' \/ id \in disturbed
      /\ \A id \in BillIds \cap S, q \in Procs \ {p} : Concerns(req[q], id) => id \in disturbed
      /\ \A d \in DepositIds \ D : deposit'[d] = deposit[d]
      /\ \A d \in DepositIds \cap D, q \in Procs \ {p} :
            req[q].pc \in WritingPcs /\ req[q].dep = d => d \in disturbed
      BY <1>3 DEF EntriesOf
<1> QED BY <1>1, <1>2, <1>4, TableStep

\* A table read returns finitely many rows, and counts to a number.
LEMMA BillNumberType == ASSUME IInv, NEW y \in Years PROVE NextNumber(BillRows, y) \in Numbers
<1> DEFINE S == {i \in BillIds : Live(i)}
           f == [i \in S |-> bill[i]]
           T == {row \in BillRows : row.number.year = y}
<1>1. IsFiniteSet(S)
      BY FS_Subset
<1>2. f \in Surjection(S, BillRows)
      BY DEF Surjection, BillRows
<1>3. IsFiniteSet(BillRows)
      BY <1>1, <1>2, FS_Surjection
<1>4. Cardinality(T) \in Nat
      BY <1>3, FS_Subset, FS_CardinalityType
<1> QED BY <1>4 DEF NextNumber, Numbers

----------------------------------------------------------------------------
(* Requests that read *)

LEMMA BillNumberStep ==
    ASSUME IInv, NEW p \in Procs, NEW dto \in CreateDtos, BillNumber(p, dto),
           disturbed' = disturbed \cup Overlapping'
    PROVE  IInv'
<1>1. PICK r : r = [Idle EXCEPT !.pc = "billing", !.dto = dto,
                                !.number = NextNumber(BillRows, dto.year)]
      OBVIOUS
<1>2. r.number \in Numbers
      BY <1>1, BillNumberType DEF Idle
<1>3. RequestShape(r) /\ Carries(r) /\ Knows(r)
      BY <1>1, <1>2 DEF Idle, RequestShape, Carries, Knows, EntriesOf,
         CheckedPcs, PayingPcs, WritingPcs
<1> QED BY <1>1, <1>3, RequestStep DEF BillNumber, Reads

LEMMA EditReadStep ==
    ASSUME IInv, NEW p \in Procs, NEW id \in BillIds, NEW dto,
           NEW pc \in {"updating", "rejecting", "deleting"},
           pc = "updating" => dto \in UpdateDtos, EditRead(p, id, pc, dto),
           disturbed' = disturbed \cup Overlapping'
    PROVE  IInv'
<1>1. PICK r : r = [Idle EXCEPT !.pc = pc, !.id = id, !.row = bill[id], !.dto = dto]
      OBVIOUS
<1>2. bill[id] \in BillRow /\ ~Posted2Ap(bill[id])
      BY DEF EditRead, Editable, Live, IInv, TypeInv
<1>3. RequestShape(r) /\ Carries(r) /\ Knows(r)
      BY <1>1, <1>2 DEF Idle, RequestShape, Carries, Knows, EntriesOf,
         CheckedPcs, PayingPcs, WritingPcs
<1> QED BY <1>1, <1>3, RequestStep DEF EditRead, Reads

LEMMA ApproveReadStep ==
    ASSUME IInv, NEW p \in Procs, NEW id \in BillIds, ApproveRead(p, id),
           disturbed' = disturbed \cup Overlapping'
    PROVE  IInv'
<1>1. PICK r : r = [Idle EXCEPT !.pc = "approving", !.id = id, !.row = bill[id]]
      OBVIOUS
<1>2. bill[id] \in BillRow /\ ~Posted2Ap(bill[id])
      BY DEF ApproveRead, Live, IInv, TypeInv, RowOK
<1>3. RequestShape(r) /\ Carries(r) /\ Knows(r)
      BY <1>1, <1>2 DEF Idle, RequestShape, Carries, Knows, EntriesOf,
         CheckedPcs, PayingPcs, WritingPcs
<1> QED BY <1>1, <1>3, RequestStep DEF ApproveRead, Reads

LEMMA ApproveNumberStep ==
    ASSUME IInv, NEW p \in Procs, NEW y \in Years, ApproveNumber(p, y),
           disturbed' = disturbed \cup Overlapping'
    PROVE  IInv'
<1>1. PICK r : r = [req[p] EXCEPT !.pc = "posting", !.entryNumber = NextNumber(journal, y)]
      OBVIOUS
<1>2. req[p].pc = "approving" /\ RequestShape(req[p]) /\ Carries(req[p]) /\ Knows(req[p])
      BY DEF IInv, TypeInv, ApproveNumber, At
<1>3. /\ RequestShape(r) /\ r.pc = "posting"
      /\ r.id = req[p].id /\ r.row = req[p].row /\ r.own = req[p].own
      BY <1>1, <1>2 DEF RequestShape
<1>4. Carries(r) /\ Knows(r)
      BY <1>2, <1>3 DEF Carries, Knows, CheckedPcs, PayingPcs, WritingPcs
<1>5. req' = [req EXCEPT ![p] = r]
      BY <1>1, <1>2 DEF ApproveNumber, IInv, TypeInv
<1> QED BY <1>3, <1>4, <1>5, RequestStep DEF ApproveNumber, Reads

LEMMA PayBeginStep ==
    ASSUME IInv, NEW p \in Procs, NEW batch \in Batches, PayBegin(p, batch),
           disturbed' = disturbed \cup Overlapping'
    PROVE  IInv'
<1>1. PICK r : r = [Idle EXCEPT !.pc = "paying", !.batch = batch]
      OBVIOUS
<1>2. batch \in Batch /\ batch # <<>>
      BY DEF Batch
<1>3. RequestShape(r) /\ Carries(r) /\ Knows(r)
      BY <1>1, <1>2 DEF Idle, RequestShape, Carries, Knows, EntriesOf,
         CheckedPcs, PayingPcs, WritingPcs
<1> QED BY <1>1, <1>3, RequestStep DEF PayBegin, Reads

\* An unposted bill that this transaction has not posted either is posted first.
LEMMA PayReadStep ==
    ASSUME IInv, NEW p \in Procs, PayRead(p), disturbed' = disturbed \cup Overlapping'
    PROVE  IInv'
<1>1. PICK id : id = Head(req[p].batch).id
      OBVIOUS
<1>2. PICK pc : pc = IF Posted2Ap(bill[id]) \/ PostedByUs(p, id) THEN "summing"
                     ELSE "posting first"
      OBVIOUS
<1>3. PICK r : r = [req[p] EXCEPT !.id = id, !.row = bill[id], !.pc = pc]
      OBVIOUS
<1>4. req[p].pc = "paying" /\ RequestShape(req[p]) /\ Carries(req[p]) /\ Knows(req[p])
      BY DEF IInv, TypeInv, PayRead, At
<1>5. req[p].batch \in Batch /\ req[p].batch # <<>>
      BY <1>4 DEF Carries, PayingPcs
<1>6. id \in BillIds
  <2>1. Head(req[p].batch) \in [id : BillIds, amount : Nat \ {0}]
        BY <1>5, HeadTailProperties DEF Batch
  <2> QED BY <1>1, <2>1
<1>7. bill[id] \in BillRow
      BY <1>1, <1>6 DEF PayRead, Live, IInv, TypeInv
<1>8. /\ RequestShape(r) /\ r.pc = pc /\ r.id = id /\ r.row = bill[id]
      /\ r.own = req[p].own /\ r.batch = req[p].batch
      BY <1>3, <1>4 DEF RequestShape
<1>9. pc = "posting first" =>
         ~Posted2Ap(bill[id]) /\ EntriesOf(req[p].own.entries, BillRef(id)) = {}
      BY <1>2 DEF PostedByUs, EntriesOf
<1>10. pc \in {"summing", "posting first"}
      BY <1>2
<1>11. Carries(r)
      BY <1>5, <1>6, <1>7, <1>8, <1>9, <1>10 DEF Carries, CheckedPcs, PayingPcs, WritingPcs
<1>12. Knows(r)
      BY <1>4, <1>8, <1>9, <1>10 DEF Knows, CheckedPcs, WritingPcs
<1>13. req' = [req EXCEPT ![p] = r]
      BY <1>1, <1>2, <1>3, <1>4 DEF PayRead, IInv, TypeInv
<1> QED BY <1>8, <1>11, <1>12, <1>13, RequestStep DEF PayRead, Reads

\* The entry it makes is the bill's first: the bill, unless met, is not posted.
LEMMA PayPostFirstStep ==
    ASSUME IInv, NEW p \in Procs, NEW y \in Years, PayPostFirst(p, y),
           disturbed' = disturbed \cup Overlapping'
    PROVE  IInv'
<1>1. PICK id, own : id = req[p].id /\ own = req[p].own
      OBVIOUS
<1>2. PICK n : n = NextNumber(Entries(p), y)
      OBVIOUS
<1>3. PICK e : e = NewEntry(n, n, BillRef(id), ApLines(req[p].row))
      OBVIOUS
<1>4. PICK r : r = [req[p] EXCEPT !.pc = "summing", !.own.entries = @ \cup {e}]
      OBVIOUS
<1>5. req[p].pc = "posting first" /\ RequestShape(req[p]) /\ Carries(req[p]) /\ Knows(req[p])
      BY DEF IInv, TypeInv, PayPostFirst, At
<1>6. /\ RequestShape(r) /\ r.pc = "summing" /\ r.id = id
      /\ r.own.entries = own.entries \cup {e} /\ r.batch = req[p].batch
      BY <1>1, <1>4, <1>5 DEF RequestShape
<1>7. e.ref = BillRef(id) /\ e.lines = ApLines(req[p].row)
      BY <1>3 DEF NewEntry
<1>8. /\ id \in BillIds /\ req[p].row \in BillRow /\ EntriesOf(own.entries, BillRef(id)) = {}
      /\ req[p].batch \in Batch /\ req[p].batch # <<>>
      BY <1>1, <1>5 DEF Carries, CheckedPcs, PayingPcs
<1>9. Carries(r)
      BY <1>6, <1>8 DEF Carries, CheckedPcs, PayingPcs, WritingPcs
<1>10. ASSUME NEW b \in BillIds \ disturbed, EntriesOf(r.own.entries, BillRef(b)) # {}
       PROVE  Live(b) /\ ~Posted2Ap(bill[b]) /\ OneEntry(r.own.entries, b)
  <2>1. CASE b = id
    <3>1. bill[id] = req[p].row /\ ~Posted2Ap(bill[id])
          BY <1>1, <1>5, <2>1 DEF Knows, CheckedPcs
    <3>2. Live(id)
          BY <1>8, <3>1 DEF Live
    <3>3. EntriesOf(r.own.entries, BillRef(id)) = {e} /\ e \in r.own.entries
          BY <1>6, <1>7, <1>8 DEF EntriesOf
    <3> QED BY <1>7, <2>1, <3>1, <3>2, <3>3 DEF OneEntry
  <2>2. CASE b # id
    <3>1. EntriesOf(r.own.entries, BillRef(b)) = EntriesOf(own.entries, BillRef(b))
          BY <1>6, <1>7, <2>2 DEF EntriesOf, BillRef
    <3>2. Live(b) /\ ~Posted2Ap(bill[b]) /\ OneEntry(own.entries, b)
          BY <1>1, <1>5, <1>10, <3>1 DEF Knows
    <3> QED BY <1>6, <3>1, <3>2 DEF OneEntry
  <2> QED BY <2>1, <2>2
<1>11. Knows(r)
      BY <1>6, <1>10 DEF Knows, CheckedPcs, WritingPcs
<1>12. req' = [req EXCEPT ![p] = r]
  <2>1. req' = [req EXCEPT ![p].pc = "summing", ![p].own.entries = @ \cup {e}]
        BY <1>1, <1>2, <1>3 DEF PayPostFirst
  <2> QED BY <1>4, <1>5, <2>1 DEF IInv, TypeInv, RequestShape
<1> QED BY <1>6, <1>9, <1>11, <1>12, RequestStep DEF PayPostFirst, Reads

LEMMA PaySumStep ==
    ASSUME IInv, NEW p \in Procs, PaySum(p), disturbed' = disturbed \cup Overlapping'
    PROVE  IInv'
<1>1. PICK r : r = [req[p] EXCEPT !.pc = "numbering"]
      OBVIOUS
<1>2. req[p].pc = "summing" /\ RequestShape(req[p]) /\ Carries(req[p]) /\ Knows(req[p])
      BY DEF IInv, TypeInv, PaySum, At
<1>3. /\ RequestShape(r) /\ r.pc = "numbering" /\ r.own = req[p].own /\ r.batch = req[p].batch
      BY <1>1, <1>2 DEF RequestShape
<1>4. Carries(r) /\ Knows(r)
      BY <1>2, <1>3 DEF Carries, Knows, CheckedPcs, PayingPcs, WritingPcs
<1>5. req' = [req EXCEPT ![p] = r]
      BY <1>1, <1>2 DEF PaySum, IInv, TypeInv
<1> QED BY <1>3, <1>4, <1>5, RequestStep DEF PaySum, Reads

LEMMA PayNumberStep ==
    ASSUME IInv, NEW p \in Procs, NEW y \in Years, PayNumber(p, y),
           disturbed' = disturbed \cup Overlapping'
    PROVE  IInv'
<1>1. PICK n : n = NextNumber(Payments(p), y)
      OBVIOUS
<1>2. PICK pay : pay = [number |-> n, bill |-> req[p].id, amount |-> Head(req[p].batch).amount]
      OBVIOUS
<1>3. PICK r : r = [req[p] EXCEPT !.pc = "settling", !.number = n, !.own.payments = @ \cup {pay}]
      OBVIOUS
<1>4. req[p].pc = "numbering" /\ RequestShape(req[p]) /\ Carries(req[p]) /\ Knows(req[p])
      BY DEF IInv, TypeInv, PayNumber, At
<1>5. /\ RequestShape(r) /\ r.pc = "settling" /\ r.own.entries = req[p].own.entries
      /\ r.batch = req[p].batch
      BY <1>3, <1>4 DEF RequestShape
<1>6. Carries(r) /\ Knows(r)
      BY <1>4, <1>5 DEF Carries, Knows, CheckedPcs, PayingPcs, WritingPcs
<1>7. req' = [req EXCEPT ![p] = r]
  <2>1. req' = [req EXCEPT ![p].pc = "settling", ![p].number = n, ![p].own.payments = @ \cup {pay}]
        BY <1>1, <1>2 DEF PayNumber
  <2> QED BY <1>3, <1>4, <2>1 DEF IInv, TypeInv, RequestShape
<1> QED BY <1>5, <1>6, <1>7, RequestStep DEF PayNumber, Reads

\* The payment's entry is no bill's.
LEMMA PaySettleStep ==
    ASSUME IInv, NEW p \in Procs, NEW y \in Years, NEW bank \in BankAccounts,
           PaySettle(p, y, bank), disturbed' = disturbed \cup Overlapping'
    PROVE  IInv'
<1>1. PICK n, own, rest : /\ n = NextNumber(Entries(p), y) /\ own = req[p].own
                          /\ rest = Tail(req[p].batch)
      OBVIOUS
<1>2. PICK e : e = NewEntry(n, n, PaymentRef(req[p].number),
                            PaymentLines(bank, Head(req[p].batch).amount))
      OBVIOUS
<1>3. PICK pc : pc = IF rest = <<>> THEN "clearing" ELSE "paying"
      OBVIOUS
<1>4. PICK r : r = [req[p] EXCEPT !.pc = pc, !.batch = rest, !.own.entries = @ \cup {e}]
      OBVIOUS
<1>5. req[p].pc = "settling" /\ RequestShape(req[p]) /\ Carries(req[p]) /\ Knows(req[p])
      BY DEF IInv, TypeInv, PaySettle, At
<1>6. /\ RequestShape(r) /\ r.pc = pc /\ r.batch = rest
      /\ r.own.entries = own.entries \cup {e}
      BY <1>1, <1>4, <1>5 DEF RequestShape
<1>7. rest \in Batch
  <2>1. req[p].batch \in Batch /\ req[p].batch # <<>>
        BY <1>5 DEF Carries, PayingPcs
  <2> QED BY <1>1, <2>1, HeadTailProperties DEF Batch
<1>8. Carries(r)
      BY <1>3, <1>6, <1>7 DEF Carries, CheckedPcs, PayingPcs, WritingPcs
<1>9. e.ref[1] = "PAYMENT"
      BY <1>2 DEF NewEntry, PaymentRef
<1>10. \A b : EntriesOf(r.own.entries, BillRef(b)) = EntriesOf(own.entries, BillRef(b))
      BY <1>6, <1>9 DEF EntriesOf, BillRef
<1>11. ASSUME NEW b \in BillIds \ disturbed, EntriesOf(r.own.entries, BillRef(b)) # {}
       PROVE  Live(b) /\ ~Posted2Ap(bill[b]) /\ OneEntry(r.own.entries, b)
  <2>1. EntriesOf(own.entries, BillRef(b)) = EntriesOf(r.own.entries, BillRef(b))
        BY <1>10
  <2>2. Live(b) /\ ~Posted2Ap(bill[b]) /\ OneEntry(own.entries, b)
        BY <1>1, <1>5, <1>11, <2>1 DEF Knows
  <2> QED BY <1>6, <2>1, <2>2 DEF OneEntry
<1>12. Knows(r)
      BY <1>3, <1>6, <1>11 DEF Knows, CheckedPcs, WritingPcs
<1>13. req' = [req EXCEPT ![p] = r]
  <2>1. req' = [req EXCEPT ![p].pc = pc, ![p].batch = rest, ![p].own.entries = @ \cup {e}]
        BY <1>1, <1>2, <1>3 DEF PaySettle
  <2> QED BY <1>4, <1>5, <2>1 DEF IInv, TypeInv, RequestShape
<1> QED BY <1>6, <1>8, <1>12, <1>13, RequestStep DEF PaySettle, Reads

----------------------------------------------------------------------------
(* Commits to one bill *)

\* A request that is through, or goes on with the deposit of a bill.
LEMMA ThenSyncOK ==
    ASSUME NEW id, NEW row, NEW r,
           r = IF row.job = None THEN Idle
               ELSE [Idle EXCEPT !.pc = "syncing", !.id = id,
                        !.cost = [source |-> id, job |-> row.job, year |-> row.year,
                                  amount |-> row.deposit]]
    PROVE  RequestShape(r) /\ Carries(r) /\ Knows(r)'
<1>1. CASE r = Idle
      BY <1>1, IdleOK
<1>2. CASE r # Idle
  <2>1. r.pc = "syncing" /\ RequestShape(r) /\ r.own.entries = {}
        BY <1>2 DEF Idle, RequestShape
  <2> QED BY <2>1 DEF Carries, Knows, EntriesOf, CheckedPcs, PayingPcs, WritingPcs
<1> QED BY <1>1, <1>2

\* A step that writes one bill and no deposit.
LEMMA OneBillTable ==
    ASSUME IInv, NEW p \in Procs, NEW id \in BillIds, NEW r,
           req' = [req EXCEPT ![p] = r], RequestShape(r), Carries(r), Knows(r)',
           bill' \in [BillIds -> BillRow \cup {None, Gone}],
           \A b \in BillIds : Live(b)' => RowOK(bill'[b]),
           deposit' = deposit, DOMAIN deposit = DepositIds,
           disturbed \subseteq disturbed', Overlapping' \subseteq disturbed',
           \A b \in BillIds \ {id} :
               /\ bill'[b] = bill[b]
               /\ EntriesOf(journal', BillRef(b)) = EntriesOf(journal, BillRef(b)),
           LedgerOf(id)' \/ id \in disturbed,
           \A q \in Procs \ {p} : Concerns(req[q], id) => id \in disturbed
    PROVE  IInv'
<1>1. PICK S, D : S = {id} /\ D = {}
      OBVIOUS
<1>2. /\ DOMAIN deposit' = DepositIds
      /\ \A d \in DepositIds \ D : deposit'[d] = deposit[d]
      /\ \A d \in DepositIds \cap D, q \in Procs \ {p} :
            req[q].pc \in WritingPcs /\ req[q].dep = d => d \in disturbed
      BY <1>1
<1>3. /\ \A b \in BillIds \ S :
            /\ bill'[b] = bill[b]
            /\ EntriesOf(journal', BillRef(b)) = EntriesOf(journal, BillRef(b))
      /\ \A b \in BillIds \cap S : LedgerOf(b)' \/ b \in disturbed
      /\ \A b \in BillIds \cap S, q \in Procs \ {p} : Concerns(req[q], b) => b \in disturbed
      BY <1>1
<1> HIDE DepositsAssumption, ExpensesAssumption, RowsAssumption
<1> QED BY <1>2, <1>3, TableStep

LEMMA OneBillStep ==
    ASSUME IInv, NEW p \in Procs, NEW id \in BillIds, NEW new \in BillRow \cup {Gone}, NEW r,
           new \in BillRow => RowOK(new),
           req' = [req EXCEPT ![p] = r], RequestShape(r), Carries(r), Knows(r)',
           bill' = [bill EXCEPT ![id] = new], deposit' = deposit,
           \A b \in BillIds \ {id} :
               EntriesOf(journal', BillRef(b)) = EntriesOf(journal, BillRef(b)),
           Concerns(req[p], id) \/ bill[id] = None,
           id \notin disturbed => LedgerOf(id)',
           disturbed' = disturbed \cup Overlapping'
    PROVE  IInv'
<1>2. ASSUME NEW q \in Procs \ {p}, Concerns(req[q], id) PROVE id \in disturbed
  <2>1. CASE Concerns(req[p], id)
        BY <1>2, <2>1, BillMet
  <2>2. CASE bill[id] = None
    <3>1. Carries(req[q]) /\ Knows(req[q]) /\ ~Live(id)
          BY <2>2 DEF IInv, Live
    <3> QED BY <1>2, <2>2, <3>1 DEF Concerns, Carries, Knows
  <2> QED BY <2>1, <2>2
<1>3. /\ bill' \in [BillIds -> BillRow \cup {None, Gone}] /\ bill'[id] = new
      /\ \A b \in BillIds \ {id} : bill'[b] = bill[b]
      BY DEF IInv, TypeInv
<1>4. \A b \in BillIds : Live(b)' => RowOK(bill'[b])
      BY <1>3 DEF Live, IInv, TypeInv
<1>5. /\ \A b \in BillIds \ {id} :
            /\ bill'[b] = bill[b]
            /\ EntriesOf(journal', BillRef(b)) = EntriesOf(journal, BillRef(b))
      /\ LedgerOf(id)' \/ id \in disturbed
      /\ \A q \in Procs \ {p} : Concerns(req[q], id) => id \in disturbed
      BY <1>2, <1>3
<1>6. DOMAIN deposit = DepositIds
      BY DEF IInv, TypeInv
<1>7. disturbed \subseteq disturbed' /\ Overlapping' \subseteq disturbed'
      OBVIOUS
<1>8. bill' \in [BillIds -> BillRow \cup {None, Gone}]
      BY <1>3
<1> HIDE DepositsAssumption, ExpensesAssumption, RowsAssumption
<1> QED BY <1>4, <1>5, <1>6, <1>7, <1>8, OneBillTable

\* The sums over the items of a bill are amounts.
LEMMA ItemSums ==
    ASSUME NEW dto \in CreateDtos \cup UpdateDtos, dto.items # None
    PROVE  {SumAmounts(dto.items), SumTaxes(dto.items), SumDeposits(dto.items)} \subseteq Int
<1>1. PICK items, S : items = dto.items /\ S = DOMAIN items
      OBVIOUS
<1>2. items \in Seq(Item)
      BY <1>1
<1>3. IsFiniteSet(S)
  <2>1. S = 1..Len(items) /\ Len(items) \in Nat
        BY <1>1, <1>2
  <2> QED BY <2>1, FS_Interval
<1>4. \A i \in S : items[i].amount \in Int /\ Given(items[i].tax, 0) \in Int
                   /\ Given(items[i].deposit, 0) \in Int
  <2> SUFFICES ASSUME NEW i \in S
               PROVE  /\ items[i].amount \in Int /\ Given(items[i].tax, 0) \in Int
                      /\ Given(items[i].deposit, 0) \in Int
      OBVIOUS
  <2>1. items[i] \in Item
        BY <1>1, <1>2
  <2> QED BY <2>1 DEF Given, Item
<1>5. PICK f, g, h : /\ f = [i \in S |-> items[i].amount]
                     /\ g = [i \in S |-> Given(items[i].tax, 0)]
                     /\ h = [i \in S |-> Given(items[i].deposit, 0)]
      OBVIOUS
<1>6. /\ IsFiniteSet(DOMAIN f) /\ \A x \in DOMAIN f : f[x] \in Int
      /\ IsFiniteSet(DOMAIN g) /\ \A x \in DOMAIN g : g[x] \in Int
      /\ IsFiniteSet(DOMAIN h) /\ \A x \in DOMAIN h : h[x] \in Int
      BY <1>3, <1>4, <1>5
<1>7. SumFunction(f) \in Int /\ SumFunction(g) \in Int /\ SumFunction(h) \in Int
      BY <1>6, SumFunctionInt
<1> QED BY <1>1, <1>5, <1>7 DEF SumAmounts, SumTaxes, SumDeposits

LEMMA PercentType == ASSUME NEW a \in Int, NEW r \in Int PROVE Percent(a, r) \in Int
<1>1. a * r + 50 \in Int
      OBVIOUS
<1> QED BY <1>1 DEF Percent

LEMMA CreatedRowType ==
    ASSUME NEW dto \in CreateDtos, NEW n \in Numbers
    PROVE  CreatedRow(dto, n) \in BillRow /\ RowOK(CreatedRow(dto, n))
           /\ CreatedRow(dto, n).status = "PENDING"
<1>1. PICK amount : amount = IF dto.items # <<>> THEN SumAmounts(dto.items) ELSE dto.amount
      OBVIOUS
<1>2. PICK tax : tax = IF dto.items # <<>> THEN SumTaxes(dto.items)
                       ELSE IF dto.tax # None THEN dto.tax
                       ELSE IF dto.taxRate # None THEN Percent(amount, dto.taxRate) ELSE 0
      OBVIOUS
<1>3. PICK dep : dep = IF dto.items # <<>> THEN SumDeposits(dto.items) ELSE Given(dto.deposit, 0)
      OBVIOUS
<1>0. {SumAmounts(dto.items), SumTaxes(dto.items), SumDeposits(dto.items)} \subseteq Int
      BY ItemSums
<1>4. amount \in Int
      BY <1>0, <1>1
<1>5. tax \in Int
  <2>1. dto.taxRate # None => dto.taxRate \in Int
        OBVIOUS
  <2>2. dto.taxRate # None => Percent(amount, dto.taxRate) \in Int
        BY <1>4, <2>1, PercentType
  <2>3. dto.tax # None => dto.tax \in Int
        OBVIOUS
  <2> QED BY <1>0, <1>2, <2>2, <2>3
<1>6. dep \in Int
      BY <1>0, <1>3 DEF Given
<1>7. PICK actual, stated :
        /\ actual = Given(dto.actualCost, amount + tax - dep)
        /\ stated = (dto.actualCost # None)
      OBVIOUS
<1>9. /\ actual \in Int /\ stated \in BOOLEAN
      /\ ~stated => actual = amount + tax - dep
  <2>1. dto.actualCost \in Int \cup {None} /\ amount + tax - dep \in Int
        BY <1>4, <1>5, <1>6
  <2>2. CASE dto.actualCost = None
        BY <1>7, <2>1, <2>2 DEF Given
  <2>3. CASE dto.actualCost # None
        BY <1>7, <2>1, <2>3 DEF Given
  <2> QED BY <2>2, <2>3
<1>8. CreatedRow(dto, n) =
        [number |-> n, year |-> dto.year, job |-> dto.job, account |-> dto.account,
         amount |-> amount, taxRate |-> dto.taxRate, tax |-> tax, deposit |-> dep,
         actual |-> actual, stated |-> stated, items |-> dto.items,
         status |-> "PENDING", approval |-> "PENDING"]
      BY <1>1, <1>2, <1>3, <1>7 DEF CreatedRow, ActualCost
<1> QED BY <1>4, <1>5, <1>6, <1>8, <1>9 DEF BillRow, RowOK, Posted2Ap, Numbers

LEMMA UpdatedType ==
    ASSUME NEW row \in BillRow, NEW read \in BillRow, NEW dto \in UpdateDtos
    PROVE  Updated(row, read, dto) \in BillRow /\ RowOK(Updated(row, read, dto))
           /\ Updated(row, read, dto).status = "PENDING"
<1>1. PICK amount : amount = IF dto.items # None THEN SumAmounts(dto.items)
                             ELSE Given(dto.amount, read.amount)
      OBVIOUS
<1>2. PICK taxRate : taxRate = Given(dto.taxRate, read.taxRate)
      OBVIOUS
<1>3. PICK tax : tax = IF dto.items # None THEN SumTaxes(dto.items)
                       ELSE IF dto.tax # None THEN dto.tax
                       ELSE IF taxRate # None THEN Percent(amount, taxRate) ELSE read.tax
      OBVIOUS
<1>4. PICK dep : dep = IF dto.items # None THEN SumDeposits(dto.items)
                       ELSE Given(dto.deposit, read.deposit)
      OBVIOUS
<1>0. dto.items # None =>
         {SumAmounts(dto.items), SumTaxes(dto.items), SumDeposits(dto.items)} \subseteq Int
      BY ItemSums
<1>5. amount \in Int
      BY <1>0, <1>1 DEF Given, BillRow
<1>6. tax \in Int
  <2>1. taxRate # None => taxRate \in Int
        BY <1>2 DEF Given, BillRow
  <2>2. taxRate # None => Percent(amount, taxRate) \in Int
        BY <1>5, <2>1, PercentType
  <2>3. dto.tax # None => dto.tax \in Int
        OBVIOUS
  <2> QED BY <1>0, <1>3, <2>2, <2>3 DEF BillRow
<1>7. dep \in Int
      BY <1>0, <1>4 DEF Given, BillRow
<1>8. PICK actual, stated :
        /\ actual = Given(dto.actualCost, amount + tax - dep)
        /\ stated = (dto.actualCost # None)
      OBVIOUS
<1>9. PICK year, job, account, rate, items :
        /\ year = Given(dto.year, row.year) /\ job = Given(dto.job, row.job)
        /\ account = Given(dto.account, row.account) /\ rate = Given(dto.taxRate, row.taxRate)
        /\ items = Given(dto.items, row.items)
      OBVIOUS
<1>10. /\ year \in {x.year : x \in CreateDtos \cup UpdateDtos}
       /\ job \in {x.job : x \in CreateDtos \cup UpdateDtos}
       /\ account \in {x.account : x \in CreateDtos \cup UpdateDtos}
       /\ rate \in {x.taxRate : x \in CreateDtos \cup UpdateDtos}
       /\ items \in {x.items : x \in CreateDtos \cup UpdateDtos} \ {None}
       /\ row.number \in Numbers
      BY <1>9 DEF Given, BillRow, Numbers
<1>11. Updated(row, read, dto) =
        [number |-> row.number, year |-> year, job |-> job, account |-> account,
         amount |-> amount, taxRate |-> rate, tax |-> tax, deposit |-> dep,
         actual |-> actual, stated |-> stated, items |-> items,
         status |-> "PENDING", approval |-> "PENDING"]
  <2>1. Updated(row, read, dto) =
        [row EXCEPT !.year = year, !.job = job, !.account = account, !.taxRate = rate,
                    !.amount = amount, !.tax = tax, !.deposit = dep, !.actual = actual,
                    !.stated = stated, !.items = items, !.status = "PENDING", !.approval = "PENDING"]
      BY <1>1, <1>2, <1>3, <1>4, <1>8, <1>9 DEF Updated, ActualCost, BillRow
  <2> QED BY <2>1 DEF BillRow
<1>12. /\ actual \in Int /\ stated \in BOOLEAN
       /\ ~stated => actual = amount + tax - dep
  <2>1. dto.actualCost \in Int \cup {None} /\ amount + tax - dep \in Int
        BY <1>5, <1>6, <1>7
  <2>2. CASE dto.actualCost = None
        BY <1>8, <2>1, <2>2 DEF Given
  <2>3. CASE dto.actualCost # None
        BY <1>8, <2>1, <2>3 DEF Given
  <2> QED BY <2>2, <2>3
<1>13. Updated(row, read, dto) \in BillRow
  <2>1. PICK Ys, Js, As, Rs, Is :
          /\ Ys = {x.year : x \in CreateDtos \cup UpdateDtos}
          /\ Js = {x.job : x \in CreateDtos \cup UpdateDtos}
          /\ As = {x.account : x \in CreateDtos \cup UpdateDtos}
          /\ Rs = {x.taxRate : x \in CreateDtos \cup UpdateDtos}
          /\ Is = {x.items : x \in CreateDtos \cup UpdateDtos} \ {None}
        OBVIOUS
  <2>2. BillRow = [number : Numbers, year : Ys, job : Js, account : As, amount : Int,
                   taxRate : Rs, tax : Int, deposit : Int, actual : Int, stated : BOOLEAN, items : Is,
                   status : {"PENDING", "POSTED"},
                   approval : {"PENDING", "APPROVED", "REJECTED"}]
        BY <2>1 DEF BillRow, Numbers
  <2>3. /\ year \in Ys /\ job \in Js /\ account \in As /\ rate \in Rs /\ items \in Is
        /\ row.number \in Numbers
        BY <1>10, <2>1
  <2> HIDE DepositsAssumption, ExpensesAssumption, RowsAssumption
  <2> QED BY <1>5, <1>6, <1>7, <1>11, <1>12, <2>2, <2>3
<1>14. /\ Updated(row, read, dto).status = "PENDING"
       /\ RowOK(Updated(row, read, dto))
      BY <1>11, <1>12 DEF BillRow, RowOK, Posted2Ap
<1> QED BY <1>13, <1>14

LEMMA ApprovedType ==
    ASSUME NEW row \in BillRow, RowOK(row)
    PROVE  /\ Approved(row) \in BillRow /\ RowOK(Approved(row)) /\ Posted2Ap(Approved(row))
           /\ ApLines(Approved(row)) = ApLines(row)
BY DEF Approved, BillRow, RowOK, Posted2Ap, ApLines

\* What a request at one of its checks knows of the bill it is about to write.
LEMMA CheckedBill ==
    ASSUME IInv, NEW p \in Procs, req[p].pc \in CheckedPcs, Live(req[p].id)
    PROVE  /\ req[p].id \in BillIds /\ req[p].row \in BillRow
           /\ bill[req[p].id] \in BillRow /\ RowOK(bill[req[p].id])
           /\ Concerns(req[p], req[p].id)
           /\ req[p].id \notin disturbed =>
                /\ bill[req[p].id] = req[p].row /\ ~Posted2Ap(bill[req[p].id])
                /\ EntriesOf(journal, BillRef(req[p].id)) = {}
<1>1. Carries(req[p]) /\ Knows(req[p])
      BY DEF IInv
<1>2. req[p].id \in BillIds /\ req[p].row \in BillRow
      BY <1>1 DEF Carries
<1>3. bill[req[p].id] \in BillRow /\ RowOK(bill[req[p].id])
      BY <1>2 DEF Live, IInv, TypeInv
<1>4. Concerns(req[p], req[p].id)
      BY DEF Concerns
<1>5. req[p].id \notin disturbed => bill[req[p].id] = req[p].row /\ ~Posted2Ap(bill[req[p].id])
      BY <1>1 DEF Knows
<1>6. req[p].id \notin disturbed => EntriesOf(journal, BillRef(req[p].id)) = {}
      BY <1>2, <1>5 DEF IInv, LedgerOf
<1> QED BY <1>2, <1>3, <1>4, <1>5, <1>6

LEMMA BillCommitStep ==
    ASSUME IInv, NEW p \in Procs, NEW id \in BillIds, BillCommit(p, id),
           disturbed' = disturbed \cup Overlapping'
    PROVE  IInv'
<1>1. PICK row : row = CreatedRow(req[p].dto, req[p].number)
      OBVIOUS
<1>2. PICK r : r = IF row.job = None THEN Idle
                   ELSE [Idle EXCEPT !.pc = "syncing", !.id = id,
                            !.cost = [source |-> id, job |-> row.job, year |-> row.year,
                                      amount |-> row.deposit]]
      OBVIOUS
<1>3. req[p].dto \in CreateDtos /\ req[p].number \in Numbers
      BY DEF IInv, Carries, BillCommit, At
<1>4. row \in BillRow /\ RowOK(row) /\ row.status = "PENDING"
      BY <1>1, <1>3, CreatedRowType
<1>5. RequestShape(r) /\ Carries(r) /\ Knows(r)'
      BY <1>2, ThenSyncOK
<1>6. /\ bill[id] = None /\ bill' = [bill EXCEPT ![id] = row]
      /\ req' = [req EXCEPT ![p] = r] /\ deposit' = deposit /\ journal' = journal
      BY <1>1, <1>2 DEF BillCommit, ThenSync
<1>7. id \notin disturbed => LedgerOf(id)'
  <2>1. bill'[id] = row
        BY <1>6 DEF IInv, TypeInv
  <2>2. id \notin disturbed => EntriesOf(journal, BillRef(id)) = {}
        BY <1>6 DEF IInv, LedgerOf, Live
  <2> QED BY <1>4, <1>6, <2>1, <2>2 DEF LedgerOf, Posted2Ap
<1> QED BY <1>4, <1>5, <1>6, <1>7, OneBillStep

LEMMA UpdateCommitStep ==
    ASSUME IInv, NEW p \in Procs, UpdateCommit(p), disturbed' = disturbed \cup Overlapping'
    PROVE  IInv'
<1>1. PICK id : id = req[p].id
      OBVIOUS
<1>2. PICK row : row = Updated(bill[id], req[p].row, req[p].dto)
      OBVIOUS
<1>3. PICK r : r = IF row.job = None THEN Idle
                   ELSE [Idle EXCEPT !.pc = "syncing", !.id = id,
                            !.cost = [source |-> id, job |-> row.job, year |-> row.year,
                                      amount |-> row.deposit]]
      OBVIOUS
<1>4. req[p].pc = "updating" /\ req[p].pc \in CheckedPcs /\ Live(req[p].id)
      BY DEF UpdateCommit, At, CheckedPcs
<1>5. req[p].dto \in UpdateDtos
      BY <1>4 DEF IInv, Carries
<1>6. row \in BillRow /\ RowOK(row) /\ row.status = "PENDING" /\ id \in BillIds
  <2>1. bill[id] \in BillRow /\ req[p].row \in BillRow /\ id \in BillIds
        BY <1>1, <1>4, CheckedBill
  <2> HIDE DepositsAssumption, ExpensesAssumption, RowsAssumption
  <2> QED BY <1>2, <1>5, <2>1, UpdatedType
<1>7. RequestShape(r) /\ Carries(r) /\ Knows(r)'
      BY <1>3, ThenSyncOK
<1>8. /\ bill' = [bill EXCEPT ![id] = row]
      /\ req' = [req EXCEPT ![p] = r] /\ deposit' = deposit /\ journal' = journal
      BY <1>1, <1>2, <1>3 DEF UpdateCommit, ThenSync
<1>9. id \notin disturbed => LedgerOf(id)'
  <2>1. bill'[id] = row
        BY <1>6, <1>8 DEF IInv, TypeInv
  <2> QED BY <1>1, <1>4, <1>6, <1>8, <2>1, CheckedBill DEF LedgerOf, Posted2Ap
<1>10. Concerns(req[p], id)
      BY <1>1, <1>4, CheckedBill
<1> QED BY <1>6, <1>7, <1>8, <1>9, <1>10, OneBillStep

LEMMA RejectCommitStep ==
    ASSUME IInv, NEW p \in Procs, RejectCommit(p), disturbed' = disturbed \cup Overlapping'
    PROVE  IInv'
<1>1. PICK id : id = req[p].id
      OBVIOUS
<1>2. PICK row : row = [bill[id] EXCEPT !.status = "PENDING", !.approval = "REJECTED"]
      OBVIOUS
<1>3. PICK r : r = Idle
      OBVIOUS
<1>4. req[p].pc \in CheckedPcs /\ Live(req[p].id)
      BY DEF RejectCommit, At, CheckedPcs
<1>5. /\ id \in BillIds /\ bill[id] \in BillRow /\ RowOK(bill[id]) /\ Concerns(req[p], id)
      /\ id \notin disturbed => EntriesOf(journal, BillRef(id)) = {}
      BY <1>1, <1>4, CheckedBill
<1>6. row \in BillRow /\ RowOK(row) /\ row.status = "PENDING"
      BY <1>2, <1>5 DEF BillRow, RowOK, Posted2Ap
<1>7. RequestShape(r) /\ Carries(r) /\ Knows(r)'
      BY <1>3, IdleOK
<1>8. req' = [req EXCEPT ![p] = r] /\ deposit' = deposit /\ journal' = journal
      BY <1>3 DEF RejectCommit, Done
<1>9. bill' = [bill EXCEPT ![id] = row]
      BY <1>1, <1>2, <1>5 DEF RejectCommit, BillRow, IInv, TypeInv
<1>10. id \notin disturbed => LedgerOf(id)'
  <2>1. bill'[id] = row
        BY <1>5, <1>9 DEF IInv, TypeInv
  <2> QED BY <1>5, <1>6, <1>8, <2>1 DEF LedgerOf, Posted2Ap
<1> QED BY <1>5, <1>6, <1>7, <1>8, <1>9, <1>10, OneBillStep

LEMMA DeleteCommitStep ==
    ASSUME IInv, NEW p \in Procs, DeleteCommit(p), disturbed' = disturbed \cup Overlapping'
    PROVE  IInv'
<1>1. PICK id, new, r : id = req[p].id /\ new = Gone /\ r = Idle
      OBVIOUS
<1>2. req[p].pc \in CheckedPcs /\ Live(req[p].id)
      BY DEF DeleteCommit, At, CheckedPcs
<1>3. /\ id \in BillIds /\ Concerns(req[p], id)
      /\ id \notin disturbed => EntriesOf(journal, BillRef(id)) = {}
      BY <1>1, <1>2, CheckedBill
<1>4. RequestShape(r) /\ Carries(r) /\ Knows(r)'
      BY <1>1, IdleOK
<1>5. /\ req' = [req EXCEPT ![p] = r] /\ deposit' = deposit /\ journal' = journal
      /\ bill' = [bill EXCEPT ![id] = new]
      BY <1>1 DEF DeleteCommit, Done
<1>6. id \notin disturbed => LedgerOf(id)'
  <2>1. bill'[id] = Gone
        BY <1>1, <1>3, <1>5 DEF IInv, TypeInv
  <2> QED BY <1>3, <1>5, <2>1 DEF LedgerOf, Live
<1>7. new \in BillRow \cup {Gone} /\ (new \in BillRow => RowOK(new))
      BY <1>1
<1> QED BY <1>3, <1>4, <1>5, <1>6, <1>7, OneBillStep

LEMMA ApproveCommitStep ==
    ASSUME IInv, NEW p \in Procs, ApproveCommit(p), disturbed' = disturbed \cup Overlapping'
    PROVE  IInv'
<1>1. PICK id : id = req[p].id
      OBVIOUS
<1>2. PICK row, r : row = Approved(bill[id]) /\ r = Idle
      OBVIOUS
<1>3. PICK e : e = NewEntry(req[p].entryNumber, req[p].entryNumber, BillRef(id),
                            ApLines(req[p].row))
      OBVIOUS
<1>4. req[p].pc \in CheckedPcs /\ Live(req[p].id)
      BY DEF ApproveCommit, At, CheckedPcs
<1>5. /\ id \in BillIds /\ bill[id] \in BillRow /\ RowOK(bill[id]) /\ Concerns(req[p], id)
      /\ id \notin disturbed =>
            bill[id] = req[p].row /\ EntriesOf(journal, BillRef(id)) = {}
      BY <1>1, <1>4, CheckedBill
<1>6. /\ row \in BillRow /\ RowOK(row) /\ Posted2Ap(row)
      /\ ApLines(row) = ApLines(bill[id])
      BY <1>2, <1>5, ApprovedType
<1>7. RequestShape(r) /\ Carries(r) /\ Knows(r)'
      BY <1>2, IdleOK
<1>8. /\ req' = [req EXCEPT ![p] = r] /\ deposit' = deposit
      /\ journal' = journal \cup {e} /\ bill' = [bill EXCEPT ![id] = row]
      BY <1>1, <1>2, <1>3 DEF ApproveCommit, Done, Post
<1>9. e.ref = BillRef(id) /\ e.lines = ApLines(req[p].row)
      BY <1>3 DEF NewEntry
<1>10. \A b \in BillIds \ {id} :
          EntriesOf(journal', BillRef(b)) = EntriesOf(journal, BillRef(b))
      BY <1>8, <1>9 DEF EntriesOf, BillRef
<1>11. ASSUME id \notin disturbed PROVE LedgerOf(id)'
  <2>1. bill'[id] = row /\ row # None /\ row # Gone
        BY <1>5, <1>6, <1>8 DEF IInv, TypeInv
  <2>2. EntriesOf(journal', BillRef(id)) = {e} /\ e \in journal'
        BY <1>5, <1>8, <1>9, <1>11 DEF EntriesOf
  <2>3. e.lines = ApLines(row)
        BY <1>5, <1>6, <1>9, <1>11
  <2> QED BY <1>6, <2>1, <2>2, <2>3 DEF LedgerOf, OneEntry, Live
<1> QED BY <1>5, <1>6, <1>7, <1>8, <1>10, <1>11, OneBillStep

\* The bills of the batch that were posted on the way, each with its one entry.
LEMMA PayCommitStep ==
    ASSUME IInv, NEW p \in Procs, PayCommit(p), disturbed' = disturbed \cup Overlapping'
    PROVE  IInv'
<1>1. PICK own, S, D, r : own = req[p].own /\ S = PostedBills(p) /\ D = {} /\ r = Idle
      OBVIOUS
<1>2. S \subseteq BillIds /\ \A b \in BillIds : b \in S <=> EntriesOf(own.entries, BillRef(b)) # {}
      BY <1>1 DEF PostedBills, PostedByUs, EntriesOf
<1>3. /\ bill' = [b \in BillIds |-> IF b \in S THEN Approved(bill[b]) ELSE bill[b]]
      /\ journal' = journal \cup own.entries /\ deposit' = deposit
      /\ req' = [req EXCEPT ![p] = r]
      BY <1>1 DEF PayCommit, Done
<1>4. ASSUME NEW b \in S
      PROVE  /\ bill[b] \in BillRow /\ bill'[b] = Approved(bill[b]) /\ bill'[b] \in BillRow
             /\ RowOK(bill'[b]) /\ Posted2Ap(bill'[b]) /\ ApLines(bill'[b]) = ApLines(bill[b])
  <2>1. bill[b] \in BillRow /\ RowOK(bill[b])
        BY <1>1, <1>2 DEF PayCommit, Live, IInv, TypeInv
  <2>2. bill'[b] = Approved(bill[b])
        BY <1>2, <1>3
  <2> QED BY <2>1, <2>2, ApprovedType
<1>5. /\ RequestShape(r) /\ Carries(r) /\ Knows(r)'
      BY <1>1, IdleOK
<1>6. /\ bill' \in [BillIds -> BillRow \cup {None, Gone}]
      /\ \A b \in BillIds \ S : bill'[b] = bill[b]
      BY <1>3, <1>4 DEF IInv, TypeInv
<1>7. \A b \in BillIds : Live(b)' => RowOK(bill'[b])
      BY <1>4, <1>6 DEF Live, IInv, TypeInv
<1>8. \A b \in BillIds \ S : EntriesOf(journal', BillRef(b)) = EntriesOf(journal, BillRef(b))
      BY <1>2, <1>3 DEF EntriesOf
<1>9. ASSUME NEW b \in BillIds \cap S, b \notin disturbed PROVE LedgerOf(b)'
  <2>1. ~Posted2Ap(bill[b]) /\ OneEntry(own.entries, b)
        BY <1>1, <1>2, <1>9 DEF IInv, Knows
  <2>2. EntriesOf(journal, BillRef(b)) = {}
        BY <1>9, <2>1 DEF IInv, LedgerOf
  <2>3. PICK e \in own.entries : /\ EntriesOf(own.entries, BillRef(b)) = {e}
                                 /\ e.lines = ApLines(bill[b])
        BY <2>1 DEF OneEntry
  <2>4. EntriesOf(journal', BillRef(b)) = {e} /\ e \in journal'
        BY <1>3, <2>2, <2>3 DEF EntriesOf
  <2>5. e.lines = ApLines(bill'[b]) /\ Posted2Ap(bill'[b]) /\ bill'[b] \in BillRow
        BY <1>4, <1>9, <2>3
  <2> QED BY <2>4, <2>5 DEF LedgerOf, OneEntry, Live
<1>10. ASSUME NEW b \in BillIds \cap S, NEW q \in Procs \ {p}, Concerns(req[q], b)
       PROVE  b \in disturbed
  <2>1. Concerns(req[p], b)
        BY <1>1, <1>2 DEF Concerns
  <2> QED BY <1>10, <2>1, BillMet
<1>11. DOMAIN deposit' = DepositIds
       BY <1>3 DEF IInv, TypeInv
<1>12. /\ \A b \in BillIds \ S :
            /\ bill'[b] = bill[b]
            /\ EntriesOf(journal', BillRef(b)) = EntriesOf(journal, BillRef(b))
       /\ \A b \in BillIds \cap S : LedgerOf(b)' \/ b \in disturbed
       /\ \A b \in BillIds \cap S, q \in Procs \ {p} : Concerns(req[q], b) => b \in disturbed
       /\ \A d \in DepositIds \ D : deposit'[d] = deposit[d]
       /\ \A d \in DepositIds \cap D, q \in Procs \ {p} :
            req[q].pc \in WritingPcs /\ req[q].dep = d => d \in disturbed
       BY <1>1, <1>3, <1>6, <1>8, <1>9, <1>10
<1>13. disturbed \subseteq disturbed' /\ Overlapping' \subseteq disturbed'
       OBVIOUS
<1>14. bill' \in [BillIds -> BillRow \cup {None, Gone}]
       BY <1>6
<1>15. req' = [req EXCEPT ![p] = r]
       BY <1>3
<1> HIDE DepositsAssumption, ExpensesAssumption, RowsAssumption
<1> QED BY <1>5, <1>7, <1>11, <1>12, <1>13, <1>14, <1>15, TableStep

----------------------------------------------------------------------------
(* Deposits *)

LEMMA DepositNumberStep ==
    ASSUME IInv, NEW p \in Procs, NEW dto \in DepositDtos, DepositNumber(p, dto),
           UNCHANGED billVars, disturbed' = disturbed \cup Overlapping'
    PROVE  IInv'
<1>1. PICK r : r = [Idle EXCEPT !.pc = "depositing", !.dto = dto,
                                !.number = NextNumber(DepositRows, dto.year)]
      OBVIOUS
<1>2. RequestShape(r) /\ Carries(r) /\ Knows(r)
      BY <1>1 DEF Idle, RequestShape, Carries, Knows, EntriesOf,
         CheckedPcs, PayingPcs, WritingPcs
<1> QED BY <1>1, <1>2, RequestStep DEF DepositNumber, depositVars, billVars

\* A request that moves on to another of the steps before a commit, with what it has.
LEMMA OnwardStep ==
    ASSUME IInv, NEW p \in Procs, NEW r,
           req' = [req EXCEPT ![p] = r], RequestShape(r), r.own = req[p].own,
           r.pc \notin CheckedPcs \cup PayingPcs \cup {"billing"},
           r.pc \in WritingPcs => /\ r.dep \in DepositIds
                                  /\ r.dep \notin disturbed =>
                                       Deposited(r.dep) /\ deposit[r.dep].status # Refunded,
           UNCHANGED <<deposit, journal, bill>>, disturbed' = disturbed \cup Overlapping'
    PROVE  IInv'
<1>1. r.pc # "updating" /\ r.pc # "posting first"
      BY DEF CheckedPcs
<1>2. Carries(r)
  <2>1. r.pc \notin CheckedPcs /\ r.pc \notin PayingPcs /\ r.pc # "billing"
        OBVIOUS
  <2> QED BY <1>1, <2>1 DEF Carries
<1>3. Knows(req[p])
      BY DEF IInv
<1>4. Knows(r)
      BY <1>3 DEF Knows
<1> QED BY <1>2, <1>4, RequestStep

LEMMA DepositEntryNumberStep ==
    ASSUME IInv, NEW p \in Procs, DepositEntryNumber(p),
           UNCHANGED billVars, disturbed' = disturbed \cup Overlapping'
    PROVE  IInv'
<1>1. PICK n : n = NextNumber(journal, req[p].dto.year)
      OBVIOUS
<1>2. PICK r : r = [req[p] EXCEPT !.pc = "booking", !.entryNumber = n]
      OBVIOUS
<1>3. RequestShape(req[p])
      BY DEF IInv, TypeInv
<1>4. RequestShape(r) /\ r.pc = "booking" /\ r.own = req[p].own
      BY <1>2, <1>3 DEF RequestShape
<1>5. req' = [req EXCEPT ![p] = r]
      BY <1>1, <1>2, <1>3 DEF DepositEntryNumber, IInv, TypeInv
<1>6. r.pc \notin CheckedPcs \cup PayingPcs \cup {"billing"} /\ r.pc \notin WritingPcs
      BY <1>4 DEF CheckedPcs, PayingPcs, WritingPcs
<1> QED BY <1>4, <1>5, <1>6, OnwardStep DEF DepositEntryNumber, depositVars, billVars

LEMMA TrackNumberStep ==
    ASSUME IInv, NEW p \in Procs, TrackNumber(p),
           UNCHANGED billVars, disturbed' = disturbed \cup Overlapping'
    PROVE  IInv'
<1>1. PICK n : n = NextNumber(DepositRows, req[p].cost.year)
      OBVIOUS
<1>2. PICK r : r = [req[p] EXCEPT !.pc = "tracked", !.number = n]
      OBVIOUS
<1>3. RequestShape(req[p])
      BY DEF IInv, TypeInv
<1>4. RequestShape(r) /\ r.pc = "tracked" /\ r.own = req[p].own
      BY <1>2, <1>3 DEF RequestShape
<1>5. req' = [req EXCEPT ![p] = r]
      BY <1>1, <1>2, <1>3 DEF TrackNumber, IInv, TypeInv
<1>6. r.pc \notin CheckedPcs \cup PayingPcs \cup {"billing"} /\ r.pc \notin WritingPcs
      BY <1>4 DEF CheckedPcs, PayingPcs, WritingPcs
<1> QED BY <1>4, <1>5, <1>6, OnwardStep DEF TrackNumber, depositVars, billVars

\* A deposit is resized or removed only if it was found, not refunded.
LEMMA SyncFindStep ==
    ASSUME IInv, NEW p \in Procs, SyncFind(p),
           UNCHANGED billVars, disturbed' = disturbed \cup Overlapping'
    PROVE  IInv'
<1>1. PICK found : found = TrackersOf(req[p].cost.source)
      OBVIOUS
<1>2. PICK d, plan :
        /\ d \in IF found = {} THEN {None} ELSE found
        /\ plan = SyncPlan(req[p].cost.amount, d)
        /\ req' = [req EXCEPT ![p] = IF plan = "idle" THEN Idle
                                     ELSE [@ EXCEPT !.pc = plan, !.dep = d]]
      BY <1>1 DEF SyncFind
<1>3. plan = SyncPlan(req[p].cost.amount, d)
      BY <1>2
<1>4. PICK r : r = IF plan = "idle" THEN Idle ELSE [req[p] EXCEPT !.pc = plan, !.dep = d]
      OBVIOUS
<1>5. RequestShape(req[p])
      BY DEF IInv, TypeInv
<1>6. req' = [req EXCEPT ![p] = r]
      BY <1>2, <1>3, <1>4, <1>5 DEF IInv, TypeInv
<1>7. CASE plan = "idle"
      BY <1>4, <1>6, <1>7, IdleOK, RequestStep DEF SyncFind, depositVars, billVars
<1>8. CASE plan # "idle"
  <2>1. RequestShape(r) /\ r.pc = plan /\ r.dep = d /\ r.own = req[p].own
        BY <1>4, <1>5, <1>8 DEF RequestShape
  <2>2. /\ plan \in {"tracking", "resizing", "removing"}
        /\ plan # "tracking" => d # None /\ deposit[d].status # Refunded
        BY <1>3, <1>8 DEF SyncPlan
  <2>3. d # None => d \in DepositIds /\ Deposited(d)
        BY <1>1, <1>2 DEF TrackersOf
  <2>4. /\ r.pc \notin CheckedPcs \cup PayingPcs \cup {"billing"}
        /\ r.pc \in WritingPcs => plan # "tracking"
        BY <2>1, <2>2 DEF CheckedPcs, PayingPcs, WritingPcs
  <2>5. r.pc \in WritingPcs => /\ r.dep \in DepositIds
                               /\ r.dep \notin disturbed =>
                                    Deposited(r.dep) /\ deposit[r.dep].status # Refunded
        BY <2>1, <2>2, <2>3, <2>4
  <2>6. UNCHANGED <<deposit, journal, bill>>
        BY DEF SyncFind, depositVars, billVars
  <2> HIDE DepositsAssumption, ExpensesAssumption, RowsAssumption
  <2> QED BY <1>6, <2>1, <2>4, <2>5, <2>6, OnwardStep
<1> QED BY <1>7, <1>8

LEMMA StatusReadStep ==
    ASSUME IInv, NEW p \in Procs, NEW d \in DepositIds, NEW to, StatusRead(p, d, to),
           UNCHANGED billVars, disturbed' = disturbed \cup Overlapping'
    PROVE  IInv'
<1>1. PICK pc : pc = IF to = Refunded /\ OnTheBooks(deposit[d]) THEN "refunding"
                     ELSE "advancing"
      OBVIOUS
<1>2. PICK r : r = [Idle EXCEPT !.pc = pc, !.dep = d, !.row = deposit[d], !.to = to]
      OBVIOUS
<1>3. RequestShape(r) /\ Carries(r) /\ Knows(r)
  <2>1. /\ RequestShape(r) /\ r.pc \in {"refunding", "advancing"} /\ r.dep = d
        /\ r.own.entries = {}
        BY <1>1, <1>2 DEF Idle, RequestShape
  <2> QED BY <2>1 DEF StatusRead, Carries, Knows, EntriesOf, CheckedPcs, PayingPcs, WritingPcs
<1>4. req' = [req EXCEPT ![p] = r]
      BY <1>1, <1>2 DEF StatusRead
<1> QED BY <1>3, <1>4, RequestStep DEF StatusRead, depositVars, billVars

LEMMA RefundNumberStep ==
    ASSUME IInv, NEW p \in Procs, NEW y \in Years, RefundNumber(p, y),
           UNCHANGED billVars, disturbed' = disturbed \cup Overlapping'
    PROVE  IInv'
<1>1. PICK n : n = NextNumber(journal, y)
      OBVIOUS
<1>2. PICK r : r = [req[p] EXCEPT !.pc = "repaying", !.entryNumber = n]
      OBVIOUS
<1>3. RequestShape(req[p]) /\ Carries(req[p]) /\ Knows(req[p]) /\ req[p].pc = "refunding"
      BY DEF IInv, TypeInv, RefundNumber, At
<1>4. RequestShape(r) /\ r.pc = "repaying" /\ r.own = req[p].own /\ r.dep = req[p].dep
      BY <1>2, <1>3 DEF RequestShape
<1>5. /\ r.dep \in DepositIds
      /\ r.dep \notin disturbed => Deposited(r.dep) /\ deposit[r.dep].status # Refunded
      BY <1>3, <1>4 DEF Carries, Knows, WritingPcs
<1>6. req' = [req EXCEPT ![p] = r]
      BY <1>1, <1>2, <1>3 DEF RefundNumber, IInv, TypeInv
<1>7. r.pc \notin CheckedPcs \cup PayingPcs \cup {"billing"}
      BY <1>4 DEF CheckedPcs, PayingPcs
<1> QED BY <1>4, <1>5, <1>6, <1>7, OnwardStep DEF RefundNumber, depositVars, billVars

\* A commit to one deposit, which the request named or which is new.
LEMMA OneDepositStep ==
    ASSUME IInv, NEW p \in Procs, NEW d \in DepositIds, NEW new,
           Done(p), deposit' = [deposit EXCEPT ![d] = new], bill' = bill,
           req[p].dep = d \/ deposit[d] = None,
           \A b \in BillIds : EntriesOf(journal', BillRef(b)) = EntriesOf(journal, BillRef(b)),
           disturbed' = disturbed \cup Overlapping'
    PROVE  IInv'
<1>1. PICK S, D, r : S = {} /\ D = {d} /\ r = Idle
      OBVIOUS
<1>2. RequestShape(r) /\ Carries(r) /\ Knows(r)' /\ req' = [req EXCEPT ![p] = r]
      BY <1>1, IdleOK DEF Done
<1>3. ASSUME NEW q \in Procs \ {p}, req[q].pc \in WritingPcs, req[q].dep = d
      PROVE  d \in disturbed
  <2>1. CASE req[p].dep = d
        BY <1>3, <2>1, DepositMet
  <2>2. CASE deposit[d] = None
    <3>1. Knows(req[q]) /\ ~Deposited(d)
          BY <2>2 DEF IInv, Deposited
    <3> QED BY <1>3, <3>1 DEF Knows
  <2> QED BY <2>1, <2>2
<1>4. /\ bill' \in [BillIds -> BillRow \cup {None, Gone}]
      /\ \A b \in BillIds : Live(b)' => RowOK(bill'[b])
      /\ DOMAIN deposit' = DepositIds
      BY DEF IInv, TypeInv, Live
<1>5. /\ \A b \in BillIds \ S :
            /\ bill'[b] = bill[b]
            /\ EntriesOf(journal', BillRef(b)) = EntriesOf(journal, BillRef(b))
      /\ \A b \in BillIds \cap S : LedgerOf(b)' \/ b \in disturbed
      /\ \A b \in BillIds \cap S, q \in Procs \ {p} : Concerns(req[q], b) => b \in disturbed
      /\ \A x \in DepositIds \ D : deposit'[x] = deposit[x]
      /\ \A x \in DepositIds \cap D, q \in Procs \ {p} :
            req[q].pc \in WritingPcs /\ req[q].dep = x => x \in disturbed
      BY <1>1, <1>3 DEF IInv, TypeInv
<1>6. disturbed \subseteq disturbed' /\ Overlapping' \subseteq disturbed'
      OBVIOUS
<1> HIDE DepositsAssumption, ExpensesAssumption, RowsAssumption
<1> QED BY <1>2, <1>4, <1>5, <1>6, TableStep

\* Which of the deposit's steps write the table, and what.
DepositWritten(p, d, new) ==
    /\ deposit' = [deposit EXCEPT ![d] = new]
    /\ Done(p)
    /\ \/ deposit[d] = None
       \/ req[p].dep = d /\ req[p].pc \in WritingPcs
    /\ \A b : EntriesOf(journal', BillRef(b)) = EntriesOf(journal, BillRef(b))

LEMMA DepositCommitWrites ==
    ASSUME NEW p, NEW d, DepositCommit(p, d)
    PROVE  \E new : DepositWritten(p, d, new)
<1>1. PICK new, lines :
        /\ deposit' = [deposit EXCEPT ![d] = new]
        /\ Post(req[p].entryNumber, DepositRef(d), lines)
      BY DEF DepositCommit
<1>2. PICK e : e = NewEntry(req[p].entryNumber, req[p].entryNumber, DepositRef(d), lines)
      OBVIOUS
<1>3. journal' = journal \cup {e} /\ e.ref[1] = "DEPOSIT"
      BY <1>1, <1>2 DEF Post, NewEntry, DepositRef
<1>4. \A b : EntriesOf(journal', BillRef(b)) = EntriesOf(journal, BillRef(b))
      BY <1>3 DEF EntriesOf, BillRef
<1> QED BY <1>1, <1>4 DEF DepositWritten, DepositCommit

LEMMA RefundCommitWrites ==
    ASSUME NEW p, RefundCommit(p)
    PROVE  \E new : DepositWritten(p, req[p].dep, new)
<1>1. PICK new, lines, d :
        /\ d = req[p].dep /\ deposit' = [deposit EXCEPT ![d] = new]
        /\ Post(req[p].entryNumber, DepositRef(d), lines)
      BY DEF RefundCommit
<1>2. PICK e : e = NewEntry(req[p].entryNumber, req[p].entryNumber, DepositRef(d), lines)
      OBVIOUS
<1>3. journal' = journal \cup {e} /\ e.ref[1] = "DEPOSIT"
      BY <1>1, <1>2 DEF Post, NewEntry, DepositRef
<1>4. \A b : EntriesOf(journal', BillRef(b)) = EntriesOf(journal, BillRef(b))
      BY <1>3 DEF EntriesOf, BillRef
<1> QED BY <1>1, <1>4 DEF DepositWritten, RefundCommit, At, WritingPcs

LEMMA OtherDepositWrites ==
    ASSUME NEW p, NEW d,
           \/ TrackCommit(p, d)
           \/ d = req[p].dep /\ (ResizeCommit(p) \/ RemoveCommit(p) \/ AdvanceCommit(p))
    PROVE  \E new : DepositWritten(p, d, new)
<1>1. CASE TrackCommit(p, d)
      BY <1>1 DEF TrackCommit, DepositWritten, EntriesOf
<1>2. CASE d = req[p].dep /\ ResizeCommit(p)
      BY <1>2 DEF ResizeCommit, At, WritingPcs, DepositWritten, EntriesOf
<1>3. CASE d = req[p].dep /\ RemoveCommit(p)
      BY <1>3 DEF RemoveCommit, At, WritingPcs, DepositWritten, EntriesOf
<1>4. CASE d = req[p].dep /\ AdvanceCommit(p)
      BY <1>4 DEF AdvanceCommit, At, WritingPcs, DepositWritten, EntriesOf
<1> QED BY <1>1, <1>2, <1>3, <1>4

\* A step of a deposit request reads, or writes one deposit.
LEMMA DepositCases ==
    ASSUME IInv, NEW p \in Procs, NEW y \in Years, DepositStep(p, y)
    PROVE  \/ deposit' = deposit
           \/ \E d \in DepositIds : \E new : DepositWritten(p, d, new)
<1> DEFINE Writes == \E d \in DepositIds : \E new : DepositWritten(p, d, new)
<1>1. Carries(req[p])
      BY DEF IInv
<1>2. ASSUME NEW d \in DepositIds, DepositCommit(p, d) PROVE Writes
      BY <1>2, DepositCommitWrites
<1>3. ASSUME NEW d \in DepositIds, TrackCommit(p, d) PROVE Writes
      BY <1>3, OtherDepositWrites
<1>4. ASSUME ResizeCommit(p) \/ RemoveCommit(p) \/ AdvanceCommit(p) PROVE Writes
  <2>1. req[p].dep \in DepositIds
        BY <1>1, <1>4 DEF ResizeCommit, RemoveCommit, AdvanceCommit, At, Carries, WritingPcs
  <2> QED BY <1>4, <2>1, OtherDepositWrites
<1>5. ASSUME RefundCommit(p) PROVE Writes
  <2>1. req[p].dep \in DepositIds
        BY <1>1, <1>5 DEF RefundCommit, At, Carries, WritingPcs
  <2> QED BY <1>5, <2>1, RefundCommitWrites
<1> HIDE DEF Writes
<1>6. ASSUME NEW dto \in DepositDtos, DepositNumber(p, dto) PROVE deposit' = deposit
      BY <1>6 DEF DepositNumber, depositVars
<1>7. ASSUME NEW d \in DepositIds, NEW to, StatusRead(p, d, to) PROVE deposit' = deposit
      BY <1>7 DEF StatusRead, depositVars
<1>8. ASSUME DepositEntryNumber(p) \/ SyncFind(p) \/ TrackNumber(p) \/ RefundNumber(p, y)
      PROVE  deposit' = deposit
      BY <1>8 DEF DepositEntryNumber, SyncFind, TrackNumber, RefundNumber, depositVars
<1>9. deposit' = deposit \/ Writes
      BY <1>2, <1>3, <1>4, <1>5, <1>6, <1>7, <1>8 DEF DepositStep
<1> QED BY <1>9 DEF Writes

\* A bill request leaves the deposits to syncForCostLine.
LEMMA BillStepSparesDeposits ==
    ASSUME NEW p, NEW y, BillStep(p, y) PROVE deposit' = deposit
<1>1. CASE \/ UpdateCommit(p) \/ RejectCommit(p) \/ DeleteCommit(p) \/ ApproveCommit(p)
           \/ PayCommit(p)
      BY <1>1 DEF UpdateCommit, RejectCommit, DeleteCommit, ApproveCommit, PayCommit
<1>2. CASE ApproveNumber(p, y) \/ PayPostFirst(p, y) \/ PayNumber(p, y) \/ PayRead(p) \/ PaySum(p)
      BY <1>2 DEF ApproveNumber, PayPostFirst, PayNumber, PayRead, PaySum, Reads
<1>3. ASSUME NEW dto, BillNumber(p, dto) PROVE deposit' = deposit
      BY <1>3 DEF BillNumber, Reads
<1>4. ASSUME NEW id, BillCommit(p, id) PROVE deposit' = deposit
      BY <1>4 DEF BillCommit
<1>5. ASSUME NEW id, NEW pc, NEW dto, EditRead(p, id, pc, dto) PROVE deposit' = deposit
      BY <1>5 DEF EditRead, Reads
<1>6. ASSUME NEW id, ApproveRead(p, id) PROVE deposit' = deposit
      BY <1>6 DEF ApproveRead, Reads
<1>7. ASSUME NEW batch, PayBegin(p, batch) PROVE deposit' = deposit
      BY <1>7 DEF PayBegin, Reads
<1>8. ASSUME NEW bank, PaySettle(p, y, bank) PROVE deposit' = deposit
      BY <1>8 DEF PaySettle, Reads
<1> QED BY <1>1, <1>2, <1>3, <1>4, <1>5, <1>6, <1>7, <1>8 DEF BillStep

LEMMA DepositStepKeeps ==
    ASSUME IInv, NEW p \in Procs, NEW y \in Years, DepositStep(p, y), UNCHANGED billVars,
           disturbed' = disturbed \cup Overlapping'
    PROVE  IInv'
<1>1. ASSUME NEW d \in DepositIds, NEW new, DepositWritten(p, d, new) PROVE IInv'
  <2>1. /\ bill' = bill /\ Done(p) /\ deposit' = [deposit EXCEPT ![d] = new]
        /\ req[p].dep = d \/ deposit[d] = None
        /\ \A b \in BillIds : EntriesOf(journal', BillRef(b)) = EntriesOf(journal, BillRef(b))
        BY <1>1 DEF billVars, DepositWritten
  <2> QED BY <2>1, OneDepositStep
<1>2. Carries(req[p])
      BY DEF IInv
<1>3. ASSUME NEW d \in DepositIds, DepositCommit(p, d) PROVE IInv'
      BY <1>1, <1>3, DepositCommitWrites
<1>4. ASSUME NEW d \in DepositIds, TrackCommit(p, d) PROVE IInv'
      BY <1>1, <1>4, OtherDepositWrites
<1>5. CASE ResizeCommit(p) \/ RemoveCommit(p) \/ AdvanceCommit(p)
  <2>1. req[p].dep \in DepositIds
        BY <1>2, <1>5 DEF ResizeCommit, RemoveCommit, AdvanceCommit, At, Carries, WritingPcs
  <2> QED BY <1>1, <1>5, <2>1, OtherDepositWrites
<1>6. CASE RefundCommit(p)
  <2>1. req[p].dep \in DepositIds
        BY <1>2, <1>6 DEF RefundCommit, At, Carries, WritingPcs
  <2> QED BY <1>1, <1>6, <2>1, RefundCommitWrites
<1>7. ASSUME NEW dto \in DepositDtos, DepositNumber(p, dto) PROVE IInv'
      BY <1>7, DepositNumberStep
<1>8. CASE DepositEntryNumber(p)
      BY <1>8, DepositEntryNumberStep
<1>9. CASE SyncFind(p)
      BY <1>9, SyncFindStep
<1>10. CASE TrackNumber(p)
      BY <1>10, TrackNumberStep
<1>11. CASE RefundNumber(p, y)
      BY <1>11, RefundNumberStep
<1>12. ASSUME NEW d \in DepositIds, NEW to, StatusRead(p, d, to) PROVE IInv'
      BY <1>12, StatusReadStep
<1> QED BY <1>3, <1>4, <1>5, <1>6, <1>7, <1>8, <1>9, <1>10, <1>11, <1>12 DEF DepositStep

----------------------------------------------------------------------------
(* The invariant *)

\* Dropping a request ends what it had met, and starts nothing.
LEMMA AbortStep ==
    ASSUME IInv, NEW p \in Procs, Abort(p), disturbed' = disturbed \cup CutOff(p)
    PROVE  IInv'
<1>1. /\ req' = [req EXCEPT ![p] = Idle] /\ DOMAIN req = Procs
      /\ UNCHANGED <<deposit, journal, bill>>
      BY DEF Abort, Done, Reads, IInv, TypeInv
<1>2. Touched(p)' = {}
  <2>1. req'[p] = Idle
        BY <1>1
  <2>2. /\ Idle.id = None /\ Idle.dep = None
        /\ Idle.own.entries = {} /\ Idle.own.payments = {}
        BY DEF Idle
  <2>3. PostedBills(p)' = {}
        BY <2>1, <2>2 DEF PostedBills, PostedByUs
  <2> QED BY <2>1, <2>2, <2>3 DEF Touched
<1>3. \A q \in Procs \ {p} : Touched(q)' = Touched(q)
  <2>1. \A q \in Procs \ {p} : req'[q] = req[q]
        BY <1>1
  <2> QED BY <1>1, <2>1 DEF Touched, PostedBills, PostedByUs, TrackersOf, Deposited
<1>4. Overlapping' \subseteq Overlapping
      BY <1>2, <1>3 DEF Overlapping
<1>5. disturbed \subseteq disturbed' /\ Overlapping' \subseteq disturbed'
      BY <1>4 DEF IInv
<1>6. RequestShape(Idle) /\ Carries(Idle) /\ Knows(Idle)
      BY IdleOK
<1> QED BY <1>1, <1>5, <1>6, RequestStep

LEMMA BillStepKeeps ==
    ASSUME IInv, NEW p \in Procs, NEW y \in Years, BillStep(p, y),
           disturbed' = disturbed \cup Overlapping'
    PROVE  IInv'
<1>1. ASSUME NEW dto \in CreateDtos, BillNumber(p, dto) PROVE IInv'
      BY <1>1, BillNumberStep
<1>2. ASSUME NEW id \in BillIds, BillCommit(p, id) PROVE IInv'
      BY <1>2, BillCommitStep
<1>3. ASSUME NEW id \in BillIds, NEW dto \in UpdateDtos, EditRead(p, id, "updating", dto)
      PROVE  IInv'
      BY <1>3, EditReadStep
<1>4. ASSUME NEW id \in BillIds, EditRead(p, id, "rejecting", None) PROVE IInv'
      BY <1>4, EditReadStep
<1>5. ASSUME NEW id \in BillIds, EditRead(p, id, "deleting", None) PROVE IInv'
      BY <1>5, EditReadStep
<1>6. CASE UpdateCommit(p)
      BY <1>6, UpdateCommitStep
<1>7. CASE RejectCommit(p)
      BY <1>7, RejectCommitStep
<1>8. CASE DeleteCommit(p)
      BY <1>8, DeleteCommitStep
<1>9. ASSUME NEW id \in BillIds, ApproveRead(p, id) PROVE IInv'
      BY <1>9, ApproveReadStep
<1>10. CASE ApproveNumber(p, y)
      BY <1>10, ApproveNumberStep
<1>11. CASE ApproveCommit(p)
      BY <1>11, ApproveCommitStep
<1>12. ASSUME NEW batch \in Batches, PayBegin(p, batch) PROVE IInv'
      BY <1>12, PayBeginStep
<1>13. CASE PayRead(p)
      BY <1>13, PayReadStep
<1>14. CASE PayPostFirst(p, y)
      BY <1>14, PayPostFirstStep
<1>15. CASE PaySum(p)
      BY <1>15, PaySumStep
<1>16. CASE PayNumber(p, y)
      BY <1>16, PayNumberStep
<1>17. ASSUME NEW bank \in BankAccounts, PaySettle(p, y, bank) PROVE IInv'
      BY <1>17, PaySettleStep
<1>18. CASE PayCommit(p)
      BY <1>18, PayCommitStep
<1> QED BY <1>1, <1>2, <1>3, <1>4, <1>5, <1>6, <1>7, <1>8, <1>9, <1>10, <1>11, <1>12,
           <1>13, <1>14, <1>15, <1>16, <1>17, <1>18 DEF BillStep

LEMMA InitOK == Init => IInv
<1> SUFFICES ASSUME Init PROVE IInv
    OBVIOUS
<1>1. \A p \in Procs : req[p] = Idle
      BY DEF Init
<1>2. \A id \in BillIds : ~Live(id) /\ LedgerOf(id)
      BY DEF Init, Live, LedgerOf, EntriesOf
<1>3. TypeInv
      BY <1>1, <1>2, IdleOK DEF Init, TypeInv
<1>4. \A p \in Procs : Touched(p) = {}
  <2>1. /\ Idle.id = None /\ Idle.dep = None
        /\ Idle.own.entries = {} /\ Idle.own.payments = {}
        BY DEF Idle
  <2> QED BY <1>1, <2>1 DEF Touched, PostedBills, PostedByUs
<1>5. Overlapping = {}
      BY <1>4 DEF Overlapping
<1>6. \A p \in Procs : Carries(req[p]) /\ Knows(req[p])
      BY <1>1, IdleOK
<1> QED BY <1>2, <1>3, <1>5, <1>6 DEF IInv

LEMMA NextKeeps == IInv /\ [Next]_vars => IInv'
<1> SUFFICES ASSUME IInv, [Next]_vars PROVE IInv'
    OBVIOUS
<1>1. ASSUME NEW p \in Procs, NEW y \in Years, BillStep(p, y),
             disturbed' = disturbed \cup Overlapping'
      PROVE  IInv'
      BY <1>1, BillStepKeeps
<1>2. ASSUME NEW p \in Procs, NEW y \in Years, DepositStep(p, y), UNCHANGED billVars,
             disturbed' = disturbed \cup Overlapping'
      PROVE  IInv'
      BY <1>2, DepositStepKeeps
<1>3. ASSUME NEW p \in Procs, Abort(p), disturbed' = disturbed \cup CutOff(p) PROVE IInv'
      BY <1>3, AbortStep
<1>4. CASE UNCHANGED vars
  <2>1. UNCHANGED <<deposit, journal, bill, req, disturbed>>
        BY <1>4 DEF vars
  <2>2. TypeInv'
        BY <2>1 DEF IInv, TypeInv, Live
  <2>3. \A q \in Procs : Touched(q)' = Touched(q)
        BY <2>1 DEF Touched, PostedBills, PostedByUs, TrackersOf, Deposited
  <2>4. Overlapping' \subseteq disturbed'
        BY <2>1, <2>3 DEF IInv, Overlapping
  <2>5. ASSUME NEW q \in Procs PROVE Carries(req[q])' /\ Knows(req[q])'
        BY <2>1 DEF IInv, Carries, Knows, Live, OneEntry, Deposited
  <2>6. ASSUME NEW id \in BillIds \ disturbed' PROVE LedgerOf(id)'
        BY <2>1, <2>6 DEF IInv, LedgerOf, OneEntry, Live
  <2> QED BY <2>2, <2>4, <2>5, <2>6 DEF IInv
<1> QED BY <1>1, <1>2, <1>3, <1>4 DEF Next

LEMMA AlwaysIInv == Spec => []IInv
BY InitOK, NextKeeps, PTL DEF Spec

----------------------------------------------------------------------------
(* Theorems *)

\* A bill that requests served one after the other is in the ledger exactly
\* once when it is posted, with its own lines, and not at all otherwise,
\* however approval and batches of payments share the posting.
THEOREM LedgerHoldsEachBill == Spec => []BillMatchesLedger
<1>1. IInv => BillMatchesLedger
      BY DEF IInv, BillMatchesLedger, Calm, LedgerOf, OneEntry
<1> QED BY <1>1, AlwaysIInv, PTL

\* A refunded deposit is never changed again, by a status move or by the cost
\* line behind it, unless two requests worked on it at once.
THEOREM RefundedStaysLocked == Spec => RefundedIsLocked
<1> DEFINE Locked == \A d \in DepositIds :
        Deposited(d) /\ deposit[d].status = Refunded /\ deposit'[d] # deposit[d]
          => d \in disturbed
<1>1. IInv /\ [Next]_vars => Locked
  <2> SUFFICES ASSUME IInv, [Next]_vars, NEW x \in DepositIds, Deposited(x),
                      deposit[x].status = Refunded, deposit'[x] # deposit[x]
               PROVE  x \in disturbed
      OBVIOUS
  <2>1. PICK p \in Procs, y \in Years : DepositStep(p, y)
    <3>1. ASSUME NEW p \in Procs, Abort(p) PROVE FALSE
          BY <3>1 DEF Abort, Reads
    <3>2. ~UNCHANGED vars
          BY DEF vars
    <3> QED BY <3>1, <3>2, BillStepSparesDeposits DEF Next
  <2>2. PICK d \in DepositIds : \E new : DepositWritten(p, d, new)
        BY <2>1, DepositCases
  <2>3. x = d
        BY <2>2 DEF DepositWritten
  <2>4. req[p].dep = d /\ req[p].pc \in WritingPcs
        BY <2>2, <2>3 DEF DepositWritten, Deposited
  <2> QED BY <2>3, <2>4 DEF IInv, Knows
<1> QED BY <1>1, AlwaysIInv, PTL DEF Spec, RefundedIsLocked

----------------------------------------------------------------------------
(* Payments: a second invariant, kept by every step on top of the first *)

PaysOK(pays) ==
    /\ IsFiniteSet(pays)
    /\ \A pay \in pays : pay.bill \in BillIds /\ pay.amount \in Nat \ {0}

\* Request r has posted the bill, in its own transaction.
BooksBill(r, id) == EntriesOf(r.own.entries, BillRef(id)) # {}

\* PaidWithinAmount, of one bill.
PaidOK(id) ==
    PaymentsOf(payments, id) # {} =>
        Live(id) /\ Posted2Ap(bill[id]) /\ Paid(payments, id) <= bill[id].amount

SummedPcs == {"summing", "numbering"}

Payable(r, id) == Live(id) /\ (Posted2Ap(bill[id]) \/ BooksBill(r, id))

\* What a request knows of a bill it pays: with its own payments, too, the bill
\* is paid within its amount; the amount it read is the bill's; and once it has
\* summed, one more payment fits.
KnowsPaid(r, id) ==
    /\ PaymentsOf(r.own.payments, id) # {} =>
          Payable(r, id) /\ Paid(payments \cup r.own.payments, id) <= bill[id].amount
    /\ r.pc \in SummedPcs /\ r.id = id =>
          Payable(r, id) /\ r.row.amount = bill[id].amount
    /\ r.pc = "numbering" /\ r.id = id =>
          Paid(payments \cup r.own.payments, id) + Head(r.batch).amount <= bill[id].amount

CarriesPays(r) == PaysOK(r.own.payments) /\ (r.pc \in SummedPcs => r.id \in BillIds)

PayInv ==
    /\ PaysOK(payments)
    /\ \A p \in Procs : CarriesPays(req[p])
    /\ \A id \in BillIds \ disturbed : PaidOK(id) /\ \A p \in Procs : KnowsPaid(req[p], id)

\* The bills request r has summed or paid.
Pays(r, id) == (r.pc \in SummedPcs /\ r.id = id) \/ PaymentsOf(r.own.payments, id) # {}

\* A finite set of payments sums to a number, which is zero if there is none.
LEMMA PaidType ==
    ASSUME NEW pays, PaysOK(pays), NEW id
    PROVE  Paid(pays, id) \in Nat /\ (PaymentsOf(pays, id) = {} => Paid(pays, id) = 0)
<1>1. PICK S : S = PaymentsOf(pays, id)
      OBVIOUS
<1>2. PICK f : f = [pay \in S |-> pay.amount]
      OBVIOUS
<1>3. IsFiniteSet(S) /\ \A pay \in S : pay.amount \in Nat
      BY <1>1, FS_Subset DEF PaymentsOf, PaysOK
<1>4. IsFiniteSet(DOMAIN f) /\ \A pay \in DOMAIN f : f[pay] \in Nat
      BY <1>2, <1>3
<1>5. SumFunction(f) \in Nat /\ ((\A pay \in DOMAIN f : f[pay] = 0) => SumFunction(f) = 0)
      BY <1>4, SumFunctionNat
<1>6. Paid(pays, id) = SumFunction(f)
      BY <1>1, <1>2 DEF Paid
<1> QED BY <1>1, <1>2, <1>5, <1>6

\* What was paid on a bill is a matter of the payments made on it.
LEMMA PaidOfSame ==
    ASSUME NEW pays, NEW others, NEW id, PaymentsOf(pays, id) = PaymentsOf(others, id)
    PROVE  Paid(pays, id) = Paid(others, id)
BY DEF Paid

\* One payment more.
LEMMA PaidAdds ==
    ASSUME NEW pays, PaysOK(pays), NEW pay, pay \notin pays, pay.amount \in Nat
    PROVE  Paid(pays \cup {pay}, pay.bill) = Paid(pays, pay.bill) + pay.amount
<1>1. PICK id, S, R : id = pay.bill /\ S = PaymentsOf(pays, id) /\ R = PaymentsOf(pays \cup {pay}, id)
      OBVIOUS
<1>2. R = S \cup {pay} /\ pay \notin S /\ IsFiniteSet(S)
      BY <1>1, FS_Subset DEF PaymentsOf, PaysOK
<1>3. PICK f, g : f = [x \in S |-> x.amount] /\ g = [x \in R |-> x.amount]
      OBVIOUS
<1>4. \A x \in S : x.amount \in Nat
      BY <1>1 DEF PaymentsOf, PaysOK
<1>5. /\ DOMAIN f = S /\ IsFiniteSet(DOMAIN f) /\ pay \notin DOMAIN f
      /\ DOMAIN g = DOMAIN f \cup {pay}
      BY <1>2, <1>3
<1>6. /\ \A x \in DOMAIN g : g[x] \in Int
      /\ \A x \in DOMAIN f : g[x] = f[x]
      /\ g[pay] = pay.amount
      BY <1>2, <1>3, <1>4
<1>7. SumFunction(g) = SumFunction(f) + g[pay]
  <2> HIDE DepositsAssumption, ExpensesAssumption, RowsAssumption
  <2> QED BY <1>5, <1>6, SumGrows
<1> QED BY <1>1, <1>3, <1>6, <1>7 DEF Paid

\* Of two requests that touch one bill, the history tells.
LEMMA TouchedMet ==
    ASSUME IInv, NEW p \in Procs, NEW q \in Procs, p # q, NEW id \in BillIds,
           id \in Touched(p), id \in Touched(q)
    PROVE  id \in disturbed
<1>1. id \in Overlapping
      BY DEF Overlapping
<1> QED BY <1>1 DEF IInv

\* A request touches the bills it pays.
LEMMA PaysTouches ==
    ASSUME NEW p, NEW id \in BillIds, Pays(req[p], id)
    PROVE  id \in Touched(p)
BY DEF Pays, Touched, PaymentsOf

LEMMA KnowsPaidKept ==
    ASSUME NEW r, NEW id, KnowsPaid(r, id), bill'[id] = bill[id],
           PaymentsOf(payments', id) = PaymentsOf(payments, id)
    PROVE  KnowsPaid(r, id)'
<1>1. PICK new, old, own : new = payments' /\ old = payments /\ own = r.own.payments
      OBVIOUS
<1>2. PaymentsOf(new, id) = PaymentsOf(old, id)
      BY <1>1
<1>3. Paid(new \cup own, id) = Paid(old \cup own, id)
  <2>1. PaymentsOf(new \cup own, id) = PaymentsOf(old \cup own, id)
        BY <1>2 DEF PaymentsOf
  <2> QED BY <2>1 DEF Paid
<1> QED BY <1>1, <1>3 DEF KnowsPaid, Payable, Live

\* A step of request p that writes bills of S, or payments on them, only.
LEMMA PayTableStep ==
    ASSUME IInv, PayInv, NEW p \in Procs, NEW r, NEW S,
           req' = [req EXCEPT ![p] = r], CarriesPays(r), PaysOK(payments'),
           \A id \in BillIds \ disturbed' : KnowsPaid(r, id)',
           disturbed \subseteq disturbed',
           \A id \in BillIds \ S :
               bill'[id] = bill[id] /\ PaymentsOf(payments', id) = PaymentsOf(payments, id),
           \A id \in BillIds \cap S : PaidOK(id)' \/ id \in disturbed,
           \A id \in BillIds \cap S, q \in Procs \ {p} : Pays(req[q], id) => id \in disturbed
    PROVE  PayInv'
<1>1. req'[p] = r /\ \A q \in Procs \ {p} : req'[q] = req[q]
      BY DEF IInv, TypeInv
<1>2. ASSUME NEW q \in Procs PROVE CarriesPays(req'[q])
      BY <1>1 DEF PayInv
<1>3. ASSUME NEW id \in BillIds, id \notin disturbed' PROVE PaidOK(id)'
  <2>1. CASE id \in S
        BY <1>3, <2>1
  <2>2. CASE id \notin S
    <3>1. PaidOK(id) /\ bill'[id] = bill[id] /\ PaymentsOf(payments', id) = PaymentsOf(payments, id)
          BY <1>3, <2>2 DEF PayInv
    <3>2. Paid(payments', id) = Paid(payments, id)
          BY <3>1, PaidOfSame
    <3> QED BY <3>1, <3>2 DEF PaidOK, Live
  <2> QED BY <2>1, <2>2
<1>4. ASSUME NEW id \in BillIds, id \notin disturbed', NEW q \in Procs \ {p}
      PROVE  KnowsPaid(req[q], id)'
  <2>1. PICK k : k = req[q]
        OBVIOUS
  <2>2. KnowsPaid(k, id) /\ (id \in S => ~Pays(k, id))
        BY <1>4, <2>1 DEF PayInv
  <2>3. ASSUME id \in S PROVE KnowsPaid(k, id)'
        BY <2>2, <2>3 DEF KnowsPaid, Pays, SummedPcs
  <2>4. ASSUME id \notin S PROVE KnowsPaid(k, id)'
    <3>1. bill'[id] = bill[id] /\ PaymentsOf(payments', id) = PaymentsOf(payments, id)
          BY <2>4
    <3> QED BY <2>2, <3>1, KnowsPaidKept
  <2>5. KnowsPaid(k, id)'
        BY <2>3, <2>4
  <2> QED BY <2>1, <2>5
<1>5. ASSUME NEW id \in BillIds, id \notin disturbed', NEW q \in Procs
      PROVE  KnowsPaid(req[q], id)'
  <2>1. CASE q = p
    <3>1. KnowsPaid(r, id)' /\ req'[q] = r
          BY <1>1, <1>5, <2>1
    <3> QED BY <3>1 DEF KnowsPaid, Payable
  <2>2. CASE q # p
    <3>1. KnowsPaid(req[q], id)' /\ req'[q] = req[q]
          BY <1>1, <1>4, <1>5, <2>2
    <3> QED BY <3>1 DEF KnowsPaid, Payable
  <2> QED BY <2>1, <2>2
<1>6. (\A q \in Procs : CarriesPays(req[q]))'
      BY <1>2 DEF CarriesPays
<1> QED BY <1>3, <1>5, <1>6 DEF PayInv

\* A step that writes no bill and no payment, of a request that takes its own
\* payments and entries along, or drops them.
Quiet(r, old) ==
    /\ r.pc \notin SummedPcs
    /\ \/ r.own.payments = {}
       \/ r.own.payments = old.own.payments /\ old.own.entries \subseteq r.own.entries

LEMMA QuietStep ==
    ASSUME IInv, PayInv, NEW p \in Procs, NEW r, req' = [req EXCEPT ![p] = r],
           Quiet(r, req[p]), bill' = bill, payments' = payments, disturbed \subseteq disturbed'
    PROVE  PayInv'
<1>1. CarriesPays(r)
      BY FS_EmptySet DEF PayInv, CarriesPays, Quiet, PaysOK
<1>2. PaysOK(payments')
      BY DEF PayInv
<1>3. ASSUME NEW id \in BillIds, id \notin disturbed' PROVE KnowsPaid(r, id)'
  <2>1. KnowsPaid(req[p], id)
        BY <1>3 DEF PayInv
  <2>2. r.pc # "numbering"
        BY DEF Quiet, SummedPcs
  <2>3. CASE r.own.payments = {}
        BY <2>2, <2>3 DEF KnowsPaid, Quiet, PaymentsOf
  <2>4. CASE r.own.payments = req[p].own.payments /\ req[p].own.entries \subseteq r.own.entries
    <3>1. BooksBill(req[p], id) => BooksBill(r, id)
          BY <2>4 DEF BooksBill, EntriesOf
    <3>2. PICK k : k = req[p]
          OBVIOUS
    <3> QED BY <2>1, <2>2, <2>4, <3>1, <3>2 DEF KnowsPaid, Quiet, Payable, Live, BooksBill
  <2> QED BY <2>3, <2>4 DEF Quiet
<1>4. PICK S : S = {}
      OBVIOUS
<1>5. /\ \A id \in BillIds \ S :
            bill'[id] = bill[id] /\ PaymentsOf(payments', id) = PaymentsOf(payments, id)
      /\ \A id \in BillIds \cap S : PaidOK(id)' \/ id \in disturbed
      /\ \A id \in BillIds \cap S, q \in Procs \ {p} : Pays(req[q], id) => id \in disturbed
      BY <1>4
<1> QED BY <1>1, <1>2, <1>3, <1>5, PayTableStep

\* A commit to one bill that is not posted, of a request that has no payments.
LEMMA OneBillPays ==
    ASSUME IInv, PayInv, NEW p \in Procs, NEW r, req' = [req EXCEPT ![p] = r],
           r.pc \notin SummedPcs, r.own.payments = {},
           NEW id \in BillIds, NEW new, bill' = [bill EXCEPT ![id] = new], payments' = payments,
           id \notin disturbed => ~Live(id) \/ ~Posted2Ap(bill[id]),
           bill[id] = None \/ req[p].id = id,
           disturbed \subseteq disturbed'
    PROVE  PayInv'
<1>1. CarriesPays(r)
      BY FS_EmptySet DEF CarriesPays, PaysOK
<1>2. PaysOK(payments')
      BY DEF PayInv
<1>3. \A b \in BillIds \ disturbed' : KnowsPaid(r, b)'
      BY DEF KnowsPaid, PaymentsOf, SummedPcs
<1>4. PICK S : S = {id}
      OBVIOUS
<1>5. \A b \in BillIds \ S :
         bill'[b] = bill[b] /\ PaymentsOf(payments', b) = PaymentsOf(payments, b)
      BY <1>4 DEF IInv, TypeInv
<1>6. id \notin disturbed => PaidOK(id)'
  <2>1. id \notin disturbed => PaymentsOf(payments', id) = {}
        BY DEF PayInv, PaidOK
  <2> QED BY <2>1 DEF PaidOK
<1>7. ASSUME NEW q \in Procs \ {p}, Pays(req[q], id) PROVE id \in disturbed
  <2>1. CASE bill[id] = None
    <3>1. id \notin disturbed => KnowsPaid(req[q], id)
          BY DEF PayInv
    <3> QED BY <1>7, <2>1, <3>1 DEF KnowsPaid, Payable, Pays, Live
  <2>2. CASE req[p].id = id
    <3>1. id \in Touched(p) /\ id \in Touched(q)
          BY <1>7, <2>2, PaysTouches DEF Touched
    <3> QED BY <3>1, TouchedMet
  <2> QED BY <2>1, <2>2
<1>8. /\ \A b \in BillIds \cap S : PaidOK(b)' \/ b \in disturbed
      /\ \A b \in BillIds \cap S, q \in Procs \ {p} : Pays(req[q], b) => b \in disturbed
      BY <1>4, <1>6, <1>7
<1> QED BY <1>1, <1>2, <1>3, <1>5, <1>8, PayTableStep

\* Only the request's own row of the table of requests is in what it knows.
LEMMA PayRequestStep ==
    ASSUME IInv, PayInv, NEW p \in Procs, NEW r, req' = [req EXCEPT ![p] = r],
           CarriesPays(r), \A id \in BillIds \ disturbed : KnowsPaid(r, id),
           bill' = bill, payments' = payments, disturbed \subseteq disturbed'
    PROVE  PayInv'
<1>1. PaysOK(payments')
      BY DEF PayInv
<1>2. \A id \in BillIds \ disturbed' : KnowsPaid(r, id)'
      BY DEF KnowsPaid, Payable, Live
<1>3. PICK S : S = {}
      OBVIOUS
<1>4. /\ \A id \in BillIds \ S :
            bill'[id] = bill[id] /\ PaymentsOf(payments', id) = PaymentsOf(payments, id)
      /\ \A id \in BillIds \cap S : PaidOK(id)' \/ id \in disturbed
      /\ \A id \in BillIds \cap S, q \in Procs \ {p} : Pays(req[q], id) => id \in disturbed
      BY <1>3
<1> QED BY <1>1, <1>2, <1>4, PayTableStep

LEMMA PayReadPays ==
    ASSUME IInv, PayInv, NEW p \in Procs, PayRead(p), disturbed \subseteq disturbed'
    PROVE  PayInv'
<1>1. PICK id, pc : /\ id = Head(req[p].batch).id
                    /\ pc = IF Posted2Ap(bill[id]) \/ PostedByUs(p, id) THEN "summing"
                            ELSE "posting first"
      OBVIOUS
<1>2. PICK r : r = [req[p] EXCEPT !.id = id, !.row = bill[id], !.pc = pc]
      OBVIOUS
<1>3. req[p].pc = "paying" /\ RequestShape(req[p]) /\ Carries(req[p])
      BY DEF IInv, TypeInv, PayRead, At
<1>4. req[p].batch \in Batch /\ req[p].batch # <<>>
      BY <1>3 DEF Carries, PayingPcs
<1>5. id \in BillIds
  <2>1. Head(req[p].batch) \in [id : BillIds, amount : Nat \ {0}]
        BY <1>4, HeadTailProperties DEF Batch
  <2> QED BY <1>1, <2>1
<1>6. r.pc = pc /\ r.id = id /\ r.row = bill[id] /\ r.own = req[p].own
      BY <1>2, <1>3 DEF RequestShape
<1>7. pc \in {"summing", "posting first"} /\ Live(id)
      BY <1>1 DEF PayRead
<1>8. CarriesPays(r)
      BY <1>5, <1>6 DEF CarriesPays, PayInv
<1>9. pc = "summing" => Payable(r, id)
      BY <1>1, <1>6, <1>7 DEF Payable, BooksBill, PostedByUs, EntriesOf
<1>10. ASSUME NEW b \in BillIds \ disturbed PROVE KnowsPaid(r, b)
  <2>1. KnowsPaid(req[p], b)
        BY DEF PayInv
  <2> QED BY <1>6, <1>7, <1>9, <2>1 DEF KnowsPaid, Payable, BooksBill, SummedPcs
<1>11. req' = [req EXCEPT ![p] = r] /\ bill' = bill /\ payments' = payments
       BY <1>1, <1>2, <1>3 DEF PayRead, Reads, IInv, TypeInv
<1> QED BY <1>8, <1>10, <1>11, PayRequestStep

LEMMA PayPostFirstPays ==
    ASSUME IInv, PayInv, NEW p \in Procs, NEW y \in Years, PayPostFirst(p, y),
           disturbed \subseteq disturbed'
    PROVE  PayInv'
<1>1. PICK id, own, n : id = req[p].id /\ own = req[p].own /\ n = NextNumber(Entries(p), y)
      OBVIOUS
<1>2. PICK e : e = NewEntry(n, n, BillRef(id), ApLines(req[p].row))
      OBVIOUS
<1>3. PICK r : r = [req[p] EXCEPT !.pc = "summing", !.own.entries = @ \cup {e}]
      OBVIOUS
<1>4. /\ req[p].pc = "posting first" /\ RequestShape(req[p])
      /\ Carries(req[p]) /\ Knows(req[p])
      BY DEF IInv, TypeInv, PayPostFirst, At
<1>5. /\ r.pc = "summing" /\ r.id = id /\ r.row = req[p].row
      /\ r.own.payments = own.payments /\ r.own.entries = own.entries \cup {e}
      BY <1>1, <1>3, <1>4 DEF RequestShape
<1>6. id \in BillIds /\ req[p].row \in BillRow
      BY <1>1, <1>4 DEF Carries, CheckedPcs
<1>7. CarriesPays(r)
      BY <1>1, <1>5, <1>6 DEF CarriesPays, PayInv
<1>8. \A b : BooksBill(req[p], b) => BooksBill(r, b)
      BY <1>1, <1>5 DEF BooksBill, EntriesOf
<1>9. BooksBill(r, id)
      BY <1>2, <1>5 DEF BooksBill, EntriesOf, NewEntry
<1>10. id \notin disturbed => Live(id) /\ bill[id] = req[p].row
      BY <1>1, <1>4, <1>6 DEF Knows, CheckedPcs, Live
<1>11. ASSUME NEW b \in BillIds \ disturbed PROVE KnowsPaid(r, b)
  <2>1. KnowsPaid(req[p], b)
        BY DEF PayInv
  <2> QED BY <1>1, <1>5, <1>8, <1>9, <1>10, <2>1 DEF KnowsPaid, Payable, SummedPcs
<1>12. req' = [req EXCEPT ![p] = r] /\ bill' = bill /\ payments' = payments
  <2>1. req' = [req EXCEPT ![p].pc = "summing", ![p].own.entries = @ \cup {e}]
        BY <1>1, <1>2 DEF PayPostFirst
  <2> QED BY <1>3, <1>4, <2>1 DEF PayPostFirst, Reads, IInv, TypeInv, RequestShape
<1> QED BY <1>7, <1>11, <1>12, PayRequestStep

LEMMA PaySumPays ==
    ASSUME IInv, PayInv, NEW p \in Procs, PaySum(p), disturbed \subseteq disturbed'
    PROVE  PayInv'
<1>1. PICK r : r = [req[p] EXCEPT !.pc = "numbering"]
      OBVIOUS
<1>2. req[p].pc = "summing" /\ RequestShape(req[p]) /\ Carries(req[p]) /\ CarriesPays(req[p])
      BY DEF IInv, TypeInv, PaySum, At, PayInv
<1>3. /\ r.pc = "numbering" /\ r.own = req[p].own /\ r.batch = req[p].batch
      /\ r.id = req[p].id /\ r.row = req[p].row
      BY <1>1, <1>2 DEF RequestShape
<1>4. CarriesPays(r)
      BY <1>2, <1>3 DEF CarriesPays, SummedPcs
<1>5. Head(req[p].batch) \in [id : BillIds, amount : Nat \ {0}]
  <2>1. req[p].batch \in Batch /\ req[p].batch # <<>>
        BY <1>2 DEF Carries, PayingPcs
  <2> QED BY <2>1, HeadTailProperties DEF Batch
<1>6. PICK paid, amount : /\ paid = Paid(payments \cup req[p].own.payments, req[p].id)
                          /\ amount = Head(req[p].batch).amount
      OBVIOUS
<1>7. paid \in Nat /\ amount \in Nat
  <2>1. PICK pays : pays = payments \cup req[p].own.payments
        OBVIOUS
  <2>2. PaysOK(pays)
        BY <1>2, <2>1, FS_Union DEF PaysOK, PayInv, CarriesPays
  <2>3. Paid(pays, req[p].id) \in Nat
        BY <2>2, PaidType
  <2> QED BY <1>5, <1>6, <2>1, <2>3
<1>8. amount <= req[p].row.amount - paid
      BY <1>6 DEF PaySum, Outstanding, Payments
<1>9. ASSUME NEW b \in BillIds \ disturbed PROVE KnowsPaid(r, b)
  <2>1. KnowsPaid(req[p], b)
        BY DEF PayInv
  <2>2. CASE req[p].id = b
    <3>1. Payable(req[p], b) /\ req[p].row.amount = bill[b].amount
          BY <1>2, <2>1, <2>2 DEF KnowsPaid, SummedPcs
    <3>2. bill[b].amount \in Int
          BY <3>1 DEF Payable, Live, IInv, TypeInv, BillRow
    <3>3. paid + amount <= bill[b].amount
          BY <1>7, <1>8, <3>1, <3>2
    <3> QED BY <1>3, <1>6, <2>1, <2>2, <3>1, <3>3 DEF KnowsPaid, Payable, BooksBill
  <2>3. CASE req[p].id # b
        BY <1>3, <2>1, <2>3 DEF KnowsPaid, Payable, BooksBill
  <2> QED BY <2>2, <2>3
<1>10. req' = [req EXCEPT ![p] = r] /\ bill' = bill /\ payments' = payments
       BY <1>1, <1>2 DEF PaySum, Reads, IInv, TypeInv
<1> QED BY <1>4, <1>9, <1>10, PayRequestStep

\* The payment it makes was summed for, and is another than those there are.
LEMMA PayNumberPays ==
    ASSUME IInv, PayInv, NEW p \in Procs, NEW y \in Years, PayNumber(p, y),
           disturbed \subseteq disturbed'
    PROVE  PayInv'
<1>1. PICK n, id, own : n = NextNumber(Payments(p), y) /\ id = req[p].id /\ own = req[p].own.payments
      OBVIOUS
<1>2. PICK pay : pay = [number |-> n, bill |-> id, amount |-> Head(req[p].batch).amount]
      OBVIOUS
<1>3. PICK r : r = [req[p] EXCEPT !.pc = "settling", !.number = n, !.own.payments = @ \cup {pay}]
      OBVIOUS
<1>4. /\ req[p].pc = "numbering" /\ RequestShape(req[p]) /\ Carries(req[p])
      /\ CarriesPays(req[p])
      BY DEF IInv, TypeInv, PayNumber, At, PayInv
<1>5. /\ r.pc = "settling" /\ r.own.entries = req[p].own.entries
      /\ r.own.payments = own \cup {pay}
      BY <1>1, <1>3, <1>4 DEF RequestShape
<1>6. Head(req[p].batch) \in [id : BillIds, amount : Nat \ {0}]
  <2>1. req[p].batch \in Batch /\ req[p].batch # <<>>
        BY <1>4 DEF Carries, PayingPcs
  <2> QED BY <2>1, HeadTailProperties DEF Batch
<1>7. id \in BillIds /\ pay.bill = id /\ pay.amount \in Nat \ {0} /\ pay.amount = Head(req[p].batch).amount
      BY <1>1, <1>2, <1>4, <1>6 DEF CarriesPays, SummedPcs
<1>8. PaysOK(own \cup {pay})
      BY <1>1, <1>4, <1>7, FS_AddElement DEF PaysOK, CarriesPays
<1>9. CarriesPays(r)
      BY <1>5, <1>8 DEF CarriesPays, SummedPcs
<1>10. PICK pays : pays = payments \cup own
       OBVIOUS
<1>11. PaysOK(pays) /\ pay \notin pays
  <2>1. PaysOK(pays)
        BY <1>1, <1>4, <1>10, FS_Union DEF PaysOK, PayInv, CarriesPays
  <2>2. pay.number = n
        BY <1>2
  <2> QED BY <1>1, <1>10, <2>1, <2>2 DEF PayNumber, Payments, Taken
<1>12. Paid(pays \cup {pay}, id) = Paid(pays, id) + pay.amount
       BY <1>7, <1>11, PaidAdds
<1>13. payments \cup r.own.payments = pays \cup {pay}
       BY <1>5, <1>10
<1>14. ASSUME NEW b \in BillIds \ disturbed PROVE KnowsPaid(r, b)
  <2>1. KnowsPaid(req[p], b)
        BY DEF PayInv
  <2>2. CASE id = b
    <3>1. Payable(req[p], b) /\ Paid(pays, id) + pay.amount <= bill[b].amount
          BY <1>1, <1>4, <1>7, <1>10, <2>1, <2>2 DEF KnowsPaid, SummedPcs
    <3>2. Payable(r, b)
          BY <1>5, <3>1 DEF Payable, BooksBill
    <3> QED BY <1>5, <1>12, <1>13, <2>2, <3>1, <3>2 DEF KnowsPaid, SummedPcs
  <2>3. CASE id # b
    <3>1. /\ PaymentsOf(pays \cup {pay}, b) = PaymentsOf(pays, b)
          /\ PaymentsOf(r.own.payments, b) = PaymentsOf(own, b)
          BY <1>5, <1>7, <2>3 DEF PaymentsOf
    <3>2. Paid(pays \cup {pay}, b) = Paid(pays, b)
          BY <3>1, PaidOfSame
    <3>3. PaymentsOf(own, b) # {} => Payable(r, b) /\ Paid(pays, b) <= bill[b].amount
          BY <1>1, <1>5, <1>10, <2>1 DEF KnowsPaid, Payable, BooksBill
    <3> QED BY <1>5, <1>13, <3>1, <3>2, <3>3 DEF KnowsPaid, SummedPcs
  <2> QED BY <2>2, <2>3
<1>15. req' = [req EXCEPT ![p] = r] /\ bill' = bill /\ payments' = payments
  <2>1. req' = [req EXCEPT ![p].pc = "settling", ![p].number = n, ![p].own.payments = @ \cup {pay}]
        BY <1>1, <1>2 DEF PayNumber
  <2> QED BY <1>3, <1>4, <2>1 DEF PayNumber, Reads, IInv, TypeInv, RequestShape
<1> QED BY <1>9, <1>14, <1>15, PayRequestStep

\* Each bill that is paid or posted on the way is posted now, and paid within
\* its amount.
LEMMA PayCommitPays ==
    ASSUME IInv, PayInv, NEW p \in Procs, PayCommit(p), disturbed \subseteq disturbed'
    PROVE  PayInv'
<1>1. PICK own, B, r : own = req[p].own /\ B = PostedBills(p) /\ r = Idle
      OBVIOUS
<1>2. PICK S : S = {id \in BillIds : id \in B \/ PaymentsOf(own.payments, id) # {}}
      OBVIOUS
<1>3. /\ bill' = [b \in BillIds |-> IF b \in B THEN Approved(bill[b]) ELSE bill[b]]
      /\ payments' = payments \cup own.payments
      /\ req' = [req EXCEPT ![p] = r]
      BY <1>1 DEF PayCommit, Done
<1>4. B \subseteq BillIds /\ \A b \in BillIds : b \in B <=> BooksBill(req[p], b)
      BY <1>1 DEF PostedBills, PostedByUs, BooksBill, EntriesOf
<1>5. r.pc = "idle" /\ r.own.payments = {} /\ r.own.entries = {}
      BY <1>1 DEF Idle
<1>6. CarriesPays(r)
      BY <1>5, FS_EmptySet DEF CarriesPays, PaysOK, SummedPcs
<1>7. PaysOK(payments')
      BY <1>1, <1>3, FS_Union DEF PaysOK, PayInv, CarriesPays
<1>8. \A id \in BillIds \ disturbed' : KnowsPaid(r, id)'
      BY <1>5 DEF KnowsPaid, PaymentsOf, SummedPcs
<1>9. \A id \in BillIds \ S :
         bill'[id] = bill[id] /\ PaymentsOf(payments', id) = PaymentsOf(payments, id)
      BY <1>2, <1>3 DEF PaymentsOf
<1>10. ASSUME NEW id \in BillIds \cap S, id \notin disturbed PROVE PaidOK(id)'
  <2>1. KnowsPaid(req[p], id) /\ PaidOK(id)
        BY <1>10 DEF PayInv
  <2>2. PICK paid : paid = Paid(payments', id)
        OBVIOUS
  <2>3. CASE PaymentsOf(own.payments, id) # {}
    <3>1. Payable(req[p], id) /\ paid <= bill[id].amount
          BY <1>1, <1>3, <2>1, <2>2, <2>3 DEF KnowsPaid
    <3>2. bill[id] \in BillRow
          BY <3>1 DEF Payable, Live, IInv, TypeInv
    <3>3. CASE id \in B
      <4>1. bill'[id] = Approved(bill[id]) /\ bill'[id] \in BillRow
            /\ Posted2Ap(bill'[id]) /\ bill'[id].amount = bill[id].amount
            BY <1>3, <3>2, <3>3 DEF Approved, BillRow, Posted2Ap
      <4> QED BY <2>2, <3>1, <4>1 DEF PaidOK, Live
    <3>4. CASE id \notin B
      <4>1. bill'[id] = bill[id] /\ Posted2Ap(bill[id]) /\ Live(id)
            BY <1>3, <1>4, <3>1, <3>4 DEF Payable
      <4> QED BY <2>2, <3>1, <4>1 DEF PaidOK, Live
    <3> QED BY <3>3, <3>4
  <2>4. CASE PaymentsOf(own.payments, id) = {}
    <3>1. BooksBill(req[p], id)
          BY <1>2, <1>4, <1>10, <2>4
    <3>2. ~Posted2Ap(bill[id])
          BY <1>10, <3>1 DEF BooksBill, IInv, Knows
    <3>3. PaymentsOf(payments', id) = {}
          BY <1>3, <2>1, <2>4, <3>2 DEF PaidOK, PaymentsOf
    <3> QED BY <3>3 DEF PaidOK
  <2> QED BY <2>3, <2>4
<1>11. ASSUME NEW id \in BillIds \cap S, NEW q \in Procs \ {p}, Pays(req[q], id)
       PROVE  id \in disturbed
  <2>1. id \in Touched(q)
        BY <1>11, PaysTouches
  <2>2. id \in Touched(p)
        BY <1>1, <1>2, <1>11 DEF Touched, PaymentsOf
  <2> QED BY <1>11, <2>1, <2>2, TouchedMet
<1>12. /\ \A id \in BillIds \cap S : PaidOK(id)' \/ id \in disturbed
       /\ \A id \in BillIds \cap S, q \in Procs \ {p} : Pays(req[q], id) => id \in disturbed
       BY <1>10, <1>11
<1>13. req' = [req EXCEPT ![p] = r]
       BY <1>3
<1> HIDE DepositsAssumption, ExpensesAssumption, RowsAssumption
<1> QED BY <1>6, <1>7, <1>8, <1>9, <1>12, <1>13, PayTableStep

\* A bill that a request checked is not posted, and so not paid.
LEMMA CheckedBillPays ==
    ASSUME IInv, PayInv, NEW p \in Procs,
           \/ UpdateCommit(p) \/ RejectCommit(p) \/ DeleteCommit(p) \/ ApproveCommit(p),
           disturbed \subseteq disturbed'
    PROVE  PayInv'
<1>1. PICK id : id = req[p].id
      OBVIOUS
<1>2. req[p].pc \in CheckedPcs /\ Live(req[p].id) /\ payments' = payments
      BY DEF UpdateCommit, RejectCommit, DeleteCommit, ApproveCommit, At, CheckedPcs
<1>3. id \in BillIds /\ (id \notin disturbed => ~Live(id) \/ ~Posted2Ap(bill[id]))
      BY <1>1, <1>2, CheckedBill
<1>4. bill[id] \in BillRow
      BY <1>1, <1>2, <1>3 DEF Live, IInv, TypeInv
<1>5. \E new : bill' = [bill EXCEPT ![id] = new]
  <2>1. CASE UpdateCommit(p)
        BY <1>1, <2>1 DEF UpdateCommit
  <2>2. CASE RejectCommit(p)
    <3>1. PICK new : new = [bill[id] EXCEPT !.status = "PENDING", !.approval = "REJECTED"]
          OBVIOUS
    <3>2. bill' = [bill EXCEPT ![id] = new]
          BY <1>1, <1>3, <1>4, <2>2, <3>1 DEF RejectCommit, BillRow, IInv, TypeInv
    <3> QED BY <3>2
  <2>3. CASE DeleteCommit(p)
        BY <1>1, <2>3 DEF DeleteCommit
  <2>4. CASE ApproveCommit(p)
    <3>1. PICK new : new = Approved(bill[id])
          OBVIOUS
    <3>2. bill' = [bill EXCEPT ![id] = new]
          BY <1>1, <3>1, <2>4 DEF ApproveCommit
    <3> QED BY <3>2
  <2> QED BY <2>1, <2>2, <2>3, <2>4
<1>6. \E r : req' = [req EXCEPT ![p] = r] /\ r.pc \notin SummedPcs /\ r.own.payments = {}
  <2>1. CASE UpdateCommit(p)
    <3>1. PICK row, r :
            /\ row = Updated(bill[id], req[p].row, req[p].dto)
            /\ r = IF row.job = None THEN Idle
                   ELSE [Idle EXCEPT !.pc = "syncing", !.id = id,
                            !.cost = [source |-> id, job |-> row.job, year |-> row.year,
                                      amount |-> row.deposit]]
          OBVIOUS
    <3>2. req' = [req EXCEPT ![p] = r]
          BY <1>1, <2>1, <3>1 DEF UpdateCommit, ThenSync
    <3>3. r.pc \notin SummedPcs /\ r.own.payments = {}
          BY <3>1 DEF Idle, SummedPcs
    <3> QED BY <3>2, <3>3
  <2>2. CASE RejectCommit(p) \/ DeleteCommit(p) \/ ApproveCommit(p)
    <3>1. req' = [req EXCEPT ![p] = Idle]
          BY <2>2 DEF RejectCommit, DeleteCommit, ApproveCommit, Done
    <3>2. Idle.pc \notin SummedPcs /\ Idle.own.payments = {}
          BY DEF Idle, SummedPcs
    <3> QED BY <3>1, <3>2
  <2> QED BY <2>1, <2>2
<1>7. req[p].id = id
      BY <1>1
<1>8. PICK new, r : /\ bill' = [bill EXCEPT ![id] = new]
                    /\ req' = [req EXCEPT ![p] = r] /\ r.pc \notin SummedPcs /\ r.own.payments = {}
      BY <1>5, <1>6
<1> HIDE DepositsAssumption, ExpensesAssumption, RowsAssumption
<1> QED BY <1>2, <1>3, <1>7, <1>8, OneBillPays

LEMMA BillCommitPays ==
    ASSUME IInv, PayInv, NEW p \in Procs, NEW id \in BillIds, BillCommit(p, id),
           disturbed \subseteq disturbed'
    PROVE  PayInv'
<1>1. PICK row, r :
        /\ row = CreatedRow(req[p].dto, req[p].number)
        /\ r = IF row.job = None THEN Idle
               ELSE [Idle EXCEPT !.pc = "syncing", !.id = id,
                        !.cost = [source |-> id, job |-> row.job, year |-> row.year,
                                  amount |-> row.deposit]]
      OBVIOUS
<1>2. /\ req' = [req EXCEPT ![p] = r] /\ bill' = [bill EXCEPT ![id] = row]
      /\ payments' = payments /\ bill[id] = None
      BY <1>1 DEF BillCommit, ThenSync
<1>3. r.pc \notin SummedPcs /\ r.own.payments = {}
      BY <1>1 DEF Idle, SummedPcs
<1>4. id \notin disturbed => ~Live(id) \/ ~Posted2Ap(bill[id])
      BY <1>2 DEF Live
<1> HIDE DepositsAssumption, ExpensesAssumption, RowsAssumption
<1> QED BY <1>2, <1>3, <1>4, OneBillPays

\* The request goes on as r, one of a deposit, with what it holds, or is through.
Leads(p, r) ==
    /\ req' = [req EXCEPT ![p] = r]
    /\ r.pc \in DepositPcs
    /\ r.own = Idle.own \/ (r.own = req[p].own /\ req[p].pc \in DepositPcs)

\* A deposit request goes on with what it holds, or is through.
LEMMA DepositStepGoes ==
    ASSUME NEW p \in Procs, RequestShape(req[p]), DOMAIN req = Procs, NEW y, DepositStep(p, y)
    PROVE  \E r : Leads(p, r)
<1>1. Leads(p, Idle) <=> req' = [req EXCEPT ![p] = Idle]
      BY DEF Leads, Idle, DepositPcs
<1>2. ASSUME NEW dto \in DepositDtos, DepositNumber(p, dto) PROVE \E r : Leads(p, r)
  <2>1. PICK r : r = [Idle EXCEPT !.pc = "depositing", !.dto = dto,
                                  !.number = NextNumber(DepositRows, dto.year)]
        OBVIOUS
  <2>2. Leads(p, r)
        BY <1>2, <2>1 DEF DepositNumber, Leads, Idle, DepositPcs
  <2> QED BY <2>2
<1>3. CASE DepositEntryNumber(p)
  <2>1. PICK r : r = [req[p] EXCEPT !.pc = "booking",
                                    !.entryNumber = NextNumber(journal, req[p].dto.year)]
        OBVIOUS
  <2>2. /\ r.pc = "booking" /\ r.own = req[p].own /\ req' = [req EXCEPT ![p] = r]
        /\ req[p].pc = "depositing"
        BY <1>3, <2>1 DEF DepositEntryNumber, RequestShape, At
  <2>3. Leads(p, r)
        BY <2>2 DEF Leads, DepositPcs
  <2> QED BY <2>3
<1>4. CASE SyncFind(p)
  <2>1. PICK d, plan :
          /\ plan = SyncPlan(req[p].cost.amount, d)
          /\ req' = [req EXCEPT ![p] = IF plan = "idle" THEN Idle
                                       ELSE [@ EXCEPT !.pc = plan, !.dep = d]]
        BY <1>4 DEF SyncFind
  <2>2. plan \in {"idle", "tracking", "resizing", "removing"}
        BY <2>1 DEF SyncPlan
  <2>3. CASE plan = "idle"
        BY <1>1, <2>1, <2>3
  <2>4. CASE plan # "idle"
    <3>1. PICK r : r = [req[p] EXCEPT !.pc = plan, !.dep = d]
          OBVIOUS
    <3>2. /\ r.pc = plan /\ r.own = req[p].own /\ req' = [req EXCEPT ![p] = r]
          /\ req[p].pc = "syncing"
          BY <1>4, <2>1, <2>4, <3>1 DEF RequestShape, SyncFind, At
    <3>3. Leads(p, r)
          BY <2>2, <3>2 DEF Leads, DepositPcs, SyncPcs
    <3> QED BY <3>3
  <2> QED BY <2>3, <2>4
<1>5. CASE TrackNumber(p)
  <2>1. PICK r : r = [req[p] EXCEPT !.pc = "tracked",
                                    !.number = NextNumber(DepositRows, req[p].cost.year)]
        OBVIOUS
  <2>2. /\ r.pc = "tracked" /\ r.own = req[p].own /\ req' = [req EXCEPT ![p] = r]
        /\ req[p].pc = "tracking"
        BY <1>5, <2>1 DEF TrackNumber, RequestShape, At
  <2>3. Leads(p, r)
        BY <2>2 DEF Leads, DepositPcs, SyncPcs
  <2> QED BY <2>3
<1>6. ASSUME NEW d \in DepositIds, NEW to, StatusRead(p, d, to) PROVE \E r : Leads(p, r)
  <2>1. PICK pc : pc = IF to = Refunded /\ OnTheBooks(deposit[d]) THEN "refunding" ELSE "advancing"
        OBVIOUS
  <2>2. PICK r : r = [Idle EXCEPT !.pc = pc, !.dep = d, !.row = deposit[d], !.to = to]
        OBVIOUS
  <2>3. r.pc = pc /\ r.own = Idle.own /\ req' = [req EXCEPT ![p] = r]
        BY <1>6, <2>1, <2>2 DEF StatusRead, Idle
  <2>4. Leads(p, r)
        BY <2>1, <2>3 DEF Leads, DepositPcs
  <2> QED BY <2>4
<1>7. CASE RefundNumber(p, y)
  <2>1. PICK r : r = [req[p] EXCEPT !.pc = "repaying", !.entryNumber = NextNumber(journal, y)]
        OBVIOUS
  <2>2. /\ r.pc = "repaying" /\ r.own = req[p].own /\ req' = [req EXCEPT ![p] = r]
        /\ req[p].pc = "refunding"
        BY <1>7, <2>1 DEF RefundNumber, RequestShape, At
  <2>3. Leads(p, r)
        BY <2>2 DEF Leads, DepositPcs
  <2> QED BY <2>3
<1>8. ASSUME NEW d \in DepositIds, DepositCommit(p, d) \/ TrackCommit(p, d) PROVE \E r : Leads(p, r)
      BY <1>1, <1>8 DEF DepositCommit, TrackCommit, Done
<1>9. CASE ResizeCommit(p) \/ RemoveCommit(p) \/ AdvanceCommit(p) \/ RefundCommit(p)
      BY <1>1, <1>9 DEF ResizeCommit, RemoveCommit, AdvanceCommit, RefundCommit, Done
<1> QED BY <1>2, <1>3, <1>4, <1>5, <1>6, <1>7, <1>8, <1>9 DEF DepositStep

\* A step that neither pays nor sums, and writes no bill.
Quietly(p) ==
    /\ \E r : req' = [req EXCEPT ![p] = r] /\ Quiet(r, req[p])
    /\ bill' = bill /\ payments' = payments

LEMMA QuietlyKeeps ==
    ASSUME IInv, PayInv, NEW p \in Procs, Quietly(p), disturbed \subseteq disturbed'
    PROVE  PayInv'
<1>1. PICK r : req' = [req EXCEPT ![p] = r] /\ Quiet(r, req[p])
      BY DEF Quietly
<1>2. bill' = bill /\ payments' = payments
      BY DEF Quietly
<1> HIDE DepositsAssumption, ExpensesAssumption, RowsAssumption
<1> QED BY <1>1, <1>2, QuietStep

\* A request that starts, and so holds nothing yet.
Starts(p) ==
    /\ \E r : /\ req' = [req EXCEPT ![p] = r] /\ r.own = Idle.own
              /\ r.pc \in {"billing", "updating", "rejecting", "deleting", "approving", "paying"}
    /\ Reads

LEMMA FirstReads ==
    ASSUME NEW p,
           \/ \E dto \in CreateDtos : BillNumber(p, dto)
           \/ \E id \in BillIds, dto \in UpdateDtos : EditRead(p, id, "updating", dto)
           \/ \E id \in BillIds : EditRead(p, id, "rejecting", None)
           \/ \E id \in BillIds : EditRead(p, id, "deleting", None)
           \/ \E id \in BillIds : ApproveRead(p, id)
           \/ \E batch \in Batches : PayBegin(p, batch)
    PROVE  Starts(p)
<1>1. ASSUME NEW dto, BillNumber(p, dto) PROVE Starts(p)
  <2>1. PICK r : r = [Idle EXCEPT !.pc = "billing", !.dto = dto,
                                  !.number = NextNumber(BillRows, dto.year)]
        OBVIOUS
  <2>2. /\ req' = [req EXCEPT ![p] = r] /\ r.own = Idle.own /\ r.pc = "billing" /\ Reads
        BY <1>1, <2>1 DEF BillNumber, Idle
  <2> QED BY <2>2 DEF Starts
<1>2. ASSUME NEW id, NEW pc \in {"updating", "rejecting", "deleting"}, NEW dto, EditRead(p, id, pc, dto)
      PROVE  Starts(p)
  <2>1. PICK r : r = [Idle EXCEPT !.pc = pc, !.id = id, !.row = bill[id], !.dto = dto]
        OBVIOUS
  <2>2. /\ req' = [req EXCEPT ![p] = r] /\ r.own = Idle.own /\ r.pc = pc /\ Reads
        BY <1>2, <2>1 DEF EditRead, Idle
  <2> QED BY <2>2 DEF Starts
<1>3. ASSUME NEW id, ApproveRead(p, id) PROVE Starts(p)
  <2>1. PICK r : r = [Idle EXCEPT !.pc = "approving", !.id = id, !.row = bill[id]]
        OBVIOUS
  <2>2. /\ req' = [req EXCEPT ![p] = r] /\ r.own = Idle.own /\ r.pc = "approving" /\ Reads
        BY <1>3, <2>1 DEF ApproveRead, Idle
  <2> QED BY <2>2 DEF Starts
<1>4. ASSUME NEW batch, PayBegin(p, batch) PROVE Starts(p)
  <2>1. PICK r : r = [Idle EXCEPT !.pc = "paying", !.batch = batch]
        OBVIOUS
  <2>2. /\ req' = [req EXCEPT ![p] = r] /\ r.own = Idle.own /\ r.pc = "paying" /\ Reads
        BY <1>4, <2>1 DEF PayBegin, Idle
  <2> QED BY <2>2 DEF Starts
<1> QED BY <1>1, <1>2, <1>3, <1>4

LEMMA StartsQuiet == ASSUME NEW p, Starts(p) PROVE Quietly(p)
<1>1. PICK r : /\ req' = [req EXCEPT ![p] = r] /\ r.own = Idle.own
               /\ r.pc \in {"billing", "updating", "rejecting", "deleting", "approving", "paying"}
      BY DEF Starts
<1>2. Quiet(r, req[p])
      BY <1>1 DEF Quiet, Idle, SummedPcs
<1> QED BY <1>1, <1>2 DEF Starts, Quietly, Reads

LEMMA ApproveNumberQuiet ==
    ASSUME IInv, NEW p \in Procs, NEW y, ApproveNumber(p, y)
    PROVE  Quietly(p)
<1>1. PICK r : r = [req[p] EXCEPT !.pc = "posting", !.entryNumber = NextNumber(journal, y)]
      OBVIOUS
<1>2. RequestShape(req[p])
      BY DEF IInv, TypeInv
<1>3. r.pc = "posting" /\ r.own = req[p].own /\ req' = [req EXCEPT ![p] = r]
      BY <1>1, <1>2 DEF ApproveNumber, RequestShape
<1>4. Quiet(r, req[p])
      BY <1>3 DEF Quiet, SummedPcs
<1> QED BY <1>3, <1>4 DEF ApproveNumber, Reads, Quietly

LEMMA PaySettleQuiet ==
    ASSUME IInv, NEW p \in Procs, NEW y, NEW bank, PaySettle(p, y, bank)
    PROVE  Quietly(p)
<1>1. PICK n, rest, pc : /\ n = NextNumber(Entries(p), y) /\ rest = Tail(req[p].batch)
                         /\ pc = IF rest = <<>> THEN "clearing" ELSE "paying"
      OBVIOUS
<1>2. PICK e : e = NewEntry(n, n, PaymentRef(req[p].number),
                            PaymentLines(bank, Head(req[p].batch).amount))
      OBVIOUS
<1>3. PICK r : r = [req[p] EXCEPT !.pc = pc, !.batch = rest, !.own.entries = @ \cup {e}]
      OBVIOUS
<1>4. RequestShape(req[p]) /\ DOMAIN req = Procs
      BY DEF IInv, TypeInv
<1>5. /\ r.pc = pc /\ r.own.payments = req[p].own.payments
      /\ r.own.entries = req[p].own.entries \cup {e}
      BY <1>3, <1>4 DEF RequestShape
<1>6. req' = [req EXCEPT ![p] = r]
  <2>1. req' = [req EXCEPT ![p].pc = pc, ![p].batch = rest, ![p].own.entries = @ \cup {e}]
        BY <1>1, <1>2 DEF PaySettle
  <2> QED BY <1>3, <1>4, <2>1 DEF RequestShape
<1>7. Quiet(r, req[p])
      BY <1>1, <1>5 DEF Quiet, SummedPcs
<1> QED BY <1>6, <1>7 DEF PaySettle, Reads, Quietly

LEMMA DepositStepQuiet ==
    ASSUME IInv, NEW p \in Procs, NEW y, DepositStep(p, y), UNCHANGED billVars
    PROVE  Quietly(p)
<1>1. RequestShape(req[p]) /\ DOMAIN req = Procs
      BY DEF IInv, TypeInv
<1>2. PICK r : Leads(p, r)
      BY <1>1, DepositStepGoes
<1>3. r.pc \notin SummedPcs
      BY <1>2 DEF Leads, DepositPcs, SyncPcs, SummedPcs
<1>4. Quiet(r, req[p])
      BY <1>2, <1>3 DEF Leads, Quiet, Idle
<1> QED BY <1>2, <1>4 DEF Leads, Quietly, billVars

LEMMA AbortQuiet == ASSUME NEW p, Abort(p) PROVE Quietly(p)
<1>1. Quiet(Idle, req[p])
      BY DEF Idle, Quiet, SummedPcs
<1> QED BY <1>1 DEF Abort, Done, Reads, Quietly

LEMMA BillStepPays ==
    ASSUME IInv, PayInv, NEW p \in Procs, NEW y \in Years, BillStep(p, y),
           disturbed \subseteq disturbed'
    PROVE  PayInv'
<1>1. CASE \/ \E dto \in CreateDtos : BillNumber(p, dto)
           \/ \E id \in BillIds, dto \in UpdateDtos : EditRead(p, id, "updating", dto)
           \/ \E id \in BillIds : EditRead(p, id, "rejecting", None)
           \/ \E id \in BillIds : EditRead(p, id, "deleting", None)
           \/ \E id \in BillIds : ApproveRead(p, id)
           \/ \E batch \in Batches : PayBegin(p, batch)
  <2>1. Quietly(p)
        BY <1>1, FirstReads, StartsQuiet
  <2> QED BY <2>1, QuietlyKeeps
<1>2. CASE ApproveNumber(p, y)
      BY <1>2, ApproveNumberQuiet, QuietlyKeeps
<1>3. ASSUME NEW bank \in BankAccounts, PaySettle(p, y, bank) PROVE PayInv'
      BY <1>3, PaySettleQuiet, QuietlyKeeps
<1>4. ASSUME NEW id \in BillIds, BillCommit(p, id) PROVE PayInv'
      BY <1>4, BillCommitPays
<1>5. CASE UpdateCommit(p) \/ RejectCommit(p) \/ DeleteCommit(p) \/ ApproveCommit(p)
      BY <1>5, CheckedBillPays
<1>6. CASE PayRead(p)
      BY <1>6, PayReadPays
<1>7. CASE PayPostFirst(p, y)
      BY <1>7, PayPostFirstPays
<1>8. CASE PaySum(p)
      BY <1>8, PaySumPays
<1>9. CASE PayNumber(p, y)
      BY <1>9, PayNumberPays
<1>10. CASE PayCommit(p)
      BY <1>10, PayCommitPays
<1> QED BY <1>1, <1>2, <1>3, <1>4, <1>5, <1>6, <1>7, <1>8, <1>9, <1>10 DEF BillStep

LEMMA PayNextKeeps == IInv /\ PayInv /\ [Next]_vars => PayInv'
<1> SUFFICES ASSUME IInv, PayInv, [Next]_vars PROVE PayInv'
    OBVIOUS
<1>1. ASSUME NEW p \in Procs, NEW y \in Years, BillStep(p, y),
             disturbed' = disturbed \cup Overlapping'
      PROVE  PayInv'
      BY <1>1, BillStepPays
<1>2. ASSUME NEW p \in Procs, NEW y \in Years, DepositStep(p, y), UNCHANGED billVars,
             disturbed' = disturbed \cup Overlapping'
      PROVE  PayInv'
      BY <1>2, DepositStepQuiet, QuietlyKeeps
<1>3. ASSUME NEW p \in Procs, Abort(p), disturbed' = disturbed \cup CutOff(p) PROVE PayInv'
      BY <1>3, AbortQuiet, QuietlyKeeps
<1>4. CASE UNCHANGED vars
  <2>1. UNCHANGED <<bill, payments, req, disturbed>>
        BY <1>4 DEF vars
  <2>2. PaysOK(payments') /\ (\A p \in Procs : CarriesPays(req[p]))'
        BY <2>1 DEF PayInv, CarriesPays
  <2>3. ASSUME NEW id \in BillIds \ disturbed' PROVE PaidOK(id)'
        BY <2>1, <2>3 DEF PayInv, PaidOK, Live
  <2>4. ASSUME NEW id \in BillIds \ disturbed', NEW p \in Procs PROVE KnowsPaid(req[p], id)'
        BY <2>1, <2>4 DEF PayInv, KnowsPaid, Payable, Live, BooksBill
  <2> QED BY <2>2, <2>3, <2>4 DEF PayInv
<1> QED BY <1>1, <1>2, <1>3, <1>4 DEF Next

LEMMA PayInitOK == Init => PayInv
<1> SUFFICES ASSUME Init PROVE PayInv
    OBVIOUS
<1>1. \A p \in Procs : req[p] = Idle
      BY DEF Init
<1>2. Idle.pc = "idle" /\ Idle.own.payments = {}
      BY DEF Idle
<1>3. PaysOK({}) /\ payments = {}
      BY FS_EmptySet DEF PaysOK, Init
<1>4. \A p \in Procs : CarriesPays(req[p])
      BY <1>1, <1>2, <1>3 DEF CarriesPays, SummedPcs
<1>5. \A id : PaymentsOf({}, id) = {}
      BY DEF PaymentsOf
<1>6. \A id \in BillIds : PaidOK(id) /\ \A p \in Procs : KnowsPaid(req[p], id)
      BY <1>1, <1>2, <1>3, <1>5 DEF PaidOK, KnowsPaid, SummedPcs
<1> QED BY <1>3, <1>4, <1>6 DEF PayInv

LEMMA AlwaysPayInv == Spec => []PayInv
BY AlwaysIInv, PayInitOK, PayNextKeeps, PTL DEF Spec

\* Bills that requests served one after the other are never paid beyond their
\* amount, in one batch or several, and only once they are posted.
THEOREM NeverOverpaid == Spec => []PaidWithinAmount
<1>1. PayInv => PaidWithinAmount
  <2> SUFFICES ASSUME PayInv, NEW id \in Calm \cap BillIds, Paid(payments, id) > 0
               PROVE  /\ Live(id) /\ Posted2Ap(bill[id])
                      /\ Paid(payments, id) <= bill[id].amount
      BY DEF PaidWithinAmount
  <2>1. PaidOK(id) /\ PaysOK(payments)
        BY DEF PayInv, Calm
  <2>2. PICK pays : pays = payments
        OBVIOUS
  <2>3. PaymentsOf(pays, id) # {}
        BY <2>1, <2>2, PaidType
  <2> QED BY <2>1, <2>2, <2>3 DEF PaidOK
<1> QED BY <1>1, AlwaysPayInv, PTL

----------------------------------------------------------------------------
(* Deposits on the books: a third invariant *)

DepositAccounts == {dto.account : dto \in DepositDtos}

\* A row of the table: one entered by hand, with the account it is held on, or one
\* that tracks a bill.
HeldRow(row) ==
    /\ DOMAIN row = {"number", "source", "job", "amount", "account", "status", "refunded"}
    /\ row.amount \in Nat \ {0}
    /\ \/ row.account \in DepositAccounts /\ row.source = None
       \/ row.account = None /\ row.source \in BillIds

\* A row is not the absence of one.
NoSuchRow == \A row : HeldRow(row) => row \notin {None, Gone}

HeldLines(row) == <<Debit(row.account, row.amount), Credit(Bank, row.amount)>>

Deposits(d) == EntriesOf(journal, DepositRef(d))

\* DepositOnTheBooks, of one deposit: the entry it was booked with and, once it is
\* refunded, the one that reverses it, over the whole amount.
BookedOnce(d, row) ==
    /\ row.refunded = 0
    /\ \E e : e.lines = HeldLines(row) /\ Deposits(d) = {e}

BookedBack(d, row) ==
    /\ row.refunded = row.amount
    /\ \E e, f : /\ e # f /\ Deposits(d) = {e, f}
                 /\ e.lines = HeldLines(row) /\ f.lines = RefundLines(row)

OnBooksOK(d) ==
    IF Deposited(d) /\ OnTheBooks(deposit[d])
    THEN IF deposit[d].status = Refunded THEN BookedBack(d, deposit[d])
         ELSE BookedOnce(d, deposit[d])
    ELSE Deposits(d) = {}

StatusPcs == {"advancing", "refunding", "repaying"}

\* What a request holds, whatever the tables hold.
CarriesDeposit(r) ==
    /\ r.pc \in {"depositing", "booking"} => r.dto \in DepositDtos
    /\ r.pc \in StatusPcs => HeldRow(r.row)
    /\ r.pc \in {"refunding", "repaying"} => OnTheBooks(r.row) /\ r.to = Refunded
    /\ r.pc = "advancing" /\ OnTheBooks(r.row) => r.to # Refunded
    /\ r.pc \in SyncPcs => r.cost.source \in BillIds /\ r.cost.amount \in Int
    /\ r.pc \in {"tracking", "tracked", "resizing"} => r.cost.amount > 0
    /\ \A e \in r.own.entries : e.ref[1] # "DEPOSIT"

\* The deposit a request is about to write exists, or did; only a tracking one is
\* resized or removed; and, unless another request met it there, it is as it was read.
KnowsDeposit(r) ==
    /\ r.pc \in WritingPcs => deposit[r.dep] # None
    /\ r.pc \in {"resizing", "removing"} /\ Deposited(r.dep) => deposit[r.dep].source # None
    /\ r.pc \in StatusPcs /\ r.dep \notin disturbed => deposit[r.dep] = r.row

DepositInv ==
    /\ \A d \in DepositIds : Deposited(d) => HeldRow(deposit[d])
    /\ \A p \in Procs : CarriesDeposit(req[p]) /\ KnowsDeposit(req[p])
    /\ \A d \in DepositIds \ disturbed : OnBooksOK(d)

\* A row is written as one of the same bill, or of none, and never comes back.
RowMoves(d) ==
    deposit[d] # None =>
        /\ deposit'[d] # None
        /\ Deposited(d)' => Deposited(d) /\ deposit'[d].source = deposit[d].source

\* A step of request p that writes deposits of D, or entries of theirs, only.
LEMMA DepositTableStep ==
    ASSUME IInv, DepositInv, NEW p \in Procs, NEW r, NEW D,
           req' = [req EXCEPT ![p] = r], CarriesDeposit(r), KnowsDeposit(r)',
           disturbed \subseteq disturbed',
           \A d \in DepositIds \ D :
               /\ deposit'[d] = deposit[d]
               /\ EntriesOf(journal', DepositRef(d)) = EntriesOf(journal, DepositRef(d)),
           \A d \in DepositIds \cap D :
               /\ RowMoves(d) /\ (Deposited(d)' => HeldRow(deposit'[d]))
               /\ OnBooksOK(d)' \/ d \in disturbed,
           \A d \in DepositIds \cap D, q \in Procs \ {p} :
               req[q].pc \in WritingPcs /\ req[q].dep = d => d \in disturbed
    PROVE  DepositInv'
<1>1. req'[p] = r /\ \A q \in Procs \ {p} : req'[q] = req[q]
      BY DEF IInv, TypeInv
<1>2. ASSUME NEW d \in DepositIds, Deposited(d)' PROVE HeldRow(deposit'[d])
  <2>1. CASE d \in D
        BY <1>2, <2>1
  <2>2. CASE d \notin D
        BY <1>2, <2>2 DEF DepositInv, Deposited
  <2> QED BY <2>1, <2>2
<1>3. ASSUME NEW d \in DepositIds, d \notin disturbed' PROVE OnBooksOK(d)'
  <2>1. CASE d \in D
        BY <1>3, <2>1
  <2>2. CASE d \notin D
    <3>1. /\ OnBooksOK(d) /\ deposit'[d] = deposit[d]
          /\ EntriesOf(journal', DepositRef(d)) = EntriesOf(journal, DepositRef(d))
          BY <1>3, <2>2 DEF DepositInv
    <3> QED BY <3>1 DEF OnBooksOK, BookedOnce, BookedBack, Deposits, Deposited
  <2> QED BY <2>1, <2>2
<1>4. \A d \in DepositIds : RowMoves(d)
  <2>1. ASSUME NEW d \in DepositIds \ D PROVE RowMoves(d)
        BY <2>1 DEF RowMoves, Deposited
  <2> QED BY <2>1
<1>5. ASSUME NEW q \in Procs \ {p} PROVE KnowsDeposit(req[q])'
  <2>1. PICK k : k = req[q]
        OBVIOUS
  <2>2. KnowsDeposit(k) /\ (k.pc \in WritingPcs => k.dep \in DepositIds)
        BY <2>1 DEF DepositInv, IInv, Carries
  <2>3. StatusPcs \subseteq WritingPcs /\ {"resizing", "removing"} \subseteq WritingPcs
        BY DEF StatusPcs, WritingPcs
  <2>4. k.pc \in WritingPcs => deposit'[k.dep] # None
        BY <1>4, <2>2 DEF KnowsDeposit, RowMoves
  <2>5. k.pc \in {"resizing", "removing"} /\ Deposited(k.dep)' => deposit'[k.dep].source # None
        BY <1>4, <2>2, <2>3 DEF KnowsDeposit, RowMoves
  <2>6. k.pc \in StatusPcs /\ k.dep \notin disturbed' => deposit'[k.dep] = k.row
    <3>1. SUFFICES ASSUME k.pc \in StatusPcs, k.dep \notin disturbed' PROVE deposit'[k.dep] = k.row
          OBVIOUS
    <3>2. k.dep \notin D
          BY <2>1, <2>2, <2>3, <3>1
    <3> QED BY <2>2, <2>3, <3>1, <3>2 DEF KnowsDeposit
  <2> QED BY <1>1, <2>1, <2>4, <2>5, <2>6 DEF KnowsDeposit
<1>6. ASSUME NEW q \in Procs PROVE CarriesDeposit(req[q])' /\ KnowsDeposit(req[q])'
  <2>1. CASE q = p
        BY <1>1, <2>1 DEF CarriesDeposit, KnowsDeposit
  <2>2. CASE q # p
        BY <1>1, <1>5, <2>2 DEF DepositInv, CarriesDeposit
  <2> QED BY <2>1, <2>2
<1> QED BY <1>2, <1>3, <1>6 DEF DepositInv

\* A step that writes no deposit, and no entry of one.
LEMMA DepositReadStep ==
    ASSUME IInv, DepositInv, NEW p \in Procs, NEW r,
           req' = [req EXCEPT ![p] = r], CarriesDeposit(r), KnowsDeposit(r),
           deposit' = deposit, disturbed \subseteq disturbed',
           \A d \in DepositIds : EntriesOf(journal', DepositRef(d)) = EntriesOf(journal, DepositRef(d))
    PROVE  DepositInv'
<1>1. KnowsDeposit(r)'
      BY DEF KnowsDeposit, Deposited
<1>2. PICK D : D = {}
      OBVIOUS
<1>3. /\ \A d \in DepositIds \ D :
               /\ deposit'[d] = deposit[d]
               /\ EntriesOf(journal', DepositRef(d)) = EntriesOf(journal, DepositRef(d))
      /\ \A d \in DepositIds \cap D :
               /\ RowMoves(d) /\ (Deposited(d)' => HeldRow(deposit'[d]))
               /\ OnBooksOK(d)' \/ d \in disturbed
      /\ \A d \in DepositIds \cap D, q \in Procs \ {p} :
               req[q].pc \in WritingPcs /\ req[q].dep = d => d \in disturbed
      BY <1>2
<1> QED BY <1>1, <1>3, DepositTableStep

\* A commit to one deposit, after which the request is through.
LEMMA OneDepositBooks ==
    ASSUME IInv, DepositInv, NEW p \in Procs, NEW d \in DepositIds, NEW new,
           Done(p), deposit' = [deposit EXCEPT ![d] = new],
           req[p].dep = d \/ deposit[d] = None,
           RowMoves(d), Deposited(d)' => HeldRow(new),
           OnBooksOK(d)' \/ d \in disturbed,
           \A b \in DepositIds \ {d} :
               EntriesOf(journal', DepositRef(b)) = EntriesOf(journal, DepositRef(b)),
           disturbed \subseteq disturbed'
    PROVE  DepositInv'
<1>1. PICK D, r : D = {d} /\ r = Idle
      OBVIOUS
<1>2. r.pc = "idle" /\ r.own.entries = {}
      BY <1>1 DEF Idle
<1>3. CarriesDeposit(r) /\ KnowsDeposit(r)'
      BY <1>2 DEF CarriesDeposit, KnowsDeposit, StatusPcs, SyncPcs, WritingPcs
<1>4. req' = [req EXCEPT ![p] = r]
      BY <1>1 DEF Done
<1>5. ASSUME NEW q \in Procs \ {p}, req[q].pc \in WritingPcs, req[q].dep = d PROVE d \in disturbed
  <2>1. deposit[d] # None
        BY <1>5 DEF DepositInv, KnowsDeposit
  <2> QED BY <1>5, <2>1, DepositMet
<1>6. /\ deposit'[d] = new /\ \A b \in DepositIds \ {d} : deposit'[b] = deposit[b]
      BY DEF IInv, TypeInv
<1>7. /\ \A b \in DepositIds \ D :
               /\ deposit'[b] = deposit[b]
               /\ EntriesOf(journal', DepositRef(b)) = EntriesOf(journal, DepositRef(b))
      /\ \A b \in DepositIds \cap D :
               /\ RowMoves(b) /\ (Deposited(b)' => HeldRow(deposit'[b]))
               /\ OnBooksOK(b)' \/ b \in disturbed
      /\ \A b \in DepositIds \cap D, q \in Procs \ {p} :
               req[q].pc \in WritingPcs /\ req[q].dep = b => b \in disturbed
      BY <1>1, <1>5, <1>6
<1> QED BY <1>3, <1>4, <1>7, DepositTableStep

\* An entry booked on a deposit joins the deposit's, and no other's.
LEMMA DepositPosts ==
    ASSUME NEW number, NEW d, NEW lines, Post(number, DepositRef(d), lines)
    PROVE  \E e : /\ e.lines = lines /\ e \notin Deposits(d)
                  /\ EntriesOf(journal', DepositRef(d)) = Deposits(d) \cup {e}
                  /\ \A b : b # d => EntriesOf(journal', DepositRef(b)) = EntriesOf(journal, DepositRef(b))
<1>1. PICK e : e = NewEntry(number, number, DepositRef(d), lines)
      OBVIOUS
<1>2. journal' = journal \cup {e} /\ ~Taken(journal, number)
      BY <1>1 DEF Post
<1>3. e.lines = lines /\ e.number = number /\ e.ref = DepositRef(d)
      BY <1>1 DEF NewEntry
<1>4. e \notin Deposits(d)
      BY <1>2, <1>3 DEF Taken, Deposits, EntriesOf
<1>5. EntriesOf(journal', DepositRef(d)) = Deposits(d) \cup {e}
      BY <1>2, <1>3 DEF EntriesOf, Deposits
<1>6. \A b : b # d => DepositRef(b) # DepositRef(d)
      BY DEF DepositRef
<1>7. \A b : b # d => EntriesOf(journal', DepositRef(b)) = EntriesOf(journal, DepositRef(b))
      BY <1>2, <1>3, <1>6 DEF EntriesOf
<1> QED BY <1>3, <1>4, <1>5, <1>7

LEMMA DepositCommitBooks ==
    ASSUME NoSuchRow, IInv, DepositInv, NEW p \in Procs, NEW d \in DepositIds, DepositCommit(p, d),
           disturbed \subseteq disturbed'
    PROVE  DepositInv'
<1>1. PICK dto : dto = req[p].dto
      OBVIOUS
<1>2. dto \in DepositDtos
  <2>1. CarriesDeposit(req[p]) /\ req[p].pc = "booking"
        BY DEF DepositInv, DepositCommit, At
  <2> QED BY <1>1, <2>1 DEF CarriesDeposit
<1>3. PICK new : new = DepositRow(req[p].number, None, dto.job, dto.amount, dto.account)
      OBVIOUS
<1>4. /\ new.account = dto.account /\ new.amount = dto.amount /\ new.source = None
      /\ new.refunded = 0 /\ new.status = "EIR_DOCS_COLLECTED"
      /\ DOMAIN new = {"number", "source", "job", "amount", "account", "status", "refunded"}
      BY <1>3 DEF DepositRow, DEPOSIT_LIFECYCLE
<1>5. HeldRow(new)
      BY <1>2, <1>4 DEF HeldRow, DepositAccounts
<1>6. PICK lines, number : /\ lines = HeldLines(new)
                           /\ Post(number, DepositRef(d), lines)
      BY <1>1, <1>4 DEF DepositCommit, HeldLines
<1>7. PICK e : /\ e.lines = lines /\ e \notin Deposits(d)
               /\ EntriesOf(journal', DepositRef(d)) = Deposits(d) \cup {e}
               /\ \A b : b # d => EntriesOf(journal', DepositRef(b)) = EntriesOf(journal, DepositRef(b))
      BY <1>6, DepositPosts
<1>8. deposit' = [deposit EXCEPT ![d] = new] /\ deposit[d] = None /\ Done(p)
      BY <1>1, <1>3 DEF DepositCommit
<1>9. deposit'[d] = new /\ RowMoves(d)
      BY <1>8 DEF IInv, TypeInv, RowMoves
<1>10. d \notin disturbed => OnBooksOK(d)'
  <2>1. SUFFICES ASSUME d \notin disturbed PROVE OnBooksOK(d)'
        OBVIOUS
  <2>2. Deposits(d) = {}
        BY <1>8, <2>1 DEF DepositInv, OnBooksOK, Deposited
  <2>3. Deposits(d)' = {e}
        BY <1>7, <2>2 DEF Deposits
  <2>4. BookedOnce(d, new)'
        BY <1>4, <1>6, <1>7, <2>3 DEF BookedOnce
  <2>5. new.account # None /\ new.status # Refunded
        BY <1>2, <1>4 DEF Refunded
  <2>6. Deposited(d)'
        BY <1>5, <1>9 DEF Deposited, NoSuchRow
  <2> QED BY <1>9, <2>4, <2>5, <2>6 DEF OnBooksOK, OnTheBooks, BookedOnce, Deposits, HeldLines
<1>11. \A b \in DepositIds \ {d} : EntriesOf(journal', DepositRef(b)) = EntriesOf(journal, DepositRef(b))
       BY <1>7
<1>12. Deposited(d)' => HeldRow(new)
       BY <1>5
<1>13. OnBooksOK(d)' \/ d \in disturbed
       BY <1>10
<1> HIDE DepositsAssumption, ExpensesAssumption, RowsAssumption
<1> QED BY <1>8, <1>9, <1>11, <1>12, <1>13, OneDepositBooks

LEMMA RefundCommitBooks ==
    ASSUME NoSuchRow, IInv, DepositInv, NEW p \in Procs, RefundCommit(p), disturbed \subseteq disturbed'
    PROVE  DepositInv'
<1>1. PICK d, row, to : d = req[p].dep /\ row = req[p].row /\ to = req[p].to
      OBVIOUS
<1>2. /\ req[p].pc = "repaying" /\ CarriesDeposit(req[p]) /\ KnowsDeposit(req[p])
      /\ Carries(req[p]) /\ Knows(req[p])
      BY DEF DepositInv, IInv, RefundCommit, At
<1>3. d \in DepositIds /\ to = Refunded /\ HeldRow(row) /\ OnTheBooks(row)
      BY <1>1, <1>2 DEF Carries, CarriesDeposit, WritingPcs, StatusPcs
<1>4. d \notin disturbed => deposit[d] = row /\ row.status # Refunded
      BY <1>1, <1>2 DEF Knows, KnowsDeposit, WritingPcs, StatusPcs
<1>5. Deposited(d) /\ HeldRow(deposit[d])
      BY <1>1, <1>3 DEF RefundCommit, DepositInv
<1>6. PICK new : new = Advanced(deposit[d], row, to)
      OBVIOUS
<1>7. /\ new.account = deposit[d].account /\ new.amount = deposit[d].amount
      /\ new.source = deposit[d].source /\ new.status = Refunded /\ new.refunded = row.amount
      /\ DOMAIN new = DOMAIN deposit[d]
      BY <1>3, <1>5, <1>6 DEF Advanced, HeldRow
<1>8. HeldRow(new)
      BY <1>5, <1>7 DEF HeldRow
<1>9. PICK lines, number : /\ lines = RefundLines(row)
                           /\ Post(number, DepositRef(d), lines)
      BY <1>1 DEF RefundCommit
<1>10. PICK f : /\ f.lines = lines /\ f \notin Deposits(d)
                /\ EntriesOf(journal', DepositRef(d)) = Deposits(d) \cup {f}
                /\ \A b : b # d => EntriesOf(journal', DepositRef(b)) = EntriesOf(journal, DepositRef(b))
      BY <1>9, DepositPosts
<1>11. deposit' = [deposit EXCEPT ![d] = new] /\ Done(p)
      BY <1>1, <1>6 DEF RefundCommit
<1>12. deposit'[d] = new /\ RowMoves(d)
  <2>1. deposit'[d] = new /\ new \notin {None, Gone}
        BY <1>3, <1>8, <1>11 DEF IInv, TypeInv, NoSuchRow
  <2> QED BY <1>5, <1>7, <2>1 DEF RowMoves, Deposited
<1>13. d \notin disturbed => OnBooksOK(d)'
  <2>1. SUFFICES ASSUME d \notin disturbed PROVE OnBooksOK(d)'
        OBVIOUS
  <2>2. BookedOnce(d, row)
        BY <1>3, <1>4, <1>5, <2>1 DEF DepositInv, OnBooksOK
  <2>3. PICK e : e.lines = HeldLines(row) /\ Deposits(d) = {e}
        BY <2>2 DEF BookedOnce
  <2>4. Deposits(d)' = {e, f} /\ e # f
        BY <1>10, <2>3 DEF Deposits
  <2>5. HeldLines(new) = HeldLines(row) /\ RefundLines(new) = RefundLines(row)
        BY <1>4, <1>7, <2>1 DEF HeldLines, RefundLines
  <2>6. new.refunded = new.amount
        BY <1>4, <1>7, <2>1
  <2>7. BookedBack(d, new)'
        BY <1>9, <1>10, <2>3, <2>4, <2>5, <2>6 DEF BookedBack
  <2>8. Deposited(d)' /\ new.account # None
        BY <1>3, <1>4, <1>7, <1>8, <1>12, <2>1 DEF Deposited, NoSuchRow, OnTheBooks
  <2> QED BY <1>7, <1>12, <2>7, <2>8 DEF OnBooksOK, BookedBack, Deposits, HeldLines, RefundLines,
             OnTheBooks, Deposited
<1>14. \A b \in DepositIds \ {d} : EntriesOf(journal', DepositRef(b)) = EntriesOf(journal, DepositRef(b))
       BY <1>10
<1>15. Deposited(d)' => HeldRow(new)
       BY <1>8
<1>16. OnBooksOK(d)' \/ d \in disturbed
       BY <1>13
<1>17. req[p].dep = d \/ deposit[d] = None
       BY <1>1
<1> HIDE DepositsAssumption, ExpensesAssumption, RowsAssumption
<1> QED BY <1>3, <1>11, <1>12, <1>14, <1>15, <1>16, <1>17, OneDepositBooks

\* A status move that books nothing: of a deposit that is not refunded by it, or
\* that was never on the books.
LEMMA AdvanceCommitBooks ==
    ASSUME NoSuchRow, IInv, DepositInv, NEW p \in Procs, AdvanceCommit(p), disturbed \subseteq disturbed'
    PROVE  DepositInv'
<1>1. PICK d, row, to : d = req[p].dep /\ row = req[p].row /\ to = req[p].to
      OBVIOUS
<1>2. /\ req[p].pc = "advancing" /\ CarriesDeposit(req[p]) /\ KnowsDeposit(req[p])
      /\ Carries(req[p]) /\ Knows(req[p])
      BY DEF DepositInv, IInv, AdvanceCommit, At
<1>3. d \in DepositIds /\ (OnTheBooks(row) => to # Refunded)
      BY <1>1, <1>2 DEF Carries, CarriesDeposit, WritingPcs, StatusPcs
<1>4. d \notin disturbed => deposit[d] = row /\ row.status # Refunded
      BY <1>1, <1>2 DEF Knows, KnowsDeposit, WritingPcs, StatusPcs
<1>5. Deposited(d) /\ HeldRow(deposit[d])
      BY <1>1, <1>3 DEF AdvanceCommit, DepositInv
<1>6. PICK new : new = Advanced(deposit[d], row, to)
      OBVIOUS
<1>7. /\ new.account = deposit[d].account /\ new.amount = deposit[d].amount
      /\ new.source = deposit[d].source /\ new.status = to
      /\ to # Refunded => new.refunded = deposit[d].refunded
      /\ DOMAIN new = DOMAIN deposit[d]
      BY <1>5, <1>6 DEF Advanced, HeldRow
<1>8. HeldRow(new)
      BY <1>5, <1>7 DEF HeldRow
<1>9. /\ deposit' = [deposit EXCEPT ![d] = new] /\ Done(p) /\ journal' = journal
      BY <1>1, <1>6 DEF AdvanceCommit
<1>10. deposit'[d] = new /\ Deposited(d)' /\ RowMoves(d)
  <2>1. deposit'[d] = new /\ new \notin {None, Gone}
        BY <1>3, <1>8, <1>9 DEF IInv, TypeInv, NoSuchRow
  <2> QED BY <1>5, <1>7, <2>1 DEF RowMoves, Deposited
<1>11. d \notin disturbed => OnBooksOK(d)'
  <2>1. SUFFICES ASSUME d \notin disturbed PROVE OnBooksOK(d)'
        OBVIOUS
  <2>2. OnBooksOK(d) /\ Deposits(d)' = Deposits(d)
        BY <1>3, <1>9, <2>1 DEF DepositInv, Deposits
  <2>3. CASE OnTheBooks(row)
    <3>1. BookedOnce(d, row)
          BY <1>4, <1>5, <2>1, <2>2, <2>3 DEF OnBooksOK
    <3>2. HeldLines(new) = HeldLines(row) /\ new.refunded = row.refunded
          BY <1>3, <1>4, <1>7, <2>1, <2>3 DEF HeldLines
    <3>3. BookedOnce(d, new)'
          BY <2>2, <3>1, <3>2 DEF BookedOnce
    <3>4. new.account # None /\ new.status # Refunded
          BY <1>3, <1>4, <1>7, <2>1, <2>3 DEF OnTheBooks
    <3> QED BY <1>10, <3>3, <3>4 DEF OnBooksOK, BookedOnce, Deposits, HeldLines, OnTheBooks
  <2>4. CASE ~OnTheBooks(row)
    <3>1. Deposits(d) = {} /\ new.account = None
          BY <1>4, <1>5, <1>7, <2>1, <2>2, <2>4 DEF OnBooksOK, OnTheBooks
    <3> QED BY <1>10, <2>2, <3>1 DEF OnBooksOK, OnTheBooks
  <2> QED BY <2>3, <2>4
<1>12. \A b \in DepositIds \ {d} : EntriesOf(journal', DepositRef(b)) = EntriesOf(journal, DepositRef(b))
       BY <1>9
<1>13. Deposited(d)' => HeldRow(new)
       BY <1>8
<1>14. OnBooksOK(d)' \/ d \in disturbed
       BY <1>11
<1>15. req[p].dep = d \/ deposit[d] = None
       BY <1>1
<1> HIDE DepositsAssumption, ExpensesAssumption, RowsAssumption
<1> QED BY <1>3, <1>9, <1>10, <1>12, <1>13, <1>14, <1>15, OneDepositBooks

\* A tracking deposit is written, and was none on the books before.
LEMMA TrackerBooks ==
    ASSUME IInv, DepositInv, NEW p \in Procs, NEW d \in DepositIds, NEW new,
           Done(p), deposit' = [deposit EXCEPT ![d] = new], journal' = journal,
           req[p].dep = d \/ deposit[d] = None,
           ~Deposited(d) \/ deposit[d].source # None,
           RowMoves(d), new = Gone \/ (HeldRow(new) /\ new.account = None),
           disturbed \subseteq disturbed'
    PROVE  DepositInv'
<1>1. deposit'[d] = new
      BY DEF IInv, TypeInv
<1>2. d \notin disturbed => Deposits(d) = {}
      BY DEF DepositInv, OnBooksOK, OnTheBooks, HeldRow
<1>3. d \notin disturbed => OnBooksOK(d)'
      BY <1>1, <1>2 DEF OnBooksOK, OnTheBooks, Deposited, Deposits
<1>4. OnBooksOK(d)' \/ d \in disturbed
      BY <1>3
<1>5. Deposited(d)' => HeldRow(new)
      BY <1>1 DEF Deposited
<1>6. \A b \in DepositIds \ {d} : EntriesOf(journal', DepositRef(b)) = EntriesOf(journal, DepositRef(b))
      OBVIOUS
<1> HIDE DepositsAssumption, ExpensesAssumption, RowsAssumption
<1> QED BY <1>4, <1>5, <1>6, OneDepositBooks

LEMMA TrackCommitBooks ==
    ASSUME IInv, DepositInv, NEW p \in Procs, NEW d \in DepositIds, TrackCommit(p, d),
           disturbed \subseteq disturbed'
    PROVE  DepositInv'
<1>1. PICK cost, new : /\ cost = req[p].cost
                       /\ new = DepositRow(req[p].number, cost.source, cost.job, cost.amount, None)
      OBVIOUS
<1>2. cost.source \in BillIds /\ cost.amount \in Nat \ {0}
  <2>1. CarriesDeposit(req[p]) /\ req[p].pc = "tracked"
        BY DEF DepositInv, TrackCommit, At
  <2> QED BY <1>1, <2>1 DEF CarriesDeposit, SyncPcs
<1>3. HeldRow(new) /\ new.account = None
      BY <1>1, <1>2 DEF HeldRow, DepositRow
<1>4. /\ deposit' = [deposit EXCEPT ![d] = new] /\ deposit[d] = None /\ Done(p)
      /\ journal' = journal
      BY <1>1 DEF TrackCommit
<1>5. RowMoves(d) /\ ~Deposited(d)
      BY <1>4 DEF RowMoves, Deposited
<1>6. ~Deposited(d) \/ deposit[d].source # None
      BY <1>5
<1> HIDE DepositsAssumption, ExpensesAssumption, RowsAssumption
<1> QED BY <1>3, <1>4, <1>5, <1>6, TrackerBooks

LEMMA ResizeRemoveBooks ==
    ASSUME NoSuchRow, IInv, DepositInv, NEW p \in Procs, ResizeCommit(p) \/ RemoveCommit(p),
           disturbed \subseteq disturbed'
    PROVE  DepositInv'
<1>1. PICK d, amount : d = req[p].dep /\ amount = req[p].cost.amount
      OBVIOUS
<1>2. /\ req[p].pc \in {"resizing", "removing"} /\ CarriesDeposit(req[p]) /\ KnowsDeposit(req[p])
      /\ Carries(req[p])
      BY DEF DepositInv, IInv, ResizeCommit, RemoveCommit, At
<1>3. d \in DepositIds
      BY <1>1, <1>2 DEF Carries, WritingPcs
<1>4. Deposited(d) /\ HeldRow(deposit[d]) /\ deposit[d].source # None
      BY <1>1, <1>2, <1>3 DEF ResizeCommit, RemoveCommit, DepositInv, KnowsDeposit
<1>5. Done(p) /\ journal' = journal /\ req[p].dep = d
      BY <1>1 DEF ResizeCommit, RemoveCommit
<1>6. \E new : /\ deposit' = [deposit EXCEPT ![d] = new] /\ RowMoves(d)
               /\ new = Gone \/ (HeldRow(new) /\ new.account = None)
  <2>1. CASE ResizeCommit(p)
    <3>1. amount \in Nat \ {0}
      <4>1. req[p].pc = "resizing"
            BY <2>1 DEF ResizeCommit, At
      <4> QED BY <1>1, <1>2, <4>1 DEF CarriesDeposit, SyncPcs
    <3>2. PICK new : new = Resized(deposit[d], amount)
          OBVIOUS
    <3>3. /\ HeldRow(new) /\ new.account = None /\ new.source = deposit[d].source
          BY <1>4, <3>1, <3>2 DEF HeldRow, Resized
    <3>4. deposit' = [deposit EXCEPT ![d] = new]
          BY <1>1, <2>1, <3>2 DEF ResizeCommit
    <3>5. deposit'[d] = new /\ new \notin {None, Gone}
          BY <1>3, <3>3, <3>4 DEF IInv, TypeInv, NoSuchRow
    <3>6. RowMoves(d)
          BY <1>4, <3>3, <3>5 DEF RowMoves
    <3> QED BY <3>3, <3>4, <3>6
  <2>2. CASE RemoveCommit(p)
    <3>1. deposit' = [deposit EXCEPT ![d] = Gone]
          BY <1>1, <2>2 DEF RemoveCommit
    <3>2. deposit'[d] = Gone
          BY <1>3, <3>1 DEF IInv, TypeInv
    <3>3. RowMoves(d)
          BY <3>2 DEF RowMoves, Deposited
    <3> QED BY <3>1, <3>3
  <2> QED BY <2>1, <2>2
<1>7. PICK new : /\ deposit' = [deposit EXCEPT ![d] = new]
                 /\ RowMoves(d) /\ (new = Gone \/ (HeldRow(new) /\ new.account = None))
      BY <1>6
<1>8. ~Deposited(d) \/ deposit[d].source # None
      BY <1>4
<1>9. req[p].dep = d \/ deposit[d] = None
      BY <1>5
<1> HIDE DepositsAssumption, ExpensesAssumption, RowsAssumption
<1> QED BY <1>3, <1>5, <1>7, <1>8, <1>9, TrackerBooks

\* A request of the deposits' that goes on without a commit.
Reading(p, r) ==
    /\ req' = [req EXCEPT ![p] = r] /\ CarriesDeposit(r) /\ KnowsDeposit(r)
    /\ deposit' = deposit /\ journal' = journal

LEMMA ReadingKeeps ==
    ASSUME IInv, DepositInv, NEW p \in Procs, NEW r, Reading(p, r), disturbed \subseteq disturbed'
    PROVE  DepositInv'
<1>1. /\ req' = [req EXCEPT ![p] = r] /\ CarriesDeposit(r) /\ KnowsDeposit(r) /\ deposit' = deposit
      BY DEF Reading
<1>2. \A d \in DepositIds : EntriesOf(journal', DepositRef(d)) = EntriesOf(journal, DepositRef(d))
      BY DEF Reading
<1> HIDE DepositsAssumption, ExpensesAssumption, RowsAssumption
<1> QED BY <1>1, <1>2, DepositReadStep

LEMMA IdleHoldsNothing == CarriesDeposit(Idle) /\ KnowsDeposit(Idle)
BY DEF Idle, CarriesDeposit, KnowsDeposit, StatusPcs, SyncPcs, WritingPcs

LEMMA DepositNumberReads ==
    ASSUME NEW p, NEW dto \in DepositDtos, DepositNumber(p, dto)
    PROVE  \E r : Reading(p, r)
<1>1. PICK n : n = NextNumber(DepositRows, dto.year)
      OBVIOUS
<1>2. PICK r : r = [Idle EXCEPT !.pc = "depositing", !.dto = dto, !.number = n]
      OBVIOUS
<1>3. r.pc = "depositing" /\ r.dto = dto /\ r.own.entries = {}
      BY <1>2 DEF Idle
<1>4. CarriesDeposit(r) /\ KnowsDeposit(r)
      BY <1>3 DEF CarriesDeposit, KnowsDeposit, StatusPcs, SyncPcs, WritingPcs
<1>5. Reading(p, r)
      BY <1>1, <1>2, <1>4 DEF DepositNumber, Reading, depositVars
<1> QED BY <1>5

LEMMA OnwardReads ==
    ASSUME IInv, DepositInv, NEW p \in Procs, NEW y,
           DepositEntryNumber(p) \/ TrackNumber(p) \/ RefundNumber(p, y)
    PROVE  \E r : Reading(p, r)
<1>1. RequestShape(req[p]) /\ CarriesDeposit(req[p]) /\ KnowsDeposit(req[p]) /\ DOMAIN req = Procs
      BY DEF IInv, TypeInv, DepositInv
<1>2. CASE DepositEntryNumber(p)
  <2>1. PICK n : n = NextNumber(journal, req[p].dto.year)
        OBVIOUS
  <2>2. PICK r : r = [req[p] EXCEPT !.pc = "booking", !.entryNumber = n]
        OBVIOUS
  <2>3. /\ r.pc = "booking" /\ r.dto = req[p].dto /\ r.own = req[p].own
        /\ req[p].pc = "depositing"
        BY <1>1, <1>2, <2>2 DEF RequestShape, DepositEntryNumber, At
  <2>4. CarriesDeposit(r) /\ KnowsDeposit(r)
        BY <1>1, <2>3 DEF CarriesDeposit, KnowsDeposit, StatusPcs, SyncPcs, WritingPcs
  <2>5. req' = [req EXCEPT ![p] = r]
        BY <1>1, <1>2, <2>1, <2>2 DEF DepositEntryNumber
  <2>6. Reading(p, r)
        BY <1>2, <2>4, <2>5 DEF DepositEntryNumber, Reading, depositVars
  <2> QED BY <2>6
<1>3. CASE TrackNumber(p)
  <2>1. PICK n : n = NextNumber(DepositRows, req[p].cost.year)
        OBVIOUS
  <2>2. PICK r : r = [req[p] EXCEPT !.pc = "tracked", !.number = n]
        OBVIOUS
  <2>3. /\ r.pc = "tracked" /\ r.cost = req[p].cost /\ r.own = req[p].own
        /\ req[p].pc = "tracking"
        BY <1>1, <1>3, <2>2 DEF RequestShape, TrackNumber, At
  <2>4. CarriesDeposit(r) /\ KnowsDeposit(r)
        BY <1>1, <2>3 DEF CarriesDeposit, KnowsDeposit, StatusPcs, SyncPcs, WritingPcs
  <2>5. req' = [req EXCEPT ![p] = r]
        BY <1>1, <1>3, <2>1, <2>2 DEF TrackNumber
  <2>6. Reading(p, r)
        BY <1>3, <2>4, <2>5 DEF TrackNumber, Reading, depositVars
  <2> QED BY <2>6
<1>4. CASE RefundNumber(p, y)
  <2>1. PICK n : n = NextNumber(journal, y)
        OBVIOUS
  <2>2. PICK r : r = [req[p] EXCEPT !.pc = "repaying", !.entryNumber = n]
        OBVIOUS
  <2>3. /\ r.pc = "repaying" /\ r.row = req[p].row /\ r.to = req[p].to /\ r.own = req[p].own
        /\ r.dep = req[p].dep /\ req[p].pc = "refunding"
        BY <1>1, <1>4, <2>2 DEF RequestShape, RefundNumber, At
  <2>4. CarriesDeposit(r) /\ KnowsDeposit(r)
        BY <1>1, <2>3 DEF CarriesDeposit, KnowsDeposit, StatusPcs, SyncPcs, WritingPcs
  <2>5. req' = [req EXCEPT ![p] = r]
        BY <1>1, <1>4, <2>1, <2>2 DEF RefundNumber
  <2>6. Reading(p, r)
        BY <1>4, <2>4, <2>5 DEF RefundNumber, Reading, depositVars
  <2> QED BY <2>6
<1> QED BY <1>2, <1>3, <1>4

LEMMA StatusReadReads ==
    ASSUME DepositInv, NEW p, NEW d \in DepositIds, NEW to, StatusRead(p, d, to)
    PROVE  \E r : Reading(p, r)
<1>1. PICK pc : pc = IF to = Refunded /\ OnTheBooks(deposit[d]) THEN "refunding" ELSE "advancing"
      OBVIOUS
<1>2. PICK r : r = [Idle EXCEPT !.pc = pc, !.dep = d, !.row = deposit[d], !.to = to]
      OBVIOUS
<1>3. /\ r.pc = pc /\ r.dep = d /\ r.row = deposit[d] /\ r.to = to /\ r.own.entries = {}
      BY <1>2 DEF Idle
<1>4. Deposited(d) /\ HeldRow(deposit[d])
      BY DEF StatusRead, DepositInv
<1>5. CarriesDeposit(r)
      BY <1>1, <1>3, <1>4 DEF CarriesDeposit, StatusPcs, SyncPcs
<1>6. KnowsDeposit(r)
      BY <1>1, <1>3, <1>4 DEF KnowsDeposit, StatusPcs, WritingPcs, Deposited
<1>7. Reading(p, r)
      BY <1>1, <1>2, <1>5, <1>6 DEF StatusRead, Reading, depositVars
<1> QED BY <1>7

LEMMA SyncFindReads ==
    ASSUME IInv, DepositInv, NEW p \in Procs, SyncFind(p)
    PROVE  \E r : Reading(p, r)
<1>1. PICK cost, found : cost = req[p].cost /\ found = TrackersOf(cost.source)
      OBVIOUS
<1>2. PICK d, plan :
        /\ d \in IF found = {} THEN {None} ELSE found
        /\ plan = SyncPlan(cost.amount, d)
        /\ req' = [req EXCEPT ![p] = IF plan = "idle" THEN Idle
                                     ELSE [@ EXCEPT !.pc = plan, !.dep = d]]
      BY <1>1 DEF SyncFind
<1>3. RequestShape(req[p]) /\ CarriesDeposit(req[p]) /\ req[p].pc = "syncing" /\ DOMAIN req = Procs
      BY DEF IInv, TypeInv, DepositInv, SyncFind, At
<1>4. deposit' = deposit /\ journal' = journal
      BY DEF SyncFind, depositVars
<1>5. CASE plan = "idle"
  <2>1. Reading(p, Idle)
        BY <1>2, <1>4, <1>5, IdleHoldsNothing DEF Reading
  <2> QED BY <2>1
<1>6. CASE plan # "idle"
  <2>1. PICK r : r = [req[p] EXCEPT !.pc = plan, !.dep = d]
        OBVIOUS
  <2>2. req' = [req EXCEPT ![p] = r]
        BY <1>2, <1>3, <1>6, <2>1
  <2>3. r.pc = plan /\ r.dep = d /\ r.cost = cost /\ r.own = req[p].own
        BY <1>1, <1>3, <2>1 DEF RequestShape
  <2>4. /\ plan \in {"tracking", "resizing", "removing"}
        /\ plan # "removing" => cost.amount > 0
        /\ plan # "tracking" => d # None
        BY <1>2, <1>6 DEF SyncPlan
  <2>5. d # None => Deposited(d) /\ deposit[d].source = cost.source
        BY <1>1, <1>2 DEF TrackersOf
  <2>6. cost.source \in BillIds /\ cost.amount \in Int
        BY <1>1, <1>3 DEF CarriesDeposit, SyncPcs
  <2>7. CarriesDeposit(r)
        BY <1>3, <2>3, <2>4, <2>6 DEF CarriesDeposit, StatusPcs, SyncPcs
  <2>8. KnowsDeposit(r)
        BY <2>3, <2>4, <2>5, <2>6 DEF KnowsDeposit, StatusPcs, WritingPcs, Deposited
  <2>9. Reading(p, r)
        BY <1>4, <2>2, <2>7, <2>8 DEF Reading
  <2> QED BY <2>9
<1> QED BY <1>5, <1>6

LEMMA DepositStepBooks ==
    ASSUME NoSuchRow, IInv, DepositInv, NEW p \in Procs, NEW y, DepositStep(p, y), disturbed \subseteq disturbed'
    PROVE  DepositInv'
<1>1. ASSUME \E r : Reading(p, r) PROVE DepositInv'
      BY <1>1, ReadingKeeps
<1>2. ASSUME NEW dto \in DepositDtos, DepositNumber(p, dto) PROVE DepositInv'
      BY <1>1, <1>2, DepositNumberReads
<1>3. CASE DepositEntryNumber(p) \/ TrackNumber(p) \/ RefundNumber(p, y)
      BY <1>1, <1>3, OnwardReads
<1>4. CASE SyncFind(p)
      BY <1>1, <1>4, SyncFindReads
<1>5. ASSUME NEW d \in DepositIds, NEW to, StatusRead(p, d, to) PROVE DepositInv'
      BY <1>1, <1>5, StatusReadReads
<1>6. ASSUME NEW d \in DepositIds, DepositCommit(p, d) PROVE DepositInv'
      BY <1>6, DepositCommitBooks
<1>7. ASSUME NEW d \in DepositIds, TrackCommit(p, d) PROVE DepositInv'
      BY <1>7, TrackCommitBooks
<1>8. CASE ResizeCommit(p) \/ RemoveCommit(p)
      BY <1>8, ResizeRemoveBooks
<1>9. CASE AdvanceCommit(p)
      BY <1>9, AdvanceCommitBooks
<1>10. CASE RefundCommit(p)
      BY <1>10, RefundCommitBooks
<1> QED BY <1>2, <1>3, <1>4, <1>5, <1>6, <1>7, <1>8, <1>9, <1>10 DEF DepositStep

\* A request that has nothing to do with deposits, or is on its way to bring the
\* one of bill id in line.
Apart(r) ==
    /\ \/ r.pc \notin DepositPcs \ {"idle"}
       \/ r.pc = "syncing" /\ r.cost.source \in BillIds /\ r.cost.amount \in Int
    /\ \A e \in r.own.entries : e.ref[1] # "DEPOSIT"

LEMMA ApartOK == ASSUME NEW r, Apart(r) PROVE CarriesDeposit(r) /\ KnowsDeposit(r)
BY DEF Apart, DepositPcs, SyncPcs, StatusPcs, WritingPcs, CarriesDeposit, KnowsDeposit

\* A bill request's step, as the deposits see it.
Aside(p) ==
    /\ \E r : req' = [req EXCEPT ![p] = r] /\ Apart(r)
    /\ deposit' = deposit
    /\ \E more : journal' = journal \cup more /\ \A e \in more : e.ref[1] # "DEPOSIT"

LEMMA AsideKeeps ==
    ASSUME IInv, DepositInv, NEW p \in Procs, Aside(p), disturbed \subseteq disturbed'
    PROVE  DepositInv'
<1>1. PICK r : req' = [req EXCEPT ![p] = r] /\ Apart(r)
      BY DEF Aside
<1>2. PICK more : journal' = journal \cup more /\ \A e \in more : e.ref[1] # "DEPOSIT"
      BY DEF Aside
<1>3. \A d \in DepositIds : EntriesOf(journal', DepositRef(d)) = EntriesOf(journal, DepositRef(d))
      BY <1>2 DEF EntriesOf, DepositRef
<1>4. CarriesDeposit(r) /\ KnowsDeposit(r) /\ deposit' = deposit
      BY <1>1, ApartOK DEF Aside
<1> HIDE DepositsAssumption, ExpensesAssumption, RowsAssumption
<1> QED BY <1>1, <1>3, <1>4, DepositReadStep

\* A step that leaves the journal to others.
LEMMA AsideReads ==
    ASSUME NEW p, NEW r, req' = [req EXCEPT ![p] = r], Apart(r), deposit' = deposit, journal' = journal
    PROVE  Aside(p)
<1>1. journal' = journal \cup {}
      OBVIOUS
<1> QED BY <1>1 DEF Aside

LEMMA StartsAside == ASSUME NEW p, Starts(p) PROVE Aside(p)
<1>1. PICK r : /\ req' = [req EXCEPT ![p] = r] /\ r.own = Idle.own
               /\ r.pc \in {"billing", "updating", "rejecting", "deleting", "approving", "paying"}
      BY DEF Starts
<1>2. Apart(r)
      BY <1>1 DEF Apart, Idle, DepositPcs, SyncPcs
<1> QED BY <1>1, <1>2, AsideReads DEF Starts, Reads

\* The middle of a payment or an approval: the entries it adds to its own are not a
\* deposit's.
LEMMA MiddlesAside ==
    ASSUME IInv, DepositInv, NEW p \in Procs, NEW y,
           \/ ApproveNumber(p, y) \/ PayRead(p) \/ PayPostFirst(p, y) \/ PaySum(p)
           \/ PayNumber(p, y) \/ \E bank \in BankAccounts : PaySettle(p, y, bank)
    PROVE  Aside(p)
<1>1. /\ RequestShape(req[p]) /\ DOMAIN req = Procs
      /\ \A e \in req[p].own.entries : e.ref[1] # "DEPOSIT"
      BY DEF IInv, TypeInv, DepositInv, CarriesDeposit
<1>2. ASSUME NEW r, req' = [req EXCEPT ![p] = r], NEW more, \A e \in more : e.ref[1] # "DEPOSIT",
             r.own.entries = req[p].own.entries \cup more,
             r.pc \in {"posting", "summing", "posting first", "numbering", "settling",
                       "clearing", "paying"}, Reads
      PROVE  Aside(p)
  <2>1. Apart(r)
        BY <1>1, <1>2 DEF Apart, DepositPcs, SyncPcs
  <2> QED BY <1>2, <2>1, AsideReads DEF Reads
<1>3. ASSUME NEW r, req' = [req EXCEPT ![p] = r], r.own.entries = req[p].own.entries,
             r.pc \in {"posting", "summing", "posting first", "numbering", "settling",
                       "clearing", "paying"}, Reads
      PROVE  Aside(p)
  <2>1. PICK more : more = {}
        OBVIOUS
  <2>2. r.own.entries = req[p].own.entries \cup more /\ \A e \in more : e.ref[1] # "DEPOSIT"
        BY <1>3, <2>1
  <2> QED BY <1>2, <1>3, <2>2
<1>4. CASE ApproveNumber(p, y)
  <2>1. PICK r : r = [req[p] EXCEPT !.pc = "posting", !.entryNumber = NextNumber(journal, y)]
        OBVIOUS
  <2>2. r.pc = "posting" /\ r.own = req[p].own
        BY <1>1, <2>1 DEF RequestShape
  <2>3. req' = [req EXCEPT ![p] = r] /\ Reads
        BY <1>1, <1>4, <2>1 DEF ApproveNumber
  <2> QED BY <1>3, <2>2, <2>3
<1>5. CASE PayRead(p)
  <2>1. PICK id, pc : /\ id = Head(req[p].batch).id
                      /\ pc = IF Posted2Ap(bill[id]) \/ PostedByUs(p, id) THEN "summing"
                              ELSE "posting first"
        OBVIOUS
  <2>2. PICK r : r = [req[p] EXCEPT !.id = id, !.row = bill[id], !.pc = pc]
        OBVIOUS
  <2>3. r.pc = pc /\ r.own = req[p].own
        BY <1>1, <2>2 DEF RequestShape
  <2>4. req' = [req EXCEPT ![p] = r] /\ Reads
        BY <1>1, <1>5, <2>1, <2>2 DEF PayRead
  <2> QED BY <1>3, <2>1, <2>3, <2>4
<1>6. CASE PayPostFirst(p, y)
  <2>1. PICK n, e : n = NextNumber(Entries(p), y)
                    /\ e = NewEntry(n, n, BillRef(req[p].id), ApLines(req[p].row))
        OBVIOUS
  <2>2. PICK r : r = [req[p] EXCEPT !.pc = "summing", !.own.entries = @ \cup {e}]
        OBVIOUS
  <2>3. r.pc = "summing" /\ r.own.entries = req[p].own.entries \cup {e}
        BY <1>1, <2>2 DEF RequestShape
  <2>4. req' = [req EXCEPT ![p] = r]
    <3>1. req' = [req EXCEPT ![p].pc = "summing", ![p].own.entries = @ \cup {e}]
          BY <1>6, <2>1 DEF PayPostFirst
    <3> QED BY <1>1, <2>2, <3>1 DEF RequestShape
  <2>5. e.ref[1] = "EXPENSE"
        BY <2>1 DEF NewEntry, BillRef
  <2>6. PICK more : more = {e}
        OBVIOUS
  <2>7. r.own.entries = req[p].own.entries \cup more /\ (\A x \in more : x.ref[1] # "DEPOSIT") /\ Reads
        BY <1>6, <2>3, <2>5, <2>6 DEF PayPostFirst
  <2> QED BY <1>2, <2>3, <2>4, <2>7
<1>7. CASE PaySum(p)
  <2>1. PICK r : r = [req[p] EXCEPT !.pc = "numbering"]
        OBVIOUS
  <2>2. r.pc = "numbering" /\ r.own = req[p].own
        BY <1>1, <2>1 DEF RequestShape
  <2>3. req' = [req EXCEPT ![p] = r] /\ Reads
        BY <1>1, <1>7, <2>1 DEF PaySum
  <2> QED BY <1>3, <2>2, <2>3
<1>8. CASE PayNumber(p, y)
  <2>1. PICK n, pay : /\ n = NextNumber(Payments(p), y)
                      /\ pay = [number |-> n, bill |-> req[p].id, amount |-> Head(req[p].batch).amount]
        OBVIOUS
  <2>2. PICK r : r = [req[p] EXCEPT !.pc = "settling", !.number = n, !.own.payments = @ \cup {pay}]
        OBVIOUS
  <2>3. r.pc = "settling" /\ r.own.entries = req[p].own.entries
        BY <1>1, <2>2 DEF RequestShape
  <2>4. req' = [req EXCEPT ![p] = r] /\ Reads
    <3>1. req' = [req EXCEPT ![p].pc = "settling", ![p].number = n, ![p].own.payments = @ \cup {pay}]
          BY <1>8, <2>1 DEF PayNumber
    <3> QED BY <1>1, <1>8, <2>2, <3>1 DEF RequestShape, PayNumber
  <2> QED BY <1>3, <2>3, <2>4
<1>9. ASSUME NEW bank, PaySettle(p, y, bank) PROVE Aside(p)
  <2>1. PICK n, rest, pc : /\ n = NextNumber(Entries(p), y) /\ rest = Tail(req[p].batch)
                           /\ pc = IF rest = <<>> THEN "clearing" ELSE "paying"
        OBVIOUS
  <2>2. PICK e : e = NewEntry(n, n, PaymentRef(req[p].number),
                              PaymentLines(bank, Head(req[p].batch).amount))
        OBVIOUS
  <2>3. PICK r : r = [req[p] EXCEPT !.pc = pc, !.batch = rest, !.own.entries = @ \cup {e}]
        OBVIOUS
  <2>4. r.pc = pc /\ r.own.entries = req[p].own.entries \cup {e}
        BY <1>1, <2>3 DEF RequestShape
  <2>5. req' = [req EXCEPT ![p] = r]
    <3>1. req' = [req EXCEPT ![p].pc = pc, ![p].batch = rest, ![p].own.entries = @ \cup {e}]
          BY <1>9, <2>1, <2>2 DEF PaySettle
    <3> QED BY <1>1, <2>3, <3>1 DEF RequestShape
  <2>6. e.ref[1] = "PAYMENT"
        BY <2>2 DEF NewEntry, PaymentRef
  <2>7. PICK more : more = {e}
        OBVIOUS
  <2>8. r.own.entries = req[p].own.entries \cup more /\ (\A x \in more : x.ref[1] # "DEPOSIT") /\ Reads
        BY <1>9, <2>4, <2>6, <2>7 DEF PaySettle
  <2> QED BY <1>2, <2>1, <2>4, <2>5, <2>8
<1> QED BY <1>4, <1>5, <1>6, <1>7, <1>8, <1>9

LEMMA IdleApart == Apart(Idle)
BY DEF Apart, Idle, DepositPcs, SyncPcs

\* A bill that is written takes its deposit along.
LEMMA ThenSyncAside ==
    ASSUME NEW p, NEW id \in BillIds, NEW row \in BillRow, ThenSync(p, id, row),
           deposit' = deposit, journal' = journal
    PROVE  Aside(p)
<1>1. PICK r : r = IF row.job = None THEN Idle
                   ELSE [Idle EXCEPT !.pc = "syncing", !.id = id,
                            !.cost = [source |-> id, job |-> row.job, year |-> row.year,
                                      amount |-> row.deposit]]
      OBVIOUS
<1>2. req' = [req EXCEPT ![p] = r]
      BY <1>1 DEF ThenSync
<1>3. row.deposit \in Int
      BY DEF BillRow
<1>4. Apart(r)
  <2>1. CASE row.job = None
        BY <1>1, <2>1, IdleApart
  <2>2. CASE row.job # None
    <3>1. r.pc = "syncing" /\ r.cost.source = id /\ r.cost.amount = row.deposit /\ r.own.entries = {}
          BY <1>1, <2>2 DEF Idle
    <3> QED BY <1>3, <3>1 DEF Apart
  <2> QED BY <2>1, <2>2
<1> QED BY <1>2, <1>4, AsideReads

LEMMA BillCommitsAside ==
    ASSUME IInv, DepositInv, NEW p \in Procs,
           \/ \E id \in BillIds : BillCommit(p, id)
           \/ UpdateCommit(p) \/ RejectCommit(p) \/ DeleteCommit(p) \/ ApproveCommit(p)
           \/ PayCommit(p)
    PROVE  Aside(p)
<1>1. ASSUME NEW id \in BillIds, BillCommit(p, id) PROVE Aside(p)
  <2>1. PICK row : row = CreatedRow(req[p].dto, req[p].number)
        OBVIOUS
  <2>2. req[p].dto \in CreateDtos /\ req[p].number \in Numbers
        BY <1>1 DEF IInv, Carries, BillCommit, At
  <2>3. row \in BillRow
        BY <2>1, <2>2, CreatedRowType
  <2>4. ThenSync(p, id, row) /\ deposit' = deposit /\ journal' = journal
        BY <1>1, <2>1 DEF BillCommit
  <2> QED BY <2>3, <2>4, ThenSyncAside
<1>2. CASE UpdateCommit(p)
  <2>1. PICK id, row : id = req[p].id /\ row = Updated(bill[id], req[p].row, req[p].dto)
        OBVIOUS
  <2>2. req[p].pc = "updating" /\ req[p].pc \in CheckedPcs /\ Live(req[p].id)
        BY <1>2 DEF UpdateCommit, At, CheckedPcs
  <2>3. req[p].dto \in UpdateDtos
        BY <2>2 DEF IInv, Carries
  <2>4. row \in BillRow /\ id \in BillIds
        BY <2>1, <2>2, <2>3, CheckedBill, UpdatedType
  <2>5. ThenSync(p, id, row) /\ deposit' = deposit /\ journal' = journal
        BY <1>2, <2>1 DEF UpdateCommit
  <2> QED BY <2>4, <2>5, ThenSyncAside
<1>3. CASE RejectCommit(p) \/ DeleteCommit(p)
  <2>1. req' = [req EXCEPT ![p] = Idle] /\ deposit' = deposit /\ journal' = journal
        BY <1>3 DEF RejectCommit, DeleteCommit, Done
  <2> QED BY <2>1, IdleApart, AsideReads
<1>4. CASE ApproveCommit(p)
  <2>1. PICK e : e = NewEntry(req[p].entryNumber, req[p].entryNumber, BillRef(req[p].id),
                              ApLines(req[p].row))
        OBVIOUS
  <2>2. journal' = journal \cup {e} /\ req' = [req EXCEPT ![p] = Idle] /\ deposit' = deposit
        BY <1>4, <2>1 DEF ApproveCommit, Post, Done
  <2>3. PICK more : more = {e}
        OBVIOUS
  <2>4. \A x \in more : x.ref[1] # "DEPOSIT"
        BY <2>1, <2>3 DEF NewEntry, BillRef
  <2> QED BY <2>2, <2>3, <2>4, IdleApart DEF Aside
<1>5. CASE PayCommit(p)
  <2>1. /\ req' = [req EXCEPT ![p] = Idle] /\ deposit' = deposit
        /\ journal' = journal \cup req[p].own.entries
        BY <1>5 DEF PayCommit, Done
  <2>2. \A e \in req[p].own.entries : e.ref[1] # "DEPOSIT"
        BY DEF DepositInv, CarriesDeposit
  <2> QED BY <2>1, <2>2, IdleApart DEF Aside
<1> QED BY <1>1, <1>2, <1>3, <1>4, <1>5

LEMMA BillStepAside ==
    ASSUME IInv, DepositInv, NEW p \in Procs, NEW y, BillStep(p, y)
    PROVE  Aside(p)
<1>1. CASE \/ \E dto \in CreateDtos : BillNumber(p, dto)
           \/ \E id \in BillIds, dto \in UpdateDtos : EditRead(p, id, "updating", dto)
           \/ \E id \in BillIds : EditRead(p, id, "rejecting", None)
           \/ \E id \in BillIds : EditRead(p, id, "deleting", None)
           \/ \E id \in BillIds : ApproveRead(p, id)
           \/ \E batch \in Batches : PayBegin(p, batch)
      BY <1>1, FirstReads, StartsAside
<1>2. CASE \/ ApproveNumber(p, y) \/ PayRead(p) \/ PayPostFirst(p, y) \/ PaySum(p)
           \/ PayNumber(p, y) \/ \E bank \in BankAccounts : PaySettle(p, y, bank)
      BY <1>2, MiddlesAside
<1>3. CASE \/ \E id \in BillIds : BillCommit(p, id)
           \/ UpdateCommit(p) \/ RejectCommit(p) \/ DeleteCommit(p) \/ ApproveCommit(p)
           \/ PayCommit(p)
      BY <1>3, BillCommitsAside
<1> QED BY <1>1, <1>2, <1>3 DEF BillStep

LEMMA DepositInitOK == Init => DepositInv
<1> SUFFICES ASSUME Init PROVE DepositInv
    OBVIOUS
<1>1. \A p \in Procs : req[p] = Idle
      BY DEF Init
<1>2. \A d \in DepositIds : ~Deposited(d) /\ Deposits(d) = {}
      BY DEF Init, Deposited, Deposits, EntriesOf
<1> QED BY <1>1, <1>2, IdleHoldsNothing DEF DepositInv, OnBooksOK

LEMMA DepositNextKeeps == ASSUME NoSuchRow PROVE IInv /\ DepositInv /\ [Next]_vars => DepositInv'
<1> SUFFICES ASSUME IInv, DepositInv, [Next]_vars PROVE DepositInv'
    OBVIOUS
<1>1. ASSUME NEW p \in Procs, NEW y \in Years, BillStep(p, y),
             disturbed' = disturbed \cup Overlapping'
      PROVE  DepositInv'
      BY <1>1, BillStepAside, AsideKeeps
<1>2. ASSUME NEW p \in Procs, NEW y \in Years, DepositStep(p, y),
             disturbed' = disturbed \cup Overlapping'
      PROVE  DepositInv'
      BY <1>2, DepositStepBooks
<1>3. ASSUME NEW p \in Procs, Abort(p), disturbed' = disturbed \cup CutOff(p) PROVE DepositInv'
  <2>1. Aside(p)
        BY <1>3, IdleApart, AsideReads DEF Abort, Done, Reads
  <2> QED BY <1>3, <2>1, AsideKeeps
<1>4. CASE UNCHANGED vars
  <2>1. UNCHANGED <<deposit, journal, req, disturbed>>
        BY <1>4 DEF vars
  <2>2. \A d \in DepositIds : Deposited(d)' => HeldRow(deposit'[d])
        BY <2>1 DEF DepositInv, Deposited
  <2>3. ASSUME NEW p \in Procs PROVE CarriesDeposit(req[p])' /\ KnowsDeposit(req[p])'
        BY <2>1 DEF DepositInv, CarriesDeposit, KnowsDeposit, Deposited
  <2>4. ASSUME NEW d \in DepositIds \ disturbed' PROVE OnBooksOK(d)'
    <3>1. OnBooksOK(d)
          BY <2>1, <2>4 DEF DepositInv
    <3>2. BookedOnce(d, deposit[d]) => BookedOnce(d, deposit[d])'
          BY <2>1 DEF BookedOnce, Deposits
    <3>3. BookedBack(d, deposit[d]) => BookedBack(d, deposit[d])'
          BY <2>1 DEF BookedBack, Deposits
    <3> QED BY <2>1, <3>1, <3>2, <3>3 DEF OnBooksOK, Deposited, Deposits
  <2> QED BY <2>2, <2>3, <2>4 DEF DepositInv
<1> QED BY <1>1, <1>2, <1>3, <1>4 DEF Next

LEMMA AlwaysDepositInv == ASSUME NoSuchRow PROVE Spec => []DepositInv
<1>1. IInv /\ DepositInv /\ [Next]_vars => DepositInv'
      BY DepositNextKeeps
<1> QED BY <1>1, AlwaysIInv, DepositInitOK, PTL DEF Spec

\* What the two lines of a deposit do to the bank.
LEMMA BankLines ==
    ASSUME TypeOf[Bank] = "BANK", NEW row, row.amount \in Nat, row.account # Bank
    PROVE  /\ HasAmounts(HeldLines(row)) /\ LinesDelta(HeldLines(row), Bank) = -row.amount
           /\ HasAmounts(RefundLines(row)) /\ LinesDelta(RefundLines(row), Bank) = row.amount
<1>1. PICK held, back : held = HeldLines(row) /\ back = RefundLines(row)
      OBVIOUS
<1>2. /\ DOMAIN held = {1, 2} /\ held[1].account = row.account /\ held[2].account = Bank
      /\ held[1].amount = row.amount /\ held[2].amount = row.amount /\ held[2].side = "CREDIT"
      BY <1>1 DEF HeldLines, Debit, Credit
<1>3. /\ DOMAIN back = {1, 2} /\ back[1].account = Bank /\ back[2].account = row.account
      /\ back[1].amount = row.amount /\ back[2].amount = row.amount /\ back[1].side = "DEBIT"
      BY <1>1 DEF RefundLines, Debit, Credit
<1>4. HasAmounts(held) /\ HasAmounts(back)
  <2>1. PICK two : two = {1, 2}
        OBVIOUS
  <2>2. IsFiniteSet({1}) /\ two = {1} \cup {2}
        BY <2>1, FS_Singleton
  <2>3. IsFiniteSet(two)
        BY <2>2, FS_AddElement
  <2> QED BY <1>2, <1>3, <2>1, <2>3 DEF HasAmounts
<1>5. Delta(TypeOf, held, Bank) = balanceDelta(TypeOf[Bank], held[2].side, held[2].amount)
  <2>1. 2 \in DOMAIN held /\ held[2].account = Bank
        /\ \A j \in DOMAIN held : held[j].account = Bank => j = 2
        BY <1>2
  <2> HIDE DepositsAssumption, ExpensesAssumption, RowsAssumption
  <2> QED BY <1>4, <2>1, DeltaOfOne
<1>6. Delta(TypeOf, back, Bank) = balanceDelta(TypeOf[Bank], back[1].side, back[1].amount)
  <2>1. 1 \in DOMAIN back /\ back[1].account = Bank
        /\ \A j \in DOMAIN back : back[j].account = Bank => j = 1
        BY <1>3
  <2> HIDE DepositsAssumption, ExpensesAssumption, RowsAssumption
  <2> QED BY <1>4, <2>1, DeltaOfOne
<1> QED BY <1>1, <1>2, <1>3, <1>4, <1>5, <1>6 DEF LinesDelta, balanceDelta

\* A deposit of requests served one after the other is out of the bank by its whole
\* amount until it is refunded, and then back in full; a tracking deposit never
\* moves money.
THEOREM DepositsAreOnTheBooks ==
    ASSUME NoSuchRow, TypeOf[Bank] = "BANK", Bank \notin DepositAccounts
    PROVE  Spec => []DepositOnTheBooks
<1>1. DepositInv => DepositOnTheBooks
  <2> SUFFICES ASSUME DepositInv, NEW d \in Calm \cap DepositIds
               PROVE  IF Deposited(d) /\ OnTheBooks(deposit[d])
                      THEN /\ BankEffect(d) = deposit[d].refunded - deposit[d].amount
                           /\ deposit[d].refunded = IF deposit[d].status = Refunded THEN deposit[d].amount ELSE 0
                      ELSE EntriesOf(journal, DepositRef(d)) = {}
      BY DEF DepositOnTheBooks
  <2>1. OnBooksOK(d)
        BY DEF DepositInv, Calm
  <2>2. ASSUME Deposited(d), OnTheBooks(deposit[d])
        PROVE  /\ BankEffect(d) = deposit[d].refunded - deposit[d].amount
               /\ deposit[d].refunded = IF deposit[d].status = Refunded THEN deposit[d].amount ELSE 0
    <3>1. PICK row : row = deposit[d]
          OBVIOUS
    <3>2. row.amount \in Nat /\ row.account # Bank
          BY <2>2, <3>1 DEF DepositInv, HeldRow, OnTheBooks
    <3>3. /\ HasAmounts(HeldLines(row)) /\ LinesDelta(HeldLines(row), Bank) = -row.amount
          /\ HasAmounts(RefundLines(row)) /\ LinesDelta(RefundLines(row), Bank) = row.amount
          BY <3>2, BankLines
    <3>4. CASE row.status = Refunded
      <4>1. PICK e, f : /\ e # f /\ Deposits(d) = {e, f} /\ e.lines = HeldLines(row)
                        /\ f.lines = RefundLines(row)
            BY <2>1, <2>2, <3>1, <3>4 DEF OnBooksOK, BookedBack
      <4>2. PICK one, two : one = {e} /\ two = one \cup {f}
            OBVIOUS
      <4>3. f \notin one /\ IsFiniteSet(one) /\ (\A x \in one : HasAmounts(x.lines))
            /\ HasAmounts(f.lines) /\ HasAmounts(e.lines)
        <5>1. f \notin one /\ \A x \in one : HasAmounts(x.lines)
              BY <3>3, <4>1, <4>2
        <5>2. HasAmounts(f.lines) /\ HasAmounts(e.lines)
              BY <3>3, <4>1
        <5> QED BY <4>2, <5>1, <5>2, FS_Singleton
      <4>4. TotalDelta(TypeOf, one \cup {f}, Bank) = TotalDelta(TypeOf, one, Bank) + Delta(TypeOf, f.lines, Bank)
        <5> HIDE DepositsAssumption, ExpensesAssumption, RowsAssumption
        <5> QED BY <4>3, TotalDeltaAdds
      <4>5. TotalDelta(TypeOf, {e}, Bank) = Delta(TypeOf, e.lines, Bank)
        <5> HIDE DepositsAssumption, ExpensesAssumption, RowsAssumption
        <5> QED BY <4>3, TotalDeltaOne
      <4>6. Deposits(d) = two
            BY <4>1, <4>2
      <4>7. BankEffect(d) = -row.amount + row.amount
        <5>1. BankEffect(d) = TotalDelta(TypeOf, two, Bank)
              BY <4>6 DEF BankEffect, EntriesDelta, Deposits
        <5>2. Delta(TypeOf, e.lines, Bank) = -row.amount /\ Delta(TypeOf, f.lines, Bank) = row.amount
              BY <3>3, <4>1 DEF LinesDelta
        <5> QED BY <4>2, <4>4, <4>5, <5>1, <5>2
      <4>8. row.refunded = row.amount
            BY <2>1, <2>2, <3>1, <3>4 DEF OnBooksOK, BookedBack
      <4> QED BY <3>1, <3>2, <3>4, <4>7, <4>8
    <3>5. CASE row.status # Refunded
      <4>1. PICK e : e.lines = HeldLines(row) /\ Deposits(d) = {e}
            BY <2>1, <2>2, <3>1, <3>5 DEF OnBooksOK, BookedOnce
      <4>2. TotalDelta(TypeOf, {e}, Bank) = Delta(TypeOf, e.lines, Bank)
        <5>1. HasAmounts(e.lines)
              BY <3>3, <4>1
        <5> HIDE DepositsAssumption, ExpensesAssumption, RowsAssumption
        <5> QED BY <5>1, TotalDeltaOne
      <4>3. BankEffect(d) = -row.amount
            BY <3>3, <4>1, <4>2 DEF BankEffect, EntriesDelta, Deposits, LinesDelta
      <4>4. row.refunded = 0
            BY <2>1, <2>2, <3>1, <3>5 DEF OnBooksOK, BookedOnce
      <4> QED BY <3>1, <3>2, <3>5, <4>3, <4>4
    <3> QED BY <3>1, <3>4, <3>5
  <2>3. ASSUME ~(Deposited(d) /\ OnTheBooks(deposit[d])) PROVE EntriesOf(journal, DepositRef(d)) = {}
        BY <2>1, <2>3 DEF OnBooksOK, Deposits
  <2> QED BY <2>2, <2>3
<1>2. Spec => []DepositInv
      BY AlwaysDepositInv
<1> QED BY <1>1, <1>2, PTL

----------------------------------------------------------------------------
(* Accounts payable: a fourth invariant *)

\* Neither a bill nor its lines are expensed to accounts payable.
NoBillOnPayables ==
    \A dto \in CreateDtos \cup UpdateDtos :
        /\ dto.account # AccountsPayable
        /\ dto.items # None => \A i \in DOMAIN dto.items : dto.items[i].account # AccountsPayable

\* Of lines of which the last alone is on an account, that one counts.
LEMMA LastLineCounts ==
    ASSUME NEW types, NEW a, NEW Line, \A l \in Line : l.amount \in Int /\ l.account # a,
           NEW front \in Seq(Line), NEW last, last.amount \in Int, last.account = a
    PROVE  /\ HasAmounts(front \o <<last>>)
           /\ Delta(types, front \o <<last>>, a) = balanceDelta(types[a], last.side, last.amount)
<1>1. PICK n, lines : n = Len(front) /\ lines = front \o <<last>>
      OBVIOUS
<1>2. n \in Nat /\ DOMAIN front = 1..n /\ \A i \in 1..n : front[i] \in Line
      BY <1>1
<1>3. /\ DOMAIN lines = 1..(n + 1) /\ lines[n + 1] = last
      /\ \A i \in 1..n : lines[i] = front[i]
      BY <1>1, <1>2
<1>4. \A i \in DOMAIN lines : i = n + 1 \/ lines[i] \in Line
      BY <1>2, <1>3
<1>5. IsFiniteSet(DOMAIN lines)
      BY <1>2, <1>3, FS_Interval
<1>6. HasAmounts(lines)
      BY <1>3, <1>4, <1>5 DEF HasAmounts
<1>7. /\ n + 1 \in DOMAIN lines /\ lines[n + 1].account = a
      /\ \A j \in DOMAIN lines : lines[j].account = a => j = n + 1
      BY <1>2, <1>3, <1>4
<1>8. Delta(types, lines, a) = balanceDelta(types[a], lines[n + 1].side, lines[n + 1].amount)
  <2>1. PICK i : i = n + 1
        OBVIOUS
  <2>2. /\ i \in DOMAIN lines /\ lines[i].account = a
        /\ \A j \in DOMAIN lines : lines[j].account = a => j = i
        BY <1>7, <2>1
  <2> HIDE DepositsAssumption, ExpensesAssumption, RowsAssumption
  <2>3. Delta(types, lines, a) = balanceDelta(types[a], lines[i].side, lines[i].amount)
        BY <1>6, <2>2, DeltaOfOne
  <2> QED BY <2>1, <2>3
<1> QED BY <1>1, <1>3, <1>6, <1>8

\* The lines of a voucher, in some order.
LEMMA SetToSeqType == ASSUME NEW S, IsFiniteSet(S) PROVE SetToSeq(S) \in Seq(S)
<1>1. PICK n : n = Cardinality(S)
      OBVIOUS
<1>2. n \in Nat /\ ExistsBijection(1..n, S)
      BY <1>1, FS_CardinalityType
<1>3. \E f \in [1..n -> S] : IsInjective(f)
      BY <1>2 DEF ExistsBijection, Bijection, Injection
<1>4. SetToSeq(S) \in [1..n -> S]
      BY <1>1, <1>3 DEF SetToSeq
<1> QED BY <1>2, <1>4

\* What a posted bill's lines do to accounts payable is its amount.
LEMMA ApLinesOwe ==
    ASSUME NoBillOnPayables, TypeOf[AccountsPayable] = "LIABILITY", NEW row \in BillRow
    PROVE  HasAmounts(ApLines(row)) /\ LinesDelta(ApLines(row), AccountsPayable) = row.amount
<1>1. PICK items, account, amount, S :
        items = row.items /\ account = row.account /\ amount = row.amount /\ S = DOMAIN items
      OBVIOUS
<1>2. /\ account # AccountsPayable /\ amount \in Int /\ items \in Seq(Item)
      /\ \A i \in S : items[i].account # AccountsPayable
  <2>1. PICK dto \in CreateDtos \cup UpdateDtos : account = dto.account
        BY <1>1 DEF BillRow
  <2>2. PICK other \in CreateDtos \cup UpdateDtos : items = other.items /\ other.items # None
        BY <1>1 DEF BillRow
  <2>3. amount \in Int
        BY <1>1 DEF BillRow
  <2> QED BY <1>1, <2>1, <2>2, <2>3 DEF NoBillOnPayables
<1>3. IsFiniteSet(S)
  <2>1. S = 1..Len(items) /\ Len(items) \in Nat
        BY <1>1, <1>2
  <2> QED BY <2>1, FS_Interval
<1>4. \A i \in S : items[i].amount \in Int
  <2> SUFFICES ASSUME NEW i \in S PROVE items[i].amount \in Int
      OBVIOUS
  <2>1. items[i] \in Item
        BY <1>1, <1>2
  <2> QED BY <2>1 DEF Item
<1> DEFINE key == [i \in S |-> Given(items[i].account, account)]
           accounts == {Given(items[i].account, account) : i \in DOMAIN items}
           Share(a) == SumFunction([i \in DOMAIN items |->
                          IF Given(items[i].account, account) = a THEN items[i].amount ELSE 0])
           lines == {Debit(a, Share(a)) : a \in accounts}
           debit == [a \in accounts |-> Debit(a, Share(a))]
<1>5. IsFiniteSet(accounts)
  <2>1. key \in Surjection(S, accounts)
        BY <1>1 DEF Surjection
  <2> QED BY <1>3, <2>1, FS_Surjection
<1>6. IsFiniteSet(lines)
  <2>1. debit \in Surjection(accounts, lines)
        BY DEF Surjection
  <2> QED BY <1>5, <2>1, FS_Surjection
<1>7. \A a \in accounts : a # AccountsPayable
      BY <1>1, <1>2 DEF Given
<1>8. ASSUME NEW a PROVE Share(a) \in Int
  <2>1. PICK f : f = [i \in DOMAIN items |->
                        IF Given(items[i].account, account) = a THEN items[i].amount ELSE 0]
        OBVIOUS
  <2>2. IsFiniteSet(DOMAIN f) /\ \A x \in DOMAIN f : f[x] \in Int
        BY <1>1, <1>3, <1>4, <2>1
  <2>3. SumFunction(f) \in Int
        BY <2>2, SumFunctionInt
  <2> QED BY <2>1, <2>3
<1>9. ASSUME NEW l \in lines PROVE l.amount \in Int /\ l.account # AccountsPayable
  <2>1. PICK a \in accounts : l = Debit(a, Share(a))
        BY <1>9
  <2>2. PICK s : s = Share(a)
        OBVIOUS
  <2>3. s \in Int /\ a # AccountsPayable
        BY <1>7, <1>8, <2>2
  <2>4. l = Debit(a, s)
        BY <2>1, <2>2
  <2> QED BY <2>3, <2>4 DEF Debit
<1>10. PICK front : front = IF items = <<>> THEN <<Debit(account, amount)>> ELSE SetToSeq(lines)
       OBVIOUS
<1>11. ApLines(row) = front \o <<Credit(AccountsPayable, amount)>>
       BY <1>1, <1>10 DEF ApLines, LinesFor
<1>12. PICK last : last = Credit(AccountsPayable, amount)
       OBVIOUS
<1>13. last.account = AccountsPayable /\ last.amount = amount /\ last.side = "CREDIT"
       BY <1>12 DEF Credit
<1>14. \E Line : front \in Seq(Line) /\ \A l \in Line : l.amount \in Int /\ l.account # AccountsPayable
  <2>1. CASE items = <<>>
    <3>1. PICK line, Line : line = Debit(account, amount) /\ Line = {line}
          OBVIOUS
    <3>2. front \in Seq(Line)
          BY <1>10, <2>1, <3>1
    <3>3. \A l \in Line : l.amount \in Int /\ l.account # AccountsPayable
          BY <1>2, <3>1 DEF Debit
    <3> QED BY <3>2, <3>3
  <2>2. CASE items # <<>>
    <3> HIDE DEF lines
    <3>1. front \in Seq(lines)
          BY <1>6, <1>10, <2>2, SetToSeqType
    <3> QED BY <1>9, <3>1
  <2> QED BY <2>1, <2>2
<1>15. PICK Line : /\ front \in Seq(Line)
                   /\ \A l \in Line : l.amount \in Int /\ l.account # AccountsPayable
       BY <1>14
<1>16. /\ HasAmounts(front \o <<last>>)
       /\ Delta(TypeOf, front \o <<last>>, AccountsPayable) =
            balanceDelta(TypeOf[AccountsPayable], last.side, last.amount)
  <2>1. last.amount \in Int /\ last.account = AccountsPayable
        BY <1>2, <1>13
  <2> HIDE DepositsAssumption, ExpensesAssumption, RowsAssumption
  <2> QED BY <1>15, <2>1, LastLineCounts
<1> QED BY <1>1, <1>11, <1>12, <1>13, <1>16 DEF LinesDelta, balanceDelta

\* A payment takes its amount off accounts payable.
LEMMA PaymentLinesPay ==
    ASSUME TypeOf[AccountsPayable] = "LIABILITY", NEW bank, bank # AccountsPayable, NEW amount \in Int
    PROVE  /\ HasAmounts(PaymentLines(bank, amount))
           /\ LinesDelta(PaymentLines(bank, amount), AccountsPayable) = -amount
<1>1. PICK lines : lines = PaymentLines(bank, amount)
      OBVIOUS
<1>2. /\ DOMAIN lines = {1, 2} /\ lines[1].account = AccountsPayable /\ lines[2].account = bank
      /\ lines[1].amount = amount /\ lines[2].amount = amount /\ lines[1].side = "DEBIT"
      BY <1>1 DEF PaymentLines, Debit, Credit
<1>3. HasAmounts(lines)
  <2>1. PICK two : two = {1, 2}
        OBVIOUS
  <2>2. IsFiniteSet({1}) /\ two = {1} \cup {2}
        BY <2>1, FS_Singleton
  <2>3. IsFiniteSet(two)
        BY <2>2, FS_AddElement
  <2> QED BY <1>2, <2>1, <2>3 DEF HasAmounts
<1>4. 1 \in DOMAIN lines /\ lines[1].account = AccountsPayable
      /\ \A j \in DOMAIN lines : lines[j].account = AccountsPayable => j = 1
      BY <1>2
<1>5. Delta(TypeOf, lines, AccountsPayable) =
        balanceDelta(TypeOf[AccountsPayable], lines[1].side, lines[1].amount)
  <2> HIDE DepositsAssumption, ExpensesAssumption, RowsAssumption
  <2> QED BY <1>3, <1>4, DeltaOfOne
<1> QED BY <1>1, <1>2, <1>3, <1>5 DEF LinesDelta, balanceDelta

\* Payments that are no others add up.
LEMMA PaidJoins ==
    ASSUME NEW pays, PaysOK(pays), NEW more, PaysOK(more), pays \cap more = {}, NEW id
    PROVE  Paid(pays \cup more, id) = Paid(pays, id) + Paid(more, id)
<1>1. PICK S, R, A : /\ S = PaymentsOf(pays, id) /\ R = PaymentsOf(more, id)
                     /\ A = PaymentsOf(pays \cup more, id)
      OBVIOUS
<1>2. A = S \cup R /\ S \cap R = {} /\ IsFiniteSet(S) /\ IsFiniteSet(R)
      BY <1>1, FS_Subset DEF PaymentsOf, PaysOK
<1>3. PICK f, g, h : /\ f = [x \in S |-> x.amount] /\ g = [x \in R |-> x.amount]
                     /\ h = [x \in A |-> x.amount]
      OBVIOUS
<1>4. \A x \in S \cup R : h[x] \in Int
      BY <1>1, <1>2, <1>3 DEF PaymentsOf, PaysOK
<1>5. SumFunctionOnSet(h, S \cup R) = SumFunctionOnSet(h, S) + SumFunctionOnSet(h, R)
      BY <1>2, <1>4, SumJoins
<1>6. SumFunctionOnSet(h, S) = SumFunctionOnSet(f, S) /\ SumFunctionOnSet(h, R) = SumFunctionOnSet(g, R)
  <2>1. (\A x \in S : h[x] = f[x]) /\ (\A x \in R : h[x] = g[x])
        BY <1>2, <1>3
  <2> QED BY <1>2, <2>1, SumSame
<1>7. /\ SumFunction(f) = SumFunctionOnSet(f, S) /\ SumFunction(g) = SumFunctionOnSet(g, R)
      /\ SumFunction(h) = SumFunctionOnSet(h, A)
      BY <1>3, SumOverDomain
<1> QED BY <1>1, <1>2, <1>3, <1>5, <1>6, <1>7 DEF Paid

\* Accounts payable is a liability that bills, payments and deposits do not use
\* for anything else.
PayablesApart ==
    /\ NoBillOnPayables /\ TypeOf[AccountsPayable] = "LIABILITY"
    /\ AccountsPayable \notin BankAccounts \cup {Bank} \cup DepositAccounts

\* What is owed on a bill, none when it is not posted.
Owed(id) == IF id \in OnAccount THEN bill[id].amount - Paid(payments, id) ELSE 0

\* What the commit of request r will add to it.
Adds(r, id) ==
    (IF BooksBill(r, id) THEN bill[id].amount ELSE 0) - Paid(r.own.payments, id)

OwnDue(r) == SumFunction([id \in BillIds |-> Adds(r, id)])

\* The payment that has no entry yet.
Pending(r) == IF r.pc = "settling" THEN Head(r.batch).amount ELSE 0

OwnTyped(r) == IsFiniteSet(r.own.entries) /\ \A e \in r.own.entries : HasAmounts(e.lines)

\* The entries of a request are those of the bills and payments it holds.
OwnOK(r) == EntriesDelta(r.own.entries, AccountsPayable) = OwnDue(r) + Pending(r)

BalanceOK == balance[AccountsPayable] = SumFunction([id \in BillIds |-> Owed(id)])

DueInv ==
    /\ \A p \in Procs : OwnTyped(req[p])
    /\ disturbed = {} => BalanceOK /\ \A p \in Procs : OwnOK(req[p])

\* What is owed, and what a request adds to it, are numbers.
LEMMA OwedType == ASSUME IInv, PayInv, NEW id \in BillIds PROVE Owed(id) \in Int
<1>1. PICK pays : pays = payments
      OBVIOUS
<1>2. Paid(pays, id) \in Nat
      BY <1>1, PaidType DEF PayInv
<1>3. id \in OnAccount => bill[id].amount \in Int
      BY DEF OnAccount, Live, IInv, TypeInv, BillRow
<1> QED BY <1>1, <1>2, <1>3 DEF Owed

LEMMA AddsType ==
    ASSUME IInv, disturbed = {}, NEW r, Knows(r), PaysOK(r.own.payments), NEW id \in BillIds
    PROVE  Adds(r, id) \in Int
<1>1. Paid(r.own.payments, id) \in Nat
      BY PaidType
<1>2. BooksBill(r, id) => bill[id].amount \in Int
      BY DEF BooksBill, Knows, Live, IInv, TypeInv, BillRow
<1> QED BY <1>1, <1>2 DEF Adds

\* What a request adds is a matter of what it adds to each bill.
LEMMA DueSame ==
    ASSUME NEW r, NEW k, \A id \in BillIds : Adds(r, id)' = Adds(k, id)
    PROVE  OwnDue(r)' = OwnDue(k)
<1>1. PICK f : f = [id \in BillIds |-> Adds(r, id)']
      OBVIOUS
<1>2. PICK g : g = [id \in BillIds |-> Adds(k, id)]
      OBVIOUS
<1>3. f = g
      BY <1>1, <1>2
<1> QED BY <1>1, <1>2, <1>3 DEF OwnDue

\* What a request holds stays what it was while the bills it posts keep their amounts.
LEMMA SameOwn ==
    ASSUME NEW r, NEW k, r.own = k.own, (k.pc # "settling" /\ r.pc # "settling") \/ r = k,
           OwnTyped(k),
           \A id \in BillIds : BooksBill(k, id) => bill'[id].amount = bill[id].amount
    PROVE  OwnTyped(r) /\ (OwnOK(k) => OwnOK(r)')
<1>1. \A id \in BillIds : Adds(r, id)' = Adds(k, id)
      BY DEF Adds, BooksBill
<1>2. OwnDue(r)' = OwnDue(k)
      BY <1>1, DueSame
<1>3. Pending(r) = Pending(k)
      BY DEF Pending
<1> QED BY <1>2, <1>3 DEF OwnOK, OwnTyped, Pending

\* A request that holds nothing adds nothing.
LEMMA NothingOwn ==
    ASSUME NEW r, r.own.entries = {}, r.own.payments = {}, r.pc # "settling"
    PROVE  OwnTyped(r) /\ OwnOK(r) /\ OwnOK(r)'
<1>1. OwnTyped(r)
      BY FS_EmptySet DEF OwnTyped
<1>2. EntriesDelta(r.own.entries, AccountsPayable) = 0
      BY TotalDeltaEmpty DEF EntriesDelta
<1>3. \A id : Paid(r.own.payments, id) = 0
  <2>1. PICK pays : pays = r.own.payments
        OBVIOUS
  <2>2. PaysOK(pays) /\ \A id : PaymentsOf(pays, id) = {}
        BY <2>1, FS_EmptySet DEF PaysOK, PaymentsOf
  <2>3. \A id : Paid(pays, id) = 0
        BY <2>2, PaidType
  <2> QED BY <2>1, <2>3
<1>4. \A id : Adds(r, id) = 0 /\ Adds(r, id)' = 0
      BY <1>3 DEF Adds, BooksBill, EntriesOf
<1>5. PICK f : f = [id \in BillIds |-> 0]
      OBVIOUS
<1>6. SumFunction(f) = 0
      BY <1>5, SumFunctionNat
<1>7. OwnDue(r) = 0 /\ OwnDue(r)' = 0
  <2>1. f = [id \in BillIds |-> Adds(r, id)] /\ f = [id \in BillIds |-> Adds(r, id)']
        BY <1>4, <1>5
  <2> QED BY <1>6, <2>1 DEF OwnDue
<1>8. Pending(r) = 0
      BY DEF Pending
<1> QED BY <1>1, <1>2, <1>7, <1>8 DEF OwnOK, Pending

\* A step of request p.
LEMMA DueTableStep ==
    ASSUME IInv, DueInv, NEW p \in Procs, NEW r, req' = [req EXCEPT ![p] = r],
           disturbed \subseteq disturbed', OwnTyped(r),
           disturbed = {} => BalanceOK' /\ OwnOK(r)',
           disturbed = {} => \A q \in Procs \ {p}, id \in BillIds :
               BooksBill(req[q], id) => bill'[id].amount = bill[id].amount
    PROVE  DueInv'
<1>1. req'[p] = r /\ \A q \in Procs \ {p} : req'[q] = req[q]
      BY DEF IInv, TypeInv
<1>2. ASSUME NEW q \in Procs PROVE OwnTyped(req[q])'
  <2>1. OwnTyped(req'[q])
        BY <1>1 DEF DueInv
  <2> QED BY <2>1 DEF OwnTyped
<1>3. ASSUME disturbed' = {} PROVE BalanceOK' /\ \A q \in Procs : OwnOK(req[q])'
  <2>1. disturbed = {}
        BY <1>3
  <2>2. ASSUME NEW q \in Procs PROVE OwnOK(req[q])'
    <3>1. CASE q = p
      <4>1. OwnOK(r)' /\ req'[q] = r
            BY <1>1, <2>1, <3>1
      <4> QED BY <4>1 DEF OwnOK, OwnDue, Adds, BooksBill, Pending
    <3>2. CASE q # p
      <4>1. PICK k : k = req[q]
            OBVIOUS
      <4>2. OwnTyped(k) /\ OwnOK(k) /\ req'[q] = k
            BY <1>1, <2>1, <3>2, <4>1 DEF DueInv
      <4>3. \A id \in BillIds : BooksBill(k, id) => bill'[id].amount = bill[id].amount
            BY <2>1, <3>2, <4>1
      <4>4. OwnOK(k)'
            BY <4>2, <4>3, SameOwn
      <4> QED BY <4>2, <4>4 DEF OwnOK, OwnDue, Adds, BooksBill, Pending
    <3> QED BY <3>1, <3>2
  <2> QED BY <2>1, <2>2
<1> QED BY <1>2, <1>3 DEF DueInv

\* Nothing that is owed changes.
LEMMA BalanceStays ==
    ASSUME DueInv, disturbed = {}, balance'[AccountsPayable] = balance[AccountsPayable],
           \A id \in BillIds : Owed(id)' = Owed(id)
    PROVE  BalanceOK'
<1>1. PICK f : f = [id \in BillIds |-> Owed(id)']
      OBVIOUS
<1>2. PICK g : g = [id \in BillIds |-> Owed(id)]
      OBVIOUS
<1>3. f = g
      BY <1>1, <1>2
<1> QED BY <1>1, <1>2, <1>3 DEF DueInv, BalanceOK

\* A step that writes no bill and no payment, and leaves accounts payable alone.
StillStep(p, r) ==
    /\ req' = [req EXCEPT ![p] = r]
    /\ UNCHANGED billVars
    /\ disturbed = {} => balance'[AccountsPayable] = balance[AccountsPayable]

LEMMA StillKeeps ==
    ASSUME IInv, DueInv, NEW p \in Procs, NEW r, StillStep(p, r), disturbed \subseteq disturbed',
           OwnTyped(r), disturbed = {} => OwnOK(r)'
    PROVE  DueInv'
<1>1. bill' = bill /\ payments' = payments /\ req' = [req EXCEPT ![p] = r]
      BY DEF StillStep, billVars
<1>2. \A id \in BillIds : Owed(id)' = Owed(id)
      BY <1>1 DEF Owed, OnAccount, Live
<1>3. disturbed = {} => BalanceOK' /\ OwnOK(r)'
      BY <1>2, BalanceStays DEF StillStep
<1>4. disturbed = {} => \A q \in Procs \ {p}, id \in BillIds :
         BooksBill(req[q], id) => bill'[id].amount = bill[id].amount
      BY <1>1
<1> HIDE DepositsAssumption, ExpensesAssumption, RowsAssumption
<1> QED BY <1>1, <1>3, <1>4, DueTableStep

\* Such a step of a request that holds nothing, or what it held.
HoldsOn(r, k) ==
    /\ r.pc # "settling"
    /\ \/ r.own = Idle.own
       \/ r.own = k.own /\ k.pc # "settling"

LEMMA StillHolds ==
    ASSUME IInv, DueInv, NEW p \in Procs, NEW r, StillStep(p, r), HoldsOn(r, req[p]),
           disturbed \subseteq disturbed'
    PROVE  DueInv'
<1>1. OwnTyped(r) /\ (disturbed = {} => OwnOK(r)')
  <2>1. CASE r.own = Idle.own
    <3>1. r.own.entries = {} /\ r.own.payments = {} /\ r.pc # "settling"
          BY <2>1 DEF HoldsOn, Idle
    <3> QED BY <3>1, NothingOwn
  <2>2. CASE r.own = req[p].own /\ req[p].pc # "settling"
    <3>1. PICK k : k = req[p]
          OBVIOUS
    <3>2. /\ r.own = k.own /\ k.pc # "settling" /\ r.pc # "settling"
          /\ OwnTyped(k) /\ (disturbed = {} => OwnOK(k))
          BY <2>2, <3>1 DEF HoldsOn, DueInv
    <3>3. \A id \in BillIds : BooksBill(k, id) => bill'[id].amount = bill[id].amount
          BY DEF StillStep, billVars
    <3> QED BY <3>2, <3>3, SameOwn
  <2> QED BY <2>1, <2>2 DEF HoldsOn
<1> HIDE DepositsAssumption, ExpensesAssumption, RowsAssumption
<1> QED BY <1>1, StillKeeps

LEMMA StartsHolds ==
    ASSUME IInv, DueInv, NEW p \in Procs, Starts(p), disturbed \subseteq disturbed'
    PROVE  DueInv'
<1>1. PICK r : /\ req' = [req EXCEPT ![p] = r] /\ r.own = Idle.own
               /\ r.pc \in {"billing", "updating", "rejecting", "deleting", "approving", "paying"}
      BY DEF Starts
<1>2. StillStep(p, r) /\ HoldsOn(r, req[p])
      BY <1>1 DEF Starts, Reads, StillStep, HoldsOn, billVars
<1> HIDE DepositsAssumption, ExpensesAssumption, RowsAssumption
<1> QED BY <1>2, StillHolds

LEMMA AbortHolds ==
    ASSUME IInv, DueInv, NEW p \in Procs, Abort(p), disturbed \subseteq disturbed'
    PROVE  DueInv'
<1>1. PICK r : r = Idle
      OBVIOUS
<1>2. StillStep(p, r) /\ HoldsOn(r, req[p])
      BY <1>1 DEF Abort, Done, Reads, StillStep, HoldsOn, Idle, billVars
<1> HIDE DepositsAssumption, ExpensesAssumption, RowsAssumption
<1> QED BY <1>2, StillHolds

\* The reads in the middle of an approval or a payment.
LEMMA MiddlesHold ==
    ASSUME IInv, DueInv, NEW p \in Procs, NEW y, ApproveNumber(p, y) \/ PayRead(p) \/ PaySum(p),
           disturbed \subseteq disturbed'
    PROVE  DueInv'
<1>1. RequestShape(req[p])
      BY DEF IInv, TypeInv
<1>2. ASSUME NEW r, req' = [req EXCEPT ![p] = r], r.own = req[p].own,
             r.pc # "settling", req[p].pc # "settling", Reads
      PROVE  DueInv'
  <2>1. StillStep(p, r) /\ HoldsOn(r, req[p])
        BY <1>2 DEF Reads, StillStep, HoldsOn, billVars
  <2> HIDE DepositsAssumption, ExpensesAssumption, RowsAssumption
  <2> QED BY <2>1, StillHolds
<1>3. CASE ApproveNumber(p, y)
  <2>1. PICK r : r = [req[p] EXCEPT !.pc = "posting", !.entryNumber = NextNumber(journal, y)]
        OBVIOUS
  <2>2. /\ r.own = req[p].own /\ r.pc = "posting" /\ req[p].pc = "approving"
        /\ req' = [req EXCEPT ![p] = r] /\ Reads
        BY <1>1, <1>3, <2>1 DEF RequestShape, ApproveNumber, At
  <2> QED BY <1>2, <2>2
<1>4. CASE PayRead(p)
  <2>1. PICK id, pc : /\ id = Head(req[p].batch).id
                      /\ pc = IF Posted2Ap(bill[id]) \/ PostedByUs(p, id) THEN "summing"
                              ELSE "posting first"
        OBVIOUS
  <2>2. PICK r : r = [req[p] EXCEPT !.id = id, !.row = bill[id], !.pc = pc]
        OBVIOUS
  <2>3. r.own = req[p].own /\ r.pc # "settling" /\ req[p].pc = "paying"
        BY <1>1, <1>4, <2>1, <2>2 DEF RequestShape, PayRead, At
  <2>4. req' = [req EXCEPT ![p] = r] /\ Reads
        BY <1>1, <1>4, <2>1, <2>2 DEF PayRead
  <2> QED BY <1>2, <2>3, <2>4
<1>5. CASE PaySum(p)
  <2>1. PICK r : r = [req[p] EXCEPT !.pc = "numbering"]
        OBVIOUS
  <2>2. /\ r.own = req[p].own /\ r.pc = "numbering" /\ req[p].pc = "summing"
        /\ req' = [req EXCEPT ![p] = r] /\ Reads
        BY <1>1, <1>5, <2>1 DEF RequestShape, PaySum, At
  <2> QED BY <1>2, <2>2
<1> QED BY <1>3, <1>4, <1>5

\* A deposit's lines are not on accounts payable.
LEMMA HeldElsewhere ==
    ASSUME PayablesApart, NEW row, row.amount \in Nat, row.account \in DepositAccounts
    PROVE  LinesDelta(HeldLines(row), AccountsPayable) = 0
           /\ LinesDelta(RefundLines(row), AccountsPayable) = 0
<1>1. PICK held, back : held = HeldLines(row) /\ back = RefundLines(row)
      OBVIOUS
<1>2. PICK two : two = {1, 2}
      OBVIOUS
<1>3. IsFiniteSet(two)
  <2>1. IsFiniteSet({1}) /\ two = {1} \cup {2}
        BY <1>2, FS_Singleton
  <2> QED BY <2>1, FS_AddElement
<1>4. /\ DOMAIN held = two
      /\ \A i \in two : held[i].amount = row.amount /\ held[i].account \in {row.account, Bank}
      BY <1>1, <1>2 DEF HeldLines, Debit, Credit
<1>5. /\ DOMAIN back = two
      /\ \A i \in two : back[i].amount = row.amount /\ back[i].account \in {row.account, Bank}
      BY <1>1, <1>2 DEF RefundLines, Debit, Credit
<1>6. AccountsPayable # Bank /\ AccountsPayable # row.account
      BY DEF PayablesApart
<1>7. HasAmounts(held) /\ \A j \in DOMAIN held : held[j].account # AccountsPayable
      BY <1>3, <1>4, <1>6 DEF HasAmounts
<1>8. HasAmounts(back) /\ \A j \in DOMAIN back : back[j].account # AccountsPayable
      BY <1>3, <1>5, <1>6 DEF HasAmounts
<1>9. Delta(TypeOf, held, AccountsPayable) = 0 /\ Delta(TypeOf, back, AccountsPayable) = 0
  <2> HIDE DepositsAssumption, ExpensesAssumption, RowsAssumption
  <2> QED BY <1>7, <1>8, DeltaOfNone
<1> QED BY <1>1, <1>9 DEF LinesDelta

\* A step that posts such lines, or none, moves no balance of accounts payable.
LEMMA PostElsewhere ==
    ASSUME NEW number, NEW ref, NEW lines, Post(number, ref, lines), LinesDelta(lines, AccountsPayable) = 0,
           balance[AccountsPayable] \in Int
    PROVE  balance'[AccountsPayable] = balance[AccountsPayable]
BY DEF Post, Posted

LEMMA DepositStepDue ==
    ASSUME PayablesApart, IInv, DepositInv, NEW p \in Procs, NEW y, DepositStep(p, y),
           balance[AccountsPayable] \in Int
    PROVE  balance'[AccountsPayable] = balance[AccountsPayable]
<1>1. CASE \/ \E dto \in DepositDtos : DepositNumber(p, dto)
           \/ DepositEntryNumber(p) \/ SyncFind(p) \/ TrackNumber(p) \/ RefundNumber(p, y)
           \/ \E d \in DepositIds, to \in {DEPOSIT_LIFECYCLE[i] : i \in 1..5} : StatusRead(p, d, to)
      BY <1>1 DEF DepositNumber, DepositEntryNumber, SyncFind, TrackNumber, RefundNumber, StatusRead,
         depositVars
<1>2. CASE \/ \E d \in DepositIds : TrackCommit(p, d)
           \/ ResizeCommit(p) \/ RemoveCommit(p) \/ AdvanceCommit(p)
      BY <1>2 DEF TrackCommit, ResizeCommit, RemoveCommit, AdvanceCommit
<1>3. ASSUME NEW d \in DepositIds, DepositCommit(p, d)
      PROVE  balance'[AccountsPayable] = balance[AccountsPayable]
  <2>1. PICK row : row = DepositRow(req[p].number, None, req[p].dto.job, req[p].dto.amount,
                                    req[p].dto.account)
        OBVIOUS
  <2>2. req[p].dto \in DepositDtos
        BY <1>3 DEF DepositCommit, At, DepositInv, CarriesDeposit
  <2>3. row.amount = req[p].dto.amount /\ row.account = req[p].dto.account
        BY <2>1 DEF DepositRow
  <2>4. row.amount \in Nat /\ row.account \in DepositAccounts
        BY <2>2, <2>3 DEF DepositAccounts
  <2>5. PICK lines : lines = HeldLines(row)
        OBVIOUS
  <2>6. LinesDelta(lines, AccountsPayable) = 0
        BY <2>4, <2>5, HeldElsewhere
  <2>7. Post(req[p].entryNumber, DepositRef(d), lines)
        BY <1>3, <2>3, <2>5 DEF DepositCommit, HeldLines
  <2> HIDE DepositsAssumption, ExpensesAssumption, RowsAssumption
  <2> QED BY <2>6, <2>7, ExpensesAssumption, PostElsewhere
<1>4. CASE RefundCommit(p)
  <2>1. PICK row : row = req[p].row
        OBVIOUS
  <2>2. HeldRow(row) /\ OnTheBooks(row)
        BY <1>4, <2>1 DEF RefundCommit, At, DepositInv, CarriesDeposit, StatusPcs
  <2>3. row.amount \in Nat /\ row.account \in DepositAccounts
        BY <2>2 DEF HeldRow, OnTheBooks
  <2>4. PICK lines : lines = RefundLines(row)
        OBVIOUS
  <2>5. LinesDelta(lines, AccountsPayable) = 0
        BY <2>3, <2>4, HeldElsewhere
  <2>6. Post(req[p].entryNumber, DepositRef(req[p].dep), lines)
        BY <1>4, <2>1, <2>4 DEF RefundCommit
  <2> QED BY <2>5, <2>6, PostElsewhere
<1> QED BY <1>1, <1>2, <1>3, <1>4 DEF DepositStep

\* The sum of what is owed is a number.
LEMMA BalanceType == ASSUME IInv, PayInv, DueInv, disturbed = {} PROVE balance[AccountsPayable] \in Int
<1>1. PICK f : f = [id \in BillIds |-> Owed(id)]
      OBVIOUS
<1>2. IsFiniteSet(DOMAIN f) /\ \A id \in DOMAIN f : f[id] \in Int
      BY <1>1, OwedType
<1>3. SumFunction(f) \in Int
      BY <1>2, SumFunctionInt
<1> QED BY <1>1, <1>3 DEF DueInv, BalanceOK

LEMMA DepositStepHolds ==
    ASSUME PayablesApart, IInv, PayInv, DepositInv, DueInv, NEW p \in Procs, NEW y,
           DepositStep(p, y), UNCHANGED billVars, disturbed \subseteq disturbed'
    PROVE  DueInv'
<1>1. RequestShape(req[p]) /\ DOMAIN req = Procs
      BY DEF IInv, TypeInv
<1>2. PICK r : Leads(p, r)
      BY <1>1, DepositStepGoes
<1>3. HoldsOn(r, req[p])
      BY <1>2 DEF Leads, HoldsOn, DepositPcs, SyncPcs
<1>4. disturbed = {} => balance'[AccountsPayable] = balance[AccountsPayable]
      BY BalanceType, DepositStepDue
<1>5. StillStep(p, r)
      BY <1>2, <1>4 DEF Leads, StillStep
<1> HIDE DepositsAssumption, ExpensesAssumption, RowsAssumption
<1> QED BY <1>3, <1>5, StillHolds

\* A bill that is not posted is written, or written away, and still is not.
LEMMA OneBillDue ==
    ASSUME IInv, DueInv, NEW p \in Procs, NEW r, req' = [req EXCEPT ![p] = r],
           r.own = Idle.own, r.pc # "settling",
           NEW id \in BillIds, NEW new, bill' = [bill EXCEPT ![id] = new],
           payments' = payments, balance' = balance,
           id \notin disturbed => ~Live(id) \/ ~Posted2Ap(bill[id]),
           new \in {None, Gone} \/ ~Posted2Ap(new),
           id \notin disturbed => \A q \in Procs \ {p} : ~BooksBill(req[q], id),
           disturbed \subseteq disturbed'
    PROVE  DueInv'
<1>1. OwnTyped(r) /\ OwnOK(r)'
  <2>1. r.own.entries = {} /\ r.own.payments = {}
        BY DEF Idle
  <2> QED BY <2>1, NothingOwn
<1>2. bill'[id] = new /\ \A b \in BillIds \ {id} : bill'[b] = bill[b]
      BY DEF IInv, TypeInv
<1>3. ASSUME disturbed = {} PROVE BalanceOK' /\ OwnOK(r)'
  <2>1. \A b \in BillIds : Owed(b)' = Owed(b)
    <3>1. Owed(id)' = 0 /\ Owed(id) = 0
          BY <1>2, <1>3 DEF Owed, OnAccount, Live
    <3>2. \A b \in BillIds \ {id} : Owed(b)' = Owed(b)
          BY <1>2 DEF Owed, OnAccount, Live
    <3> QED BY <3>1, <3>2
  <2>2. BalanceOK'
        BY <1>3, <2>1, BalanceStays
  <2> QED BY <1>1, <2>2
<1>4. disturbed = {} => \A q \in Procs \ {p}, b \in BillIds :
         BooksBill(req[q], b) => bill'[b].amount = bill[b].amount
      BY <1>2
<1>5. OwnTyped(r)
      BY <1>1
<1> HIDE DepositsAssumption, ExpensesAssumption, RowsAssumption
<1> QED BY <1>3, <1>4, <1>5, DueTableStep

\* A request's bill that another one has posted has been met.
LEMMA CheckedApart ==
    ASSUME IInv, NEW p \in Procs, req[p].pc \in CheckedPcs, NEW id \in BillIds, req[p].id = id,
           id \notin disturbed
    PROVE  \A q \in Procs \ {p} : ~BooksBill(req[q], id)
<1> SUFFICES ASSUME NEW q \in Procs \ {p}, BooksBill(req[q], id) PROVE FALSE
    OBVIOUS
<1>1. Concerns(req[p], id) /\ Concerns(req[q], id)
      BY DEF Concerns, BooksBill
<1> QED BY <1>1, BillMet

\* A bill that is written leaves the request with nothing held.
LEMMA ThenSyncGoes ==
    ASSUME NEW p, NEW id, NEW row, ThenSync(p, id, row)
    PROVE  \E r : req' = [req EXCEPT ![p] = r] /\ r.own = Idle.own /\ r.pc # "settling"
<1>1. PICK r : r = IF row.job = None THEN Idle
                   ELSE [Idle EXCEPT !.pc = "syncing", !.id = id,
                            !.cost = [source |-> id, job |-> row.job, year |-> row.year,
                                      amount |-> row.deposit]]
      OBVIOUS
<1>2. r.own = Idle.own /\ r.pc # "settling"
      BY <1>1 DEF Idle
<1>3. req' = [req EXCEPT ![p] = r]
      BY <1>1 DEF ThenSync
<1> QED BY <1>2, <1>3

LEMMA CheckedBillDue ==
    ASSUME IInv, DueInv, NEW p \in Procs,
           UpdateCommit(p) \/ RejectCommit(p) \/ DeleteCommit(p),
           disturbed \subseteq disturbed'
    PROVE  DueInv'
<1>1. PICK id : id = req[p].id
      OBVIOUS
<1>2. /\ req[p].pc \in CheckedPcs /\ Live(req[p].id) /\ payments' = payments /\ balance' = balance
      BY DEF UpdateCommit, RejectCommit, DeleteCommit, At, CheckedPcs
<1>3. id \in BillIds /\ (id \notin disturbed => ~Live(id) \/ ~Posted2Ap(bill[id]))
      BY <1>1, <1>2, CheckedBill
<1>4. bill[id] \in BillRow
      BY <1>1, <1>2, <1>3 DEF Live, IInv, TypeInv
<1>5. \E new : bill' = [bill EXCEPT ![id] = new] /\ (new \in {None, Gone} \/ ~Posted2Ap(new))
  <2>1. CASE UpdateCommit(p)
    <3>1. PICK new : new = Updated(bill[id], req[p].row, req[p].dto)
          OBVIOUS
    <3>2. bill' = [bill EXCEPT ![id] = new]
          BY <1>1, <2>1, <3>1 DEF UpdateCommit
    <3>3. new.status = "PENDING"
          BY <1>4, <3>1 DEF Updated, BillRow
    <3> QED BY <3>2, <3>3 DEF Posted2Ap
  <2>2. CASE RejectCommit(p)
    <3>1. PICK new : new = [bill[id] EXCEPT !.status = "PENDING", !.approval = "REJECTED"]
          OBVIOUS
    <3>2. bill' = [bill EXCEPT ![id] = new]
          BY <1>1, <1>3, <1>4, <2>2, <3>1 DEF RejectCommit, BillRow, IInv, TypeInv
    <3>3. new.status = "PENDING"
          BY <1>4, <3>1 DEF BillRow
    <3> QED BY <3>2, <3>3 DEF Posted2Ap
  <2>3. CASE DeleteCommit(p)
        BY <1>1, <2>3 DEF DeleteCommit
  <2> QED BY <2>1, <2>2, <2>3
<1>6. \E r : req' = [req EXCEPT ![p] = r] /\ r.own = Idle.own /\ r.pc # "settling"
  <2>1. CASE UpdateCommit(p)
    <3>1. PICK row : row = Updated(bill[id], req[p].row, req[p].dto)
          OBVIOUS
    <3>2. ThenSync(p, id, row)
          BY <1>1, <2>1, <3>1 DEF UpdateCommit
    <3> QED BY <3>2, ThenSyncGoes
  <2>2. CASE RejectCommit(p) \/ DeleteCommit(p)
    <3>1. req' = [req EXCEPT ![p] = Idle]
          BY <2>2 DEF RejectCommit, DeleteCommit, Done
    <3>2. Idle.pc # "settling"
          BY DEF Idle
    <3> QED BY <3>1, <3>2
  <2> QED BY <2>1, <2>2
<1>7. id \notin disturbed => \A q \in Procs \ {p} : ~BooksBill(req[q], id)
      BY <1>1, <1>2, <1>3, CheckedApart
<1>8. PICK new, r : /\ bill' = [bill EXCEPT ![id] = new] /\ (new \in {None, Gone} \/ ~Posted2Ap(new))
                    /\ req' = [req EXCEPT ![p] = r] /\ r.own = Idle.own /\ r.pc # "settling"
      BY <1>5, <1>6
<1> HIDE DepositsAssumption, ExpensesAssumption, RowsAssumption
<1> QED BY <1>2, <1>3, <1>7, <1>8, OneBillDue

LEMMA BillCommitDue ==
    ASSUME IInv, DueInv, NEW p \in Procs, NEW id \in BillIds, BillCommit(p, id),
           disturbed \subseteq disturbed'
    PROVE  DueInv'
<1>1. PICK row : row = CreatedRow(req[p].dto, req[p].number)
      OBVIOUS
<1>2. /\ ThenSync(p, id, row) /\ bill' = [bill EXCEPT ![id] = row]
      /\ payments' = payments /\ balance' = balance /\ bill[id] = None
      BY <1>1 DEF BillCommit
<1>3. PICK r : req' = [req EXCEPT ![p] = r] /\ r.own = Idle.own /\ r.pc # "settling"
      BY <1>2, ThenSyncGoes
<1>4. ~Live(id) /\ (row \in {None, Gone} \/ ~Posted2Ap(row))
  <2>1. row.status = "PENDING"
        BY <1>1 DEF CreatedRow
  <2> QED BY <1>2, <2>1 DEF Live, Posted2Ap
<1>5. id \notin disturbed => \A q \in Procs \ {p} : ~BooksBill(req[q], id)
      BY <1>4 DEF IInv, Knows, BooksBill
<1>6. id \notin disturbed => ~Live(id) \/ ~Posted2Ap(bill[id])
      BY <1>4
<1> HIDE DepositsAssumption, ExpensesAssumption, RowsAssumption
<1> QED BY <1>2, <1>3, <1>4, <1>5, <1>6, OneBillDue

\* One bill's share of what a request holds changes by n.
LEMMA DueChanges ==
    ASSUME NEW r, NEW k, NEW id \in BillIds, NEW n \in Int,
           \A b \in BillIds : Adds(k, b) \in Int,
           \A b \in BillIds \ {id} : Adds(r, b)' = Adds(k, b),
           Adds(r, id)' = Adds(k, id) + n
    PROVE  OwnDue(r)' = OwnDue(k) + n /\ OwnDue(k) \in Int
<1>1. PICK f : f = [b \in BillIds |-> Adds(k, b)]
      OBVIOUS
<1>2. PICK g : g = [b \in BillIds |-> Adds(r, b)']
      OBVIOUS
<1>3. /\ IsFiniteSet(DOMAIN f) /\ id \in DOMAIN f /\ DOMAIN g = DOMAIN f
      /\ \A x \in DOMAIN f : f[x] \in Int
      BY <1>1, <1>2
<1>4. /\ g[id] \in Int /\ g[id] = f[id] + n
      /\ \A x \in DOMAIN f : x # id => g[x] = f[x]
      BY <1>1, <1>2
<1>5. SumFunction(g) = SumFunction(f) - f[id] + g[id]
  <2> HIDE DepositsAssumption, ExpensesAssumption, RowsAssumption
  <2> QED BY <1>3, <1>4, SumChanges
<1>6. SumFunction(f) \in Int
      BY <1>3, SumFunctionInt
<1>7. f[id] \in Int
      BY <1>3
<1> QED BY <1>1, <1>2, <1>4, <1>5, <1>6, <1>7 DEF OwnDue

\* One entry more in what a request holds.
LEMMA OwnAdds ==
    ASSUME NEW r, NEW k, NEW e, OwnTyped(k), r.own.entries = k.own.entries \cup {e},
           e \notin k.own.entries, HasAmounts(e.lines)
    PROVE  /\ OwnTyped(r)
           /\ EntriesDelta(r.own.entries, AccountsPayable) =
                EntriesDelta(k.own.entries, AccountsPayable) + LinesDelta(e.lines, AccountsPayable)
<1>1. PICK entries : entries = k.own.entries
      OBVIOUS
<1>2. IsFiniteSet(entries) /\ e \notin entries /\ \A x \in entries : HasAmounts(x.lines)
      BY <1>1 DEF OwnTyped
<1>3. TotalDelta(TypeOf, entries \cup {e}, AccountsPayable) =
        TotalDelta(TypeOf, entries, AccountsPayable) + Delta(TypeOf, e.lines, AccountsPayable)
  <2> HIDE DepositsAssumption, ExpensesAssumption, RowsAssumption
  <2> QED BY <1>2, TotalDeltaAdds
<1>4. OwnTyped(r)
      BY <1>1, <1>2, FS_AddElement DEF OwnTyped
<1> QED BY <1>1, <1>3, <1>4 DEF EntriesDelta, LinesDelta

\* What a calm request adds are numbers.
LEMMA AllAdds ==
    ASSUME IInv, PayInv, disturbed = {}, NEW p \in Procs
    PROVE  \A b \in BillIds : Adds(req[p], b) \in Int
<1>1. PICK k : k = req[p]
      OBVIOUS
<1>2. Knows(k) /\ PaysOK(k.own.payments)
      BY <1>1 DEF IInv, PayInv, CarriesPays
<1>3. \A b \in BillIds : Adds(k, b) \in Int
      BY <1>2, AddsType
<1> QED BY <1>1, <1>3

\* The bill's entry comes to its amount.
LEMMA PayPostFirstDue ==
    ASSUME PayablesApart, IInv, PayInv, DueInv, NEW p \in Procs, NEW y, PayPostFirst(p, y),
           disturbed \subseteq disturbed'
    PROVE  DueInv'
<1>1. PICK id, k, n : id = req[p].id /\ k = req[p] /\ n = NextNumber(Entries(p), y)
      OBVIOUS
<1>2. PICK e : e = NewEntry(n, n, BillRef(id), ApLines(k.row))
      OBVIOUS
<1>3. PICK r : r = [req[p] EXCEPT !.pc = "summing", !.own.entries = @ \cup {e}]
      OBVIOUS
<1>4. k.pc = "posting first" /\ RequestShape(k) /\ Carries(k) /\ Knows(k) /\ OwnTyped(k)
      BY <1>1 DEF IInv, TypeInv, PayPostFirst, At, DueInv
<1>5. /\ r.pc = "summing" /\ r.own.payments = k.own.payments
      /\ r.own.entries = k.own.entries \cup {e}
      BY <1>1, <1>3, <1>4 DEF RequestShape
<1>6. /\ id \in BillIds /\ k.row \in BillRow /\ ~BooksBill(k, id)
      BY <1>1, <1>4 DEF Carries, CheckedPcs, BooksBill
<1>7. e.ref = BillRef(id) /\ e.lines = ApLines(k.row) /\ e.number = n
      BY <1>2 DEF NewEntry
<1>8. e \notin k.own.entries
      BY <1>1, <1>7 DEF PayPostFirst, Entries, Taken
<1>9. HasAmounts(e.lines) /\ LinesDelta(e.lines, AccountsPayable) = k.row.amount
      BY <1>6, <1>7, ApLinesOwe DEF PayablesApart
<1>10. /\ OwnTyped(r)
       /\ EntriesDelta(r.own.entries, AccountsPayable) =
            EntriesDelta(k.own.entries, AccountsPayable) + LinesDelta(e.lines, AccountsPayable)
  <2>1. OwnTyped(k) /\ r.own.entries = k.own.entries \cup {e}
        BY <1>4, <1>5
  <2>2. e \notin k.own.entries /\ HasAmounts(e.lines)
        BY <1>8, <1>9
  <2> HIDE DepositsAssumption, ExpensesAssumption, RowsAssumption
  <2> QED BY <2>1, <2>2, OwnAdds
<1>11. /\ BooksBill(r, id)
       /\ \A b \in BillIds \ {id} : BooksBill(r, b) <=> BooksBill(k, b)
       BY <1>5, <1>7 DEF BooksBill, EntriesOf, BillRef
<1>12. bill' = bill /\ payments' = payments /\ balance' = balance
       BY DEF PayPostFirst, Reads
<1>13. ASSUME disturbed = {} PROVE OwnOK(r)'
  <2>1. bill[id] = k.row /\ k.row.amount \in Int
        BY <1>1, <1>4, <1>6, <1>13 DEF Knows, CheckedPcs, BillRow
  <2>2. \A b \in BillIds : Adds(k, b) \in Int
        BY <1>1, <1>13, AllAdds
  <2>3. \A b \in BillIds \ {id} : Adds(r, b)' = Adds(k, b)
        BY <1>5, <1>11, <1>12 DEF Adds, BooksBill
  <2>4. Adds(r, id)' = Adds(k, id) + k.row.amount
    <3>1. Adds(k, id) = 0 - Paid(k.own.payments, id)
          BY <1>6 DEF Adds
    <3>2. Adds(r, id)' = k.row.amount - Paid(k.own.payments, id)
          BY <1>5, <1>11, <1>12, <2>1 DEF Adds, BooksBill
    <3>3. Paid(k.own.payments, id) \in Nat
      <4>1. PICK pays : pays = k.own.payments
            OBVIOUS
      <4>2. PaysOK(pays)
            BY <1>1, <4>1 DEF PayInv, CarriesPays
      <4> QED BY <4>1, <4>2, PaidType
    <3> QED BY <2>1, <3>1, <3>2, <3>3
  <2>5. PICK m : m = k.row.amount
        OBVIOUS
  <2>6. m \in Int /\ Adds(r, id)' = Adds(k, id) + m
        BY <2>1, <2>4, <2>5
  <2>7. OwnDue(r)' = OwnDue(k) + m /\ OwnDue(k) \in Int
    <3> HIDE DepositsAssumption, ExpensesAssumption, RowsAssumption
    <3> QED BY <1>6, <2>2, <2>3, <2>6, DueChanges
  <2>8. OwnOK(k) /\ Pending(k) = 0 /\ Pending(r) = 0
        BY <1>1, <1>4, <1>5, <1>13 DEF DueInv, Pending
  <2>9. EntriesDelta(r.own.entries, AccountsPayable) = OwnDue(r)' + 0
        BY <1>9, <1>10, <2>5, <2>6, <2>7, <2>8 DEF OwnOK
  <2> QED BY <2>8, <2>9 DEF OwnOK, Pending
<1>14. StillStep(p, r)
  <2>1. req' = [req EXCEPT ![p].pc = "summing", ![p].own.entries = @ \cup {e}]
        BY <1>1, <1>2 DEF PayPostFirst
  <2>2. req' = [req EXCEPT ![p] = r]
        BY <1>1, <1>3, <1>4, <2>1 DEF RequestShape, IInv, TypeInv
  <2> QED BY <1>12, <2>2 DEF StillStep, billVars
<1>15. OwnTyped(r)
       BY <1>10
<1> HIDE DepositsAssumption, ExpensesAssumption, RowsAssumption
<1> QED BY <1>13, <1>14, <1>15, StillKeeps

\* A payment is pending until it has its entry.
LEMMA PayNumberDue ==
    ASSUME IInv, PayInv, DueInv, NEW p \in Procs, NEW y, PayNumber(p, y),
           disturbed \subseteq disturbed'
    PROVE  DueInv'
<1>1. PICK id, k, n : id = req[p].id /\ k = req[p] /\ n = NextNumber(Payments(p), y)
      OBVIOUS
<1>2. PICK pay : pay = [number |-> n, bill |-> id, amount |-> Head(k.batch).amount]
      OBVIOUS
<1>3. PICK r : r = [req[p] EXCEPT !.pc = "settling", !.number = n, !.own.payments = @ \cup {pay}]
      OBVIOUS
<1>4. k.pc = "numbering" /\ RequestShape(k) /\ Carries(k) /\ CarriesPays(k) /\ OwnTyped(k)
      BY <1>1 DEF IInv, TypeInv, PayNumber, At, PayInv, DueInv
<1>5. /\ r.pc = "settling" /\ r.own.entries = k.own.entries /\ r.batch = k.batch
      /\ r.own.payments = k.own.payments \cup {pay}
      BY <1>1, <1>3, <1>4 DEF RequestShape
<1>6. Head(k.batch) \in [id : BillIds, amount : Nat \ {0}]
  <2>1. k.batch \in Batch /\ k.batch # <<>>
        BY <1>4 DEF Carries, PayingPcs
  <2> QED BY <2>1, HeadTailProperties DEF Batch
<1>7. id \in BillIds /\ pay.bill = id /\ pay.amount \in Nat /\ pay.amount = Head(k.batch).amount
      BY <1>1, <1>2, <1>4, <1>6 DEF CarriesPays, SummedPcs
<1>8. PICK pays : pays = k.own.payments
      OBVIOUS
<1>9. PaysOK(pays) /\ pay \notin pays
  <2>1. pay.number = n
        BY <1>2
  <2> QED BY <1>1, <1>4, <1>8, <2>1 DEF CarriesPays, PayNumber, Payments, Taken
<1>10. Paid(pays \cup {pay}, id) = Paid(pays, id) + pay.amount /\ Paid(pays, id) \in Nat
       BY <1>7, <1>9, PaidAdds, PaidType
<1>11. \A b \in BillIds \ {id} : Paid(pays \cup {pay}, b) = Paid(pays, b)
  <2>1. \A b \in BillIds \ {id} : PaymentsOf(pays \cup {pay}, b) = PaymentsOf(pays, b)
        BY <1>7 DEF PaymentsOf
  <2> QED BY <2>1, PaidOfSame
<1>12. bill' = bill /\ payments' = payments /\ balance' = balance
       BY DEF PayNumber, Reads
<1>13. OwnTyped(r)
       BY <1>4, <1>5 DEF OwnTyped
<1>14. ASSUME disturbed = {} PROVE OwnOK(r)'
  <2>1. PICK m : m = -pay.amount
        OBVIOUS
  <2>2. \A b \in BillIds : Adds(k, b) \in Int
        BY <1>1, <1>14, AllAdds
  <2>3. \A b \in BillIds \ {id} : Adds(r, b)' = Adds(k, b)
        BY <1>5, <1>8, <1>11, <1>12 DEF Adds, BooksBill
  <2>4. m \in Int /\ Adds(r, id)' = Adds(k, id) + m
    <3>1. PICK booked : booked = IF BooksBill(k, id) THEN bill[id].amount ELSE 0
          OBVIOUS
    <3>2. Adds(k, id) = booked - Paid(pays, id)
          BY <1>8, <3>1 DEF Adds
    <3>3. booked \in Int
      <4>1. BooksBill(k, id) => Live(id)
            BY <1>1, <1>7, <1>14 DEF IInv, Knows, BooksBill
      <4>2. Live(id) => bill[id].amount \in Int
            BY <1>7 DEF Live, IInv, TypeInv, BillRow
      <4> QED BY <3>1, <4>1, <4>2
    <3>4. Adds(r, id)' = booked - Paid(pays \cup {pay}, id)
          BY <1>5, <1>8, <1>12, <3>1 DEF Adds, BooksBill
    <3> QED BY <1>7, <1>10, <2>1, <3>2, <3>3, <3>4
  <2>5. OwnDue(r)' = OwnDue(k) + m /\ OwnDue(k) \in Int
    <3> HIDE DepositsAssumption, ExpensesAssumption, RowsAssumption
    <3> QED BY <1>7, <2>2, <2>3, <2>4, DueChanges
  <2>6. OwnOK(k) /\ Pending(k) = 0 /\ Pending(r) = pay.amount
        BY <1>1, <1>4, <1>5, <1>7, <1>14 DEF DueInv, Pending
  <2>7. EntriesDelta(r.own.entries, AccountsPayable) = OwnDue(r)' + Pending(r)
        BY <1>5, <1>7, <2>1, <2>5, <2>6 DEF OwnOK
  <2> QED BY <2>7 DEF OwnOK, Pending
<1>15. StillStep(p, r)
  <2>1. req' = [req EXCEPT ![p].pc = "settling", ![p].number = n, ![p].own.payments = @ \cup {pay}]
        BY <1>1, <1>2 DEF PayNumber
  <2>2. req' = [req EXCEPT ![p] = r]
        BY <1>1, <1>3, <1>4, <2>1 DEF RequestShape, IInv, TypeInv
  <2> QED BY <1>12, <2>2 DEF StillStep, billVars
<1> HIDE DepositsAssumption, ExpensesAssumption, RowsAssumption
<1> QED BY <1>13, <1>14, <1>15, StillKeeps

\* The payment's entry takes its amount off.
LEMMA PaySettleDue ==
    ASSUME PayablesApart, IInv, PayInv, DueInv, NEW p \in Procs, NEW y, NEW bank \in BankAccounts,
           PaySettle(p, y, bank), disturbed \subseteq disturbed'
    PROVE  DueInv'
<1>1. PICK k, n, rest, pc : /\ k = req[p] /\ n = NextNumber(Entries(p), y) /\ rest = Tail(req[p].batch)
                            /\ pc = IF rest = <<>> THEN "clearing" ELSE "paying"
      OBVIOUS
<1>2. PICK amount : amount = Head(k.batch).amount
      OBVIOUS
<1>3. PICK e : e = NewEntry(n, n, PaymentRef(k.number), PaymentLines(bank, amount))
      OBVIOUS
<1>4. PICK r : r = [req[p] EXCEPT !.pc = pc, !.batch = rest, !.own.entries = @ \cup {e}]
      OBVIOUS
<1>5. k.pc = "settling" /\ RequestShape(k) /\ Carries(k) /\ OwnTyped(k)
      BY <1>1 DEF IInv, TypeInv, PaySettle, At, DueInv
<1>6. /\ r.pc = pc /\ pc # "settling" /\ r.own.payments = k.own.payments
      /\ r.own.entries = k.own.entries \cup {e}
      BY <1>1, <1>4, <1>5 DEF RequestShape
<1>7. amount \in Int
  <2>1. k.batch \in Batch /\ k.batch # <<>>
        BY <1>5 DEF Carries, PayingPcs
  <2>2. Head(k.batch) \in [id : BillIds, amount : Nat \ {0}]
        BY <2>1, HeadTailProperties DEF Batch
  <2> QED BY <1>2, <2>2
<1>8. e.ref = PaymentRef(k.number) /\ e.lines = PaymentLines(bank, amount) /\ e.number = n
      BY <1>3 DEF NewEntry
<1>9. e \notin k.own.entries
      BY <1>1, <1>8 DEF PaySettle, Entries, Taken
<1>10. HasAmounts(e.lines) /\ LinesDelta(e.lines, AccountsPayable) = -amount
       BY <1>7, <1>8, PaymentLinesPay DEF PayablesApart
<1>11. /\ OwnTyped(r)
       /\ EntriesDelta(r.own.entries, AccountsPayable) =
            EntriesDelta(k.own.entries, AccountsPayable) + LinesDelta(e.lines, AccountsPayable)
  <2>1. OwnTyped(k) /\ r.own.entries = k.own.entries \cup {e}
        BY <1>5, <1>6
  <2>2. e \notin k.own.entries /\ HasAmounts(e.lines)
        BY <1>9, <1>10
  <2> HIDE DepositsAssumption, ExpensesAssumption, RowsAssumption
  <2> QED BY <2>1, <2>2, OwnAdds
<1>12. \A b : BooksBill(r, b) <=> BooksBill(k, b)
       BY <1>6, <1>8 DEF BooksBill, EntriesOf, BillRef, PaymentRef
<1>13. bill' = bill /\ payments' = payments /\ balance' = balance
       BY DEF PaySettle, Reads
<1>14. ASSUME disturbed = {} PROVE OwnOK(r)'
  <2>1. \A b \in BillIds : Adds(r, b)' = Adds(k, b)
        BY <1>6, <1>12, <1>13 DEF Adds, BooksBill
  <2>2. OwnDue(r)' = OwnDue(k)
        BY <2>1, DueSame
  <2>3. OwnOK(k) /\ Pending(k) = amount /\ Pending(r) = 0
        BY <1>1, <1>2, <1>5, <1>6, <1>14 DEF DueInv, Pending
  <2>4. OwnDue(k) \in Int
    <3>1. PICK f : f = [b \in BillIds |-> Adds(k, b)]
          OBVIOUS
    <3>2. IsFiniteSet(DOMAIN f) /\ \A b \in DOMAIN f : f[b] \in Int
          BY <1>1, <1>14, <3>1, AllAdds
    <3>3. SumFunction(f) \in Int
          BY <3>2, SumFunctionInt
    <3> QED BY <3>1, <3>3 DEF OwnDue
  <2>5. EntriesDelta(r.own.entries, AccountsPayable) = OwnDue(r)' + Pending(r)
        BY <1>7, <1>10, <1>11, <2>2, <2>3, <2>4 DEF OwnOK
  <2> QED BY <2>5 DEF OwnOK, Pending
<1>15. StillStep(p, r)
  <2>1. req' = [req EXCEPT ![p].pc = pc, ![p].batch = rest, ![p].own.entries = @ \cup {e}]
        BY <1>1, <1>2, <1>3 DEF PaySettle
  <2>2. req' = [req EXCEPT ![p] = r]
        BY <1>1, <1>4, <1>5, <2>1 DEF RequestShape, IInv, TypeInv
  <2> QED BY <1>13, <2>2 DEF StillStep, billVars
<1>16. OwnTyped(r)
       BY <1>11
<1> HIDE DepositsAssumption, ExpensesAssumption, RowsAssumption
<1> QED BY <1>14, <1>15, <1>16, StillKeeps

\* An approved bill is live, posted, and as it was otherwise.
LEMMA ApprovedRow ==
    ASSUME NEW row \in BillRow
    PROVE  /\ Approved(row) \in BillRow /\ Posted2Ap(Approved(row))
           /\ Approved(row).amount = row.amount
BY DEF Approved, BillRow, Posted2Ap

\* The bill was not posted, and so not paid: now its whole amount is owed.
LEMMA ApproveCommitDue ==
    ASSUME PayablesApart, IInv, PayInv, DueInv, NEW p \in Procs, ApproveCommit(p),
           disturbed \subseteq disturbed'
    PROVE  DueInv'
<1>1. PICK id, k, r, n : id = req[p].id /\ k = req[p] /\ r = Idle /\ n = req[p].entryNumber
      OBVIOUS
<1>2. k.pc = "posting" /\ Carries(k) /\ Knows(k)
      BY <1>1 DEF ApproveCommit, At, IInv
<1>3. id \in BillIds /\ k.row \in BillRow
      BY <1>1, <1>2 DEF Carries, CheckedPcs
<1>4. /\ req' = [req EXCEPT ![p] = r] /\ payments' = payments /\ Live(id)
      /\ bill' = [bill EXCEPT ![id] = Approved(bill[id])]
      BY <1>1 DEF ApproveCommit, Done
<1>5. bill[id] \in BillRow
      BY <1>3, <1>4 DEF Live, IInv, TypeInv
<1>6. bill'[id] = Approved(bill[id]) /\ \A b \in BillIds \ {id} : bill'[b] = bill[b]
      BY <1>3, <1>4 DEF IInv, TypeInv
<1>7. bill'[id] \in BillRow /\ Posted2Ap(bill'[id]) /\ bill'[id].amount = bill[id].amount
      BY <1>5, <1>6, ApprovedRow
<1>8. OwnTyped(r) /\ OwnOK(r)'
  <2>1. r.own.entries = {} /\ r.own.payments = {} /\ r.pc # "settling"
        BY <1>1 DEF Idle
  <2> QED BY <2>1, NothingOwn
<1>9. ASSUME disturbed = {} PROVE BalanceOK' /\ OwnOK(r)'
  <2>1. bill[id] = k.row /\ ~Posted2Ap(bill[id])
        BY <1>1, <1>2, <1>9 DEF Knows, CheckedPcs
  <2>2. PICK amount : amount = k.row.amount
        OBVIOUS
  <2>3. amount \in Int
        BY <1>3, <2>2 DEF BillRow
  <2>4. Owed(id) = 0
        BY <2>1 DEF Owed, OnAccount
  <2>5. Paid(payments, id) = 0
    <3>1. PICK pays : pays = payments
          OBVIOUS
    <3>2. PaysOK(pays) /\ PaymentsOf(pays, id) = {}
          BY <1>3, <1>9, <2>1, <3>1 DEF PayInv, PaidOK
    <3> QED BY <3>1, <3>2, PaidType
  <2>6. Owed(id)' = amount
    <3>1. bill'[id] \notin {None, Gone}
          BY <1>7 DEF Live
    <3>2. (id \in OnAccount)'
          BY <1>3, <1>7, <3>1 DEF OnAccount, Live
    <3>3. Owed(id)' = bill'[id].amount - Paid(payments', id)
          BY <3>2 DEF Owed
    <3> QED BY <1>4, <1>7, <2>1, <2>2, <2>3, <2>5, <3>3
  <2>7. \A b \in BillIds \ {id} : Owed(b)' = Owed(b)
        BY <1>4, <1>6 DEF Owed, OnAccount, Live
  <2>8. balance'[AccountsPayable] = balance[AccountsPayable] + amount
    <3>1. HasAmounts(ApLines(k.row)) /\ LinesDelta(ApLines(k.row), AccountsPayable) = amount
          BY <1>3, <2>2, ApLinesOwe DEF PayablesApart
    <3>2. balance' = Posted(balance, ApLines(k.row))
          BY <1>1 DEF ApproveCommit, Post
    <3> QED BY <3>1, <3>2 DEF Posted
  <2>9. PICK f : f = [b \in BillIds |-> Owed(b)]
        OBVIOUS
  <2>10. PICK g : g = [b \in BillIds |-> Owed(b)']
        OBVIOUS
  <2>11. /\ IsFiniteSet(DOMAIN f) /\ id \in DOMAIN f /\ DOMAIN g = DOMAIN f
         /\ \A x \in DOMAIN f : f[x] \in Int
         BY <1>3, <2>9, <2>10, OwedType
  <2>12. /\ g[id] \in Int /\ g[id] = amount /\ f[id] = 0
         /\ \A x \in DOMAIN f : x # id => g[x] = f[x]
         BY <1>3, <2>3, <2>4, <2>6, <2>7, <2>9, <2>10
  <2>13. SumFunction(g) = SumFunction(f) - f[id] + g[id] /\ SumFunction(f) \in Int
    <3> HIDE DepositsAssumption, ExpensesAssumption, RowsAssumption
    <3> QED BY <2>11, <2>12, SumChanges, SumFunctionInt
  <2>14. balance[AccountsPayable] = SumFunction(f)
         BY <1>9, <2>9 DEF DueInv, BalanceOK
  <2>15. balance'[AccountsPayable] = SumFunction(g)
         BY <2>3, <2>8, <2>12, <2>13, <2>14
  <2>16. BalanceOK'
         BY <2>10, <2>15 DEF BalanceOK
  <2> QED BY <1>8, <2>16
<1>10. disturbed = {} => \A q \in Procs \ {p}, b \in BillIds :
          BooksBill(req[q], b) => bill'[b].amount = bill[b].amount
       BY <1>6, <1>7
<1>11. OwnTyped(r) /\ req' = [req EXCEPT ![p] = r]
       BY <1>4, <1>8
<1> HIDE DepositsAssumption, ExpensesAssumption, RowsAssumption
<1> QED BY <1>9, <1>10, <1>11, DueTableStep

\* What is owed on a bill once the payment commits.
LEMMA PayCommitOwes ==
    ASSUME IInv, PayInv, disturbed = {}, NEW p \in Procs, PayCommit(p), NEW id \in BillIds
    PROVE  Owed(id)' = Owed(id) + Adds(req[p], id)
<1>1. PICK k, pays, own : k = req[p] /\ pays = payments /\ own = req[p].own.payments
      OBVIOUS
<1>2. Knows(k) /\ PaysOK(pays) /\ PaysOK(own) /\ KnowsPaid(k, id) /\ PaidOK(id)
      BY <1>1 DEF IInv, PayInv, CarriesPays
<1>3. /\ payments' = pays \cup own
      /\ bill'[id] = IF BooksBill(k, id) THEN Approved(bill[id]) ELSE bill[id]
      BY <1>1 DEF PayCommit, PostedBills, PostedByUs, BooksBill, EntriesOf
<1>4. pays \cap own = {}
      BY <1>1 DEF PayCommit, Taken
<1>5. Paid(pays \cup own, id) = Paid(pays, id) + Paid(own, id)
      BY <1>2, <1>4, PaidJoins
<1>6. PICK old, more : old = Paid(pays, id) /\ more = Paid(own, id)
      OBVIOUS
<1>7. /\ old \in Nat /\ more \in Nat
      /\ PaymentsOf(pays, id) = {} => old = 0
      /\ PaymentsOf(own, id) = {} => more = 0
      BY <1>2, <1>6, PaidType
<1>8. Paid(payments', id) = old + more
      BY <1>3, <1>5, <1>6
<1>9. CASE BooksBill(k, id)
  <2>1. Live(id) /\ ~Posted2Ap(bill[id])
        BY <1>2, <1>9 DEF Knows, BooksBill
  <2>2. bill[id] \in BillRow
        BY <2>1 DEF Live, IInv, TypeInv
  <2>3. bill'[id] \in BillRow /\ Posted2Ap(bill'[id]) /\ bill'[id].amount = bill[id].amount
        BY <1>3, <1>9, <2>2, ApprovedRow
  <2>4. (id \in OnAccount)'
        BY <2>3 DEF OnAccount, Live
  <2>5. old = 0
        BY <1>1, <1>2, <1>7, <2>1 DEF PaidOK
  <2>6. Owed(id) = 0
        BY <2>1 DEF Owed, OnAccount
  <2>7. Owed(id)' = bill[id].amount - (old + more)
        BY <1>8, <2>3, <2>4 DEF Owed
  <2>8. Adds(k, id) = bill[id].amount - more
        BY <1>1, <1>6, <1>9 DEF Adds
  <2>9. bill[id].amount \in Int
        BY <2>2 DEF BillRow
  <2> QED BY <1>1, <1>7, <2>5, <2>6, <2>7, <2>8, <2>9
<1>10. CASE ~BooksBill(k, id)
  <2>1. bill'[id] = bill[id]
        BY <1>3, <1>10
  <2>2. Adds(k, id) = 0 - more
        BY <1>1, <1>6, <1>10 DEF Adds
  <2>3. CASE id \in OnAccount
    <3>1. (id \in OnAccount)'
          BY <2>1, <2>3 DEF OnAccount, Live
    <3>2. Owed(id)' = bill[id].amount - (old + more)
          BY <1>8, <2>1, <3>1 DEF Owed
    <3>3. Owed(id) = bill[id].amount - old
          BY <1>1, <1>6, <2>3 DEF Owed
    <3>4. bill[id].amount \in Int
          BY <2>3 DEF OnAccount, Live, IInv, TypeInv, BillRow
    <3> QED BY <1>1, <1>7, <2>2, <3>2, <3>3, <3>4
  <2>4. CASE id \notin OnAccount
    <3>1. ~(id \in OnAccount)'
          BY <2>1, <2>4 DEF OnAccount, Live
    <3>2. Owed(id)' = 0 /\ Owed(id) = 0
          BY <2>4, <3>1 DEF Owed
    <3>3. more = 0
          BY <1>1, <1>2, <1>7, <1>10, <2>4 DEF KnowsPaid, Payable, OnAccount
    <3> QED BY <1>1, <2>2, <3>2, <3>3
  <2> QED BY <2>3, <2>4
<1> QED BY <1>9, <1>10

LEMMA PayCommitDue ==
    ASSUME IInv, PayInv, DueInv, NEW p \in Procs, PayCommit(p), disturbed \subseteq disturbed'
    PROVE  DueInv'
<1>1. PICK k, r : k = req[p] /\ r = Idle
      OBVIOUS
<1>2. /\ req' = [req EXCEPT ![p] = r] /\ k.pc = "clearing"
      /\ balance'[AccountsPayable] = balance[AccountsPayable] + EntriesDelta(k.own.entries, AccountsPayable)
      /\ bill' = [b \in BillIds |-> IF b \in PostedBills(p) THEN Approved(bill[b]) ELSE bill[b]]
      BY <1>1 DEF PayCommit, Done, At
<1>3. OwnTyped(r) /\ OwnOK(r)'
  <2>1. r.own.entries = {} /\ r.own.payments = {} /\ r.pc # "settling"
        BY <1>1 DEF Idle
  <2> QED BY <2>1, NothingOwn
<1>4. ASSUME disturbed = {} PROVE BalanceOK' /\ OwnOK(r)'
  <2>1. PICK f : f = [b \in BillIds |-> Owed(b)]
        OBVIOUS
  <2>2. PICK g : g = [b \in BillIds |-> Adds(k, b)]
        OBVIOUS
  <2>3. PICK h : h = [b \in BillIds |-> Owed(b)']
        OBVIOUS
  <2>4. IsFiniteSet(DOMAIN f) /\ DOMAIN g = DOMAIN f /\ DOMAIN h = DOMAIN f
        BY <2>1, <2>2, <2>3
  <2>5. \A x \in DOMAIN f : f[x] \in Int
        BY <2>1, OwedType
  <2>6. \A x \in DOMAIN f : g[x] \in Int
        BY <1>1, <1>4, <2>1, <2>2, AllAdds
  <2>7. \A x \in DOMAIN f : h[x] = f[x] + g[x]
        BY <1>1, <1>4, <2>1, <2>2, <2>3, PayCommitOwes
  <2>8. SumFunction(h) = SumFunction(f) + SumFunction(g) /\ SumFunction(g) \in Int
    <3>1. \A x \in DOMAIN f : f[x] \in Int /\ g[x] \in Int /\ h[x] = f[x] + g[x]
          BY <2>5, <2>6, <2>7
    <3>2. IsFiniteSet(DOMAIN g) /\ \A x \in DOMAIN g : g[x] \in Int
          BY <2>4, <2>6
    <3> HIDE DepositsAssumption, ExpensesAssumption, RowsAssumption
    <3> QED BY <2>4, <3>1, <3>2, SumFunctionPlus, SumFunctionInt
  <2>9. EntriesDelta(k.own.entries, AccountsPayable) = SumFunction(g)
    <3>1. OwnOK(k) /\ Pending(k) = 0
          BY <1>1, <1>2, <1>4 DEF DueInv, Pending
    <3>2. OwnDue(k) = SumFunction(g)
          BY <2>2 DEF OwnDue
    <3> QED BY <2>8, <3>1, <3>2 DEF OwnOK
  <2>10. balance[AccountsPayable] = SumFunction(f)
         BY <1>4, <2>1 DEF DueInv, BalanceOK
  <2>11. balance'[AccountsPayable] = SumFunction(h)
         BY <1>2, <2>8, <2>9, <2>10
  <2>12. BalanceOK'
         BY <2>3, <2>11 DEF BalanceOK
  <2> QED BY <1>3, <2>12
<1>5. disturbed = {} => \A q \in Procs \ {p}, b \in BillIds :
         BooksBill(req[q], b) => bill'[b].amount = bill[b].amount
  <2> SUFFICES ASSUME disturbed = {}, NEW q \in Procs \ {p}, NEW b \in BillIds, BooksBill(req[q], b)
               PROVE  bill'[b].amount = bill[b].amount
      OBVIOUS
  <2>1. Live(b)
        BY DEF IInv, Knows, BooksBill
  <2>2. bill[b] \in BillRow
        BY <2>1 DEF Live, IInv, TypeInv
  <2> QED BY <1>2, <2>2, ApprovedRow
<1>6. OwnTyped(r) /\ req' = [req EXCEPT ![p] = r]
      BY <1>2, <1>3
<1> HIDE DepositsAssumption, ExpensesAssumption, RowsAssumption
<1> QED BY <1>4, <1>5, <1>6, DueTableStep

LEMMA BillStepDue ==
    ASSUME PayablesApart, IInv, PayInv, DueInv, NEW p \in Procs, NEW y \in Years, BillStep(p, y),
           disturbed \subseteq disturbed'
    PROVE  DueInv'
<1>1. CASE \/ \E dto \in CreateDtos : BillNumber(p, dto)
           \/ \E id \in BillIds, dto \in UpdateDtos : EditRead(p, id, "updating", dto)
           \/ \E id \in BillIds : EditRead(p, id, "rejecting", None)
           \/ \E id \in BillIds : EditRead(p, id, "deleting", None)
           \/ \E id \in BillIds : ApproveRead(p, id)
           \/ \E batch \in Batches : PayBegin(p, batch)
  <2>1. Starts(p)
        BY <1>1, FirstReads
  <2> QED BY <2>1, StartsHolds
<1>2. CASE ApproveNumber(p, y) \/ PayRead(p) \/ PaySum(p)
      BY <1>2, MiddlesHold
<1>3. ASSUME NEW id \in BillIds, BillCommit(p, id) PROVE DueInv'
      BY <1>3, BillCommitDue
<1>4. CASE UpdateCommit(p) \/ RejectCommit(p) \/ DeleteCommit(p)
      BY <1>4, CheckedBillDue
<1>5. CASE ApproveCommit(p)
      BY <1>5, ApproveCommitDue
<1>6. CASE PayPostFirst(p, y)
      BY <1>6, PayPostFirstDue
<1>7. CASE PayNumber(p, y)
      BY <1>7, PayNumberDue
<1>8. ASSUME NEW bank \in BankAccounts, PaySettle(p, y, bank) PROVE DueInv'
      BY <1>8, PaySettleDue
<1>9. CASE PayCommit(p)
      BY <1>9, PayCommitDue
<1> QED BY <1>1, <1>2, <1>3, <1>4, <1>5, <1>6, <1>7, <1>8, <1>9 DEF BillStep

LEMMA DueInitOK == Init => DueInv
<1> SUFFICES ASSUME Init PROVE DueInv
    OBVIOUS
<1>1. \A p \in Procs : req[p] = Idle
      BY DEF Init
<1>2. OwnTyped(Idle) /\ OwnOK(Idle)
  <2>1. PICK r : r = Idle
        OBVIOUS
  <2>2. r.own.entries = {} /\ r.own.payments = {} /\ r.pc # "settling"
        BY <2>1 DEF Idle
  <2> QED BY <2>1, <2>2, NothingOwn
<1>3. BalanceOK
  <2>1. PICK f : f = [id \in BillIds |-> Owed(id)]
        OBVIOUS
  <2>2. \A id \in BillIds : Owed(id) = 0
        BY DEF Init, Owed, OnAccount, Live
  <2>3. SumFunction(f) = 0
        BY <2>1, <2>2, SumFunctionNat
  <2> QED BY <2>1, <2>3 DEF BalanceOK, Init
<1> QED BY <1>1, <1>2, <1>3 DEF DueInv

LEMMA DueNextKeeps ==
    ASSUME PayablesApart
    PROVE  IInv /\ PayInv /\ DepositInv /\ DueInv /\ [Next]_vars => DueInv'
<1> SUFFICES ASSUME IInv, PayInv, DepositInv, DueInv, [Next]_vars PROVE DueInv'
    OBVIOUS
<1>1. ASSUME NEW p \in Procs, NEW y \in Years, BillStep(p, y),
             disturbed' = disturbed \cup Overlapping'
      PROVE  DueInv'
      BY <1>1, BillStepDue
<1>2. ASSUME NEW p \in Procs, NEW y \in Years, DepositStep(p, y), UNCHANGED billVars,
             disturbed' = disturbed \cup Overlapping'
      PROVE  DueInv'
      BY <1>2, DepositStepHolds
<1>3. ASSUME NEW p \in Procs, Abort(p), disturbed' = disturbed \cup CutOff(p) PROVE DueInv'
      BY <1>3, AbortHolds
<1>4. CASE UNCHANGED vars
  <2>1. UNCHANGED <<bill, payments, balance, req, disturbed>>
        BY <1>4 DEF vars
  <2>2. (\A p \in Procs : OwnTyped(req[p]))'
        BY <2>1 DEF DueInv, OwnTyped
  <2>3. ASSUME disturbed' = {} PROVE BalanceOK' /\ \A p \in Procs : OwnOK(req[p])'
    <3>1. BalanceOK'
      <4>1. \A id \in BillIds : Owed(id)' = Owed(id)
            BY <2>1 DEF Owed, OnAccount, Live
      <4> QED BY <2>1, <2>3, <4>1, BalanceStays
    <3>2. ASSUME NEW p \in Procs PROVE OwnOK(req[p])'
      <4>1. PICK k : k = req[p]
            OBVIOUS
      <4>2. OwnTyped(k) /\ OwnOK(k) /\ req'[p] = k
            BY <2>1, <2>3, <4>1 DEF DueInv
      <4>3. \A id \in BillIds : BooksBill(k, id) => bill'[id].amount = bill[id].amount
            BY <2>1
      <4>4. OwnOK(k)'
            BY <4>2, <4>3, SameOwn
      <4> QED BY <4>2, <4>4 DEF OwnOK, OwnDue, Adds, BooksBill, Pending
    <3> QED BY <3>1, <3>2
  <2> QED BY <2>2, <2>3 DEF DueInv
<1> QED BY <1>1, <1>2, <1>3, <1>4 DEF Next

LEMMA AlwaysDueInv == ASSUME NoSuchRow, PayablesApart PROVE Spec => []DueInv
<1>1. IInv /\ PayInv /\ DepositInv /\ DueInv /\ [Next]_vars => DueInv'
      BY DueNextKeeps
<1>2. Spec => []DepositInv
      BY AlwaysDepositInv
<1> QED BY <1>1, <1>2, AlwaysIInv, AlwaysPayInv, DueInitOK, PTL DEF Spec

\* While requests are served one after the other, the balance of accounts payable is
\* what is still owed on the posted bills, however approvals and batches of payments
\* share the posting.
THEOREM PayablesAreOwed ==
    ASSUME NoSuchRow, PayablesApart
    PROVE  Spec => []PayableIsWhatIsOwed
<1>1. IInv /\ PayInv /\ DueInv => PayableIsWhatIsOwed
  <2> SUFFICES ASSUME IInv, PayInv, DueInv, disturbed = {}
               PROVE  balance[AccountsPayable] =
                        SumFunction([id \in OnAccount |-> bill[id].amount - Paid(payments, id)])
      BY DEF PayableIsWhatIsOwed
  <2>1. PICK f : f = [id \in BillIds |-> Owed(id)]
        OBVIOUS
  <2>2. PICK g : g = [id \in OnAccount |-> bill[id].amount - Paid(payments, id)]
        OBVIOUS
  <2>3. PICK R : R = OnAccount
        OBVIOUS
  <2>4. /\ DOMAIN f = BillIds /\ \A x \in BillIds : f[x] \in Int
        /\ R \in SUBSET BillIds /\ \A x \in BillIds \ R : f[x] = 0
        BY <2>1, <2>3, OwedType DEF OnAccount, Owed
  <2>5. DOMAIN g = R /\ IsFiniteSet(R) /\ \A x \in R : f[x] = g[x]
        BY <2>1, <2>2, <2>3, FS_Subset DEF OnAccount, Owed
  <2>6. SumFunctionOnSet(f, BillIds) = SumFunctionOnSet(f, R)
        BY <2>4, SumSupport
  <2>7. SumFunctionOnSet(f, R) = SumFunctionOnSet(g, R)
        BY <2>5, SumSame
  <2>8. SumFunction(f) = SumFunctionOnSet(f, BillIds) /\ SumFunction(g) = SumFunctionOnSet(g, R)
        BY <2>4, <2>5, SumOverDomain
  <2>9. balance[AccountsPayable] = SumFunction(f)
        BY <2>1 DEF DueInv, BalanceOK
  <2> QED BY <2>2, <2>6, <2>7, <2>8, <2>9
<1>2. Spec => []DueInv
      BY AlwaysDueInv
<1> QED BY <1>1, <1>2, AlwaysIInv, AlwaysPayInv, PTL

----------------------------------------------------------------------------
(* Tracking deposits: a fifth invariant *)

\* TrackerMirrorsBill, of one bill.
Mirrors(id) ==
    IF bill[id].deposit > 0
    THEN \E d \in DepositIds :
            /\ TrackersOf(id) = {d}
            /\ deposit[d].status = Refunded \/ deposit[d].amount = bill[id].deposit
    ELSE \A d \in TrackersOf(id) : deposit[d].status = Refunded

\* Request r is on its way to make the deposit of bill id what the bill says, and
\* what it has found is still so.
Syncs(r, id) ==
    /\ r.pc \in SyncPcs /\ r.id = id
    /\ r.cost.source = id /\ r.cost.amount = bill[id].deposit
    /\ r.pc \in {"tracking", "tracked"} => TrackersOf(id) = {} /\ bill[id].deposit > 0
    /\ r.pc = "resizing" => TrackersOf(id) = {r.dep} /\ bill[id].deposit > 0
    /\ r.pc = "removing" => TrackersOf(id) = {r.dep} /\ ~(bill[id].deposit > 0)

\* A request syncs the deposit of the bill it works on, and holds a deposit only
\* while it is about to write it.
CarriesSync(r) ==
    /\ r.id \in BillIds \cup {None}
    /\ r.dep \in DepositIds => r.pc \in WritingPcs
    /\ r.pc \in SyncPcs => r.id \in BillIds /\ r.cost.source = r.id

KnowsSync(r) ==
    r.pc \in {"resizing", "removing"} /\ Deposited(r.dep) => deposit[r.dep].source = r.id

OneTracker(id) ==
    /\ \A d, e \in TrackersOf(id) : d = e
    /\ bill[id] = None => TrackersOf(id) = {}

Filed(id) == Live(id) /\ bill[id].job # None

Syncing(r, id) == r.pc \in SyncPcs /\ r.id = id => Filed(id) /\ Syncs(r, id)

InStep(id) ==
    /\ OneTracker(id)
    /\ \A p \in Procs : Syncing(req[p], id)
    /\ Filed(id) => Mirrors(id) \/ \E p \in Procs : Syncs(req[p], id)

\* A deposit that requests met at, met at its bill too.
TiedToBill(d) ==
    d \in disturbed =>
        deposit[d] # None /\ (Deposited(d) => deposit[d].source \in {None} \cup disturbed)

SyncInv ==
    /\ \A p \in Procs : CarriesSync(req[p]) /\ KnowsSync(req[p])
    /\ \A d \in DepositIds : TiedToBill(d)
    /\ \A id \in BillIds \ disturbed : InStep(id)

Sound == IInv /\ PayInv /\ DepositInv

\* What touches a deposit touches its bill.
Ties ==
    \A p \in Procs, d \in DepositIds : d \in Touched(p) =>
        deposit[d] # None /\ (Deposited(d) => deposit[d].source \in {None} \cup Touched(p))

\* Whichever way a request comes to a deposit, it comes to the bill it tracks.
LEMMA TouchesTie == Sound /\ (\A p \in Procs : CarriesSync(req[p])) => Ties
<1> SUFFICES ASSUME Sound, \A p \in Procs : CarriesSync(req[p]),
                    NEW p \in Procs, NEW d \in DepositIds, d \in Touched(p)
             PROVE  deposit[d] # None /\ (Deposited(d) => deposit[d].source \in {None} \cup Touched(p))
    BY DEF Ties
<1>1. /\ CarriesSync(req[p]) /\ KnowsDeposit(req[p]) /\ CarriesPays(req[p])
      /\ \A b \in DepositIds : Deposited(b) => HeldRow(deposit[b])
      BY DEF Sound, DepositInv, PayInv
<1>2. d \notin BillIds /\ d # None
      BY IdsAssumption
<1>3. \A b \in DepositIds : Deposited(b) => deposit[b].source \in BillIds \cup {None}
      BY <1>1 DEF HeldRow
<1>4. d = req[p].dep \/ (req[p].id # None /\ d \in TrackersOf(req[p].id))
  <2>1. d # req[p].id
        BY <1>1, <1>2 DEF CarriesSync
  <2>2. \A pay \in req[p].own.payments : d # pay.bill
        BY <1>1, <1>2 DEF CarriesPays, PaysOK
  <2>3. d \notin PostedBills(p)
        BY <1>2 DEF PostedBills
  <2> QED BY <1>2, <1>3, <2>1, <2>2, <2>3 DEF Touched
<1>5. CASE d = req[p].dep
  <2>1. deposit[d] # None
        BY <1>1, <1>5 DEF CarriesSync, KnowsDeposit
  <2>2. Deposited(d) => deposit[d].source \in {None} \cup Touched(p)
        BY <1>3, <1>5 DEF Touched
  <2> QED BY <2>1, <2>2
<1>6. CASE req[p].id # None /\ d \in TrackersOf(req[p].id)
      BY <1>1, <1>6 DEF CarriesSync, TrackersOf, Deposited, Touched
<1> QED BY <1>4, <1>5, <1>6

\* The same after a step.
LEMMA TouchesTieNext == Sound' /\ (\A p \in Procs : CarriesSync(req[p]))' => Ties'
BY TouchesTie, PTL

\* A deposit that is disturbed by a step is tied to a bill that is.
LEMMA StaysTied ==
    ASSUME SyncInv, Ties', \A d \in DepositIds : RowMoves(d), disturbed' = disturbed \cup Overlapping',
           NEW d \in DepositIds
    PROVE  TiedToBill(d)'
<1>1. CASE d \in disturbed
      BY <1>1 DEF SyncInv, TiedToBill, RowMoves
<1>2. CASE d \in Overlapping'
  <2>1. PICK p \in Procs, q \in Procs : p # q /\ d \in Touched(p)' /\ d \in Touched(q)'
        BY <1>2 DEF Overlapping
  <2>2. /\ deposit'[d] # None
        /\ Deposited(d)' => /\ deposit'[d].source \in {None} \cup Touched(p)'
                            /\ deposit'[d].source \in {None} \cup Touched(q)'
        BY <2>1 DEF Ties
  <2>3. \A x : x \in Touched(p)' /\ x \in Touched(q)' => x \in Overlapping'
        BY <2>1 DEF Overlapping, Touched
  <2> QED BY <2>2, <2>3 DEF TiedToBill
<1> QED BY <1>1, <1>2 DEF TiedToBill

\* So is one that a request is cut off at.
LEMMA StaysTiedCutOff ==
    ASSUME SyncInv, Ties, NEW p \in Procs, deposit' = deposit, disturbed' = disturbed \cup CutOff(p),
           NEW d \in DepositIds
    PROVE  TiedToBill(d)'
<1>1. CASE d \in disturbed
      BY <1>1 DEF SyncInv, TiedToBill, Deposited
<1>2. CASE d \in CutOff(p)
  <2>1. d \in Touched(p) /\ CutOff(p) = Touched(p)
        BY <1>2 DEF CutOff
  <2>2. deposit[d] # None /\ (Deposited(d) => deposit[d].source \in {None} \cup CutOff(p))
        BY <2>1 DEF Ties
  <2> QED BY <2>2 DEF TiedToBill, Deposited
<1> QED BY <1>1, <1>2 DEF TiedToBill

\* The step leaves bill id and its tracking deposit what they are to each other.
SameBill(id) ==
    /\ bill'[id] = None <=> bill[id] = None
    /\ Live(id)' <=> Live(id)
    /\ Live(id) => bill'[id].job = bill[id].job /\ bill'[id].deposit = bill[id].deposit

SameTrackers(id) ==
    /\ TrackersOf(id)' = TrackersOf(id)
    /\ \A d \in TrackersOf(id) :
          /\ deposit'[d].amount = deposit[d].amount
          /\ deposit[d].status = Refunded => deposit'[d].status = Refunded

\* What a request has found, and what it has done, is still so after such a step.
LEMMA SameMirrors ==
    ASSUME NEW id, Live(id), SameBill(id), SameTrackers(id), Mirrors(id)
    PROVE  Mirrors(id)'
<1>1. bill'[id].deposit = bill[id].deposit
      BY DEF SameBill
<1>2. CASE bill[id].deposit > 0
  <2>1. PICK d \in DepositIds :
            /\ TrackersOf(id) = {d}
            /\ deposit[d].status = Refunded \/ deposit[d].amount = bill[id].deposit
        BY <1>2 DEF Mirrors
  <2>2. d \in TrackersOf(id)
        BY <2>1
  <2>4. TrackersOf(id)' = TrackersOf(id)
        BY DEF SameTrackers
  <2>5. TrackersOf(id)' = {d}
        BY <2>1, <2>4
  <2>3. deposit'[d].status = Refunded \/ deposit'[d].amount = bill'[id].deposit
        BY <1>1, <2>1, <2>2 DEF SameTrackers
  <2> QED BY <1>1, <1>2, <2>5, <2>3 DEF Mirrors
<1>3. CASE ~(bill[id].deposit > 0)
      BY <1>1, <1>3 DEF Mirrors, SameTrackers
<1> QED BY <1>2, <1>3

\* What a syncing request has found is still so.
LEMMA SameSyncs ==
    ASSUME NEW r, NEW id, Live(id), SameBill(id), SameTrackers(id), Syncs(r, id)
    PROVE  Syncs(r, id)'
<1>1. bill'[id].deposit = bill[id].deposit /\ TrackersOf(id)' = TrackersOf(id)
      BY DEF SameBill, SameTrackers
<1> QED BY <1>1 DEF Syncs

\* What a request r that replaces k does for bill id.
Carried(k, r, id) ==
    /\ Syncing(r, id)'
    /\ Syncs(k, id) => Syncs(r, id)' \/ Mirrors(id)'

\* The step brings bill id in line, or makes r do so; nobody else is at it.
Settled(r, id) ==
    /\ OneTracker(id)' /\ Syncing(r, id)'
    /\ Filed(id)' => Mirrors(id)' \/ Syncs(r, id)'

\* A step keeps the invariant if each bill it does not leave alone is settled by it.
LEMMA SyncTableStep ==
    ASSUME Sound, Sound', SyncInv, NEW p \in Procs, NEW r,
           req' = [req EXCEPT ![p] = r], CarriesSync(r), KnowsSync(r)',
           \/ disturbed' = disturbed \cup Overlapping'
           \/ Abort(p) /\ disturbed' = disturbed \cup CutOff(p),
           \A d \in DepositIds : RowMoves(d),
           \A id \in BillIds \ disturbed' :
               \/ SameBill(id) /\ SameTrackers(id) /\ Carried(req[p], r, id)
               \/ /\ Settled(r, id)
                  /\ \A q \in Procs \ {p} : req[q].pc \notin SyncPcs \/ req[q].id # id
    PROVE  SyncInv'
<1>1. DOMAIN req' = Procs /\ req'[p] = r /\ \A q \in Procs \ {p} : req'[q] = req[q]
      BY DEF Sound, IInv, TypeInv
<1>2. disturbed \subseteq disturbed'
      OBVIOUS
<1>3. \A q \in Procs : CarriesSync(req'[q])
      BY <1>1 DEF SyncInv
<1>4. (\A q \in Procs : CarriesSync(req[q]))'
      BY <1>3 DEF CarriesSync
<1>5. ASSUME NEW q \in Procs PROVE KnowsSync(req[q])'
  <2>1. CASE q = p
        BY <1>1, <2>1 DEF KnowsSync
  <2>2. CASE q # p
    <3>1. PICK k : k = req[q] /\ k = req'[q]
          BY <1>1, <2>2
    <3>2. KnowsSync(k) /\ KnowsDeposit(k) /\ (k.pc \in WritingPcs => k.dep \in DepositIds)
          BY <3>1 DEF SyncInv, Sound, DepositInv, IInv, Carries
    <3>3. KnowsSync(k)'
          BY <3>2 DEF KnowsSync, KnowsDeposit, RowMoves, WritingPcs
    <3> QED BY <3>1, <3>3 DEF KnowsSync
  <2> QED BY <2>1, <2>2
<1>6. ASSUME NEW d \in DepositIds PROVE TiedToBill(d)'
  <2>1. CASE disturbed' = disturbed \cup Overlapping'
    <3>1. Ties'
          BY <1>4, TouchesTieNext
    <3> QED BY <2>1, <3>1, StaysTied
  <2>2. CASE Abort(p) /\ disturbed' = disturbed \cup CutOff(p)
    <3>1. Ties
          BY TouchesTie DEF SyncInv
    <3>2. deposit' = deposit
          BY <2>2 DEF Abort, Reads
    <3> QED BY <2>2, <3>1, <3>2, StaysTiedCutOff
  <2> QED BY <2>1, <2>2
<1>7. ASSUME NEW id \in BillIds \ disturbed' PROVE InStep(id)'
  <2>1. InStep(id)
        BY <1>2, <1>7 DEF SyncInv
  <2>2. CASE SameBill(id) /\ SameTrackers(id) /\ Carried(req[p], r, id)
    <3>1. OneTracker(id)'
          BY <2>1, <2>2 DEF InStep, OneTracker, SameBill, SameTrackers
    <3>2. ASSUME NEW q \in Procs \ {p}, NEW k, k = req[q] PROVE Syncing(k, id)' /\ (Syncs(k, id) /\ Filed(id) => Syncs(k, id)')
      <4>1. Syncing(k, id)
            BY <2>1, <3>2 DEF InStep
      <4>2. Filed(id) /\ Syncs(k, id) => Filed(id)' /\ Syncs(k, id)'
            BY <2>2, SameSyncs DEF Filed, SameBill
      <4> QED BY <4>1, <4>2 DEF Syncing
    <3>3. ASSUME NEW q \in Procs PROVE Syncing(req[q], id)'
      <4>1. PICK k : k = req'[q]
            OBVIOUS
      <4>2. Syncing(k, id)'
            BY <1>1, <2>2, <3>2, <4>1 DEF Carried
      <4> QED BY <4>1, <4>2 DEF Syncing, Syncs
    <3>4. ASSUME Filed(id)' PROVE (Mirrors(id) \/ \E q \in Procs : Syncs(req[q], id))'
      <4>1. Filed(id)
            BY <2>2, <3>4 DEF Filed, SameBill
      <4>2. CASE Mirrors(id)
            BY <2>2, <4>1, <4>2, SameMirrors DEF Filed
      <4>3. ASSUME NEW q \in Procs, Syncs(req[q], id) PROVE (Mirrors(id) \/ \E x \in Procs : Syncs(req[x], id))'
        <5>1. CASE q = p
          <6>1. Mirrors(id)' \/ (Syncs(r, id)' /\ req'[p] = r)
                BY <1>1, <2>2, <4>3, <5>1 DEF Carried
          <6> QED BY <6>1 DEF Syncs
        <5>2. CASE q # p
          <6>1. PICK k : k = req[q] /\ k = req'[q]
                BY <1>1, <5>2
          <6>2. Syncs(k, id)'
                BY <3>2, <4>1, <4>3, <5>2, <6>1
          <6> QED BY <5>2, <6>1, <6>2 DEF Syncs
        <5> QED BY <5>1, <5>2
      <4> QED BY <2>1, <4>1, <4>2, <4>3 DEF InStep
    <3> QED BY <3>1, <3>3, <3>4 DEF InStep
  <2>3. CASE /\ Settled(r, id)
             /\ \A q \in Procs \ {p} : req[q].pc \notin SyncPcs \/ req[q].id # id
    <3>1. ASSUME NEW q \in Procs PROVE Syncing(req[q], id)'
      <4>1. CASE q = p
            BY <1>1, <2>3, <4>1 DEF Settled, Syncing, Syncs
      <4>2. CASE q # p
            BY <1>1, <2>3, <4>2 DEF Syncing
      <4> QED BY <4>1, <4>2
    <3>2. Filed(id)' => Mirrors(id)' \/ \E q \in Procs : Syncs(req[q], id)'
          BY <1>1, <2>3 DEF Settled, Syncs
    <3>3. OneTracker(id)'
          BY <2>3 DEF Settled
    <3> QED BY <3>1, <3>2, <3>3 DEF InStep
  <2> QED BY <1>7, <2>2, <2>3
<1> QED BY <1>3, <1>4, <1>5, <1>6, <1>7 DEF SyncInv

\* How the history goes on.
Recorded(p) ==
    \/ disturbed' = disturbed \cup Overlapping'
    \/ Abort(p) /\ disturbed' = disturbed \cup CutOff(p)

\* A step of a request that does not sync, before or after.
Elsewhere(p, r) ==
    /\ req' = [req EXCEPT ![p] = r] /\ CarriesSync(r)
    /\ req[p].pc \notin SyncPcs /\ r.pc \notin SyncPcs

\* A request that syncs nothing leaves every bill as it is, or disturbed.
LEMMA ElsewhereKeeps ==
    ASSUME Sound, Sound', SyncInv, NEW p \in Procs, NEW r, Elsewhere(p, r), Recorded(p),
           \A d \in DepositIds : RowMoves(d),
           \A id \in BillIds \ disturbed' : SameBill(id) /\ SameTrackers(id)
    PROVE  SyncInv'
<1>1. req' = [req EXCEPT ![p] = r] /\ CarriesSync(r)
      BY DEF Elsewhere
<1>2. KnowsSync(r)'
      BY DEF Elsewhere, KnowsSync, SyncPcs
<1>3. \/ disturbed' = disturbed \cup Overlapping'
      \/ Abort(p) /\ disturbed' = disturbed \cup CutOff(p)
      BY DEF Recorded
<1>4. ASSUME NEW id \in BillIds \ disturbed' PROVE SameBill(id) /\ SameTrackers(id) /\ Carried(req[p], r, id)
      BY <1>4 DEF Elsewhere, Carried, Syncing, Syncs
<1>5. \A id \in BillIds \ disturbed' :
               \/ SameBill(id) /\ SameTrackers(id) /\ Carried(req[p], r, id)
               \/ /\ Settled(r, id)
                  /\ \A q \in Procs \ {p} : req[q].pc \notin SyncPcs \/ req[q].id # id
      BY <1>4
<1> HIDE DepositsAssumption, ExpensesAssumption, RowsAssumption
<1> QED BY <1>1, <1>2, <1>3, <1>5, SyncTableStep

\* A step of a request that works on bill b, and on no other one's deposit.
WorksOn(p, r, b) ==
    /\ req' = [req EXCEPT ![p] = r] /\ CarriesSync(r) /\ KnowsSync(r)'
    /\ req[p].pc \notin SyncPcs \/ req[p].id = b
    /\ r.pc \notin SyncPcs \/ r.id = b

Alone(p, b) == \A q \in Procs \ {p} : req[q].pc \notin SyncPcs \/ req[q].id # b

\* A request works on one bill, and settles it or hands on what it carries.
LEMMA WorksOnKeeps ==
    ASSUME Sound, Sound', SyncInv, NEW p \in Procs, NEW r, NEW b \in BillIds, WorksOn(p, r, b),
           Recorded(p), \A d \in DepositIds : RowMoves(d),
           \A id \in BillIds : id # b => SameBill(id) /\ SameTrackers(id),
           b \notin disturbed' => \/ SameBill(b) /\ SameTrackers(b) /\ Carried(req[p], r, b)
                                  \/ Settled(r, b) /\ Alone(p, b)
    PROVE  SyncInv'
<1>1. req' = [req EXCEPT ![p] = r] /\ CarriesSync(r) /\ KnowsSync(r)'
      BY DEF WorksOn
<1>3. \/ disturbed' = disturbed \cup Overlapping'
      \/ Abort(p) /\ disturbed' = disturbed \cup CutOff(p)
      BY DEF Recorded
<1>4. ASSUME NEW id \in BillIds \ disturbed', id # b
      PROVE  SameBill(id) /\ SameTrackers(id) /\ Carried(req[p], r, id)
      BY <1>4 DEF WorksOn, Carried, Syncing, Syncs
<1>5. \A id \in BillIds \ disturbed' :
               \/ SameBill(id) /\ SameTrackers(id) /\ Carried(req[p], r, id)
               \/ /\ Settled(r, id)
                  /\ \A q \in Procs \ {p} : req[q].pc \notin SyncPcs \/ req[q].id # id
      BY <1>4 DEF Alone
<1> HIDE DepositsAssumption, ExpensesAssumption, RowsAssumption
<1> QED BY <1>1, <1>3, <1>5, SyncTableStep

\* Two requests on one bill are recorded, so that one at an undisturbed bill is alone.
LEMMA WorksAlone ==
    ASSUME Sound, NEW p \in Procs, NEW b \in BillIds, req[p].id = b, b \notin disturbed
    PROVE  Alone(p, b)
<1>1. SUFFICES ASSUME NEW q \in Procs \ {p}, req[q].id = b PROVE FALSE
      BY DEF Alone
<1>2. b \in Touched(p) /\ b \in Touched(q)
      BY <1>1 DEF Touched
<1> QED BY <1>1, <1>2, TouchedMet DEF Sound

\* No deposit is written.
LEMMA DepositsSame ==
    ASSUME deposit' = deposit
    PROVE  (\A d \in DepositIds : RowMoves(d)) /\ \A id : SameTrackers(id)
<1>1. \A id : TrackersOf(id)' = TrackersOf(id)
      BY DEF TrackersOf, Deposited
<1> QED BY <1>1 DEF RowMoves, Deposited, SameTrackers

\* No bill is written.
LEMMA BillsSame == ASSUME bill' = bill PROVE \A id : SameBill(id)
BY DEF SameBill, Live

\* One deposit is written.
LEMMA OneDepositMoves ==
    ASSUME Sound, NEW d \in DepositIds, NEW new, deposit' = [deposit EXCEPT ![d] = new], RowMoves(d)
    PROVE  /\ \A b \in DepositIds : RowMoves(b)
           /\ deposit'[d] = new /\ \A b \in DepositIds \ {d} : deposit'[b] = deposit[b]
           /\ \A id : d \notin TrackersOf(id) /\ d \notin TrackersOf(id)' => SameTrackers(id)
<1>1. deposit'[d] = new /\ \A b \in DepositIds \ {d} : deposit'[b] = deposit[b]
      BY DEF Sound, IInv, TypeInv
<1>2. \A b \in DepositIds : RowMoves(b)
      BY <1>1 DEF RowMoves, Deposited
<1>3. ASSUME NEW id, d \notin TrackersOf(id), d \notin TrackersOf(id)' PROVE SameTrackers(id)
  <2>1. TrackersOf(id)' = TrackersOf(id)
        BY <1>1, <1>3 DEF TrackersOf, Deposited
  <2>2. \A b \in TrackersOf(id) : deposit'[b] = deposit[b]
        BY <1>1, <1>3 DEF TrackersOf
  <2> QED BY <2>1, <2>2 DEF SameTrackers
<1> QED BY <1>1, <1>2, <1>3

\* An idle request syncs nothing.
LEMMA IdleSyncsNot == CarriesSync(Idle) /\ Idle.pc = "idle" /\ Idle.pc \notin SyncPcs
BY DEF Idle, CarriesSync, SyncPcs

\* A step that writes neither a bill's job nor its deposit, nor a deposit.
LEMMA BillsAside ==
    ASSUME Sound, Sound', SyncInv, NEW p \in Procs, NEW r, Elsewhere(p, r), Recorded(p),
           deposit' = deposit, \A id \in BillIds : SameBill(id)
    PROVE  SyncInv'
<1>1. (\A d \in DepositIds : RowMoves(d)) /\ \A id \in BillIds \ disturbed' : SameBill(id) /\ SameTrackers(id)
      BY DepositsSame
<1> HIDE DepositsAssumption, ExpensesAssumption, RowsAssumption
<1> QED BY <1>1, ElsewhereKeeps

\* The reads that requests begin with.
LEMMA FirstElsewhere ==
    ASSUME NEW p,
           \/ \E dto \in CreateDtos : BillNumber(p, dto)
           \/ \E id \in BillIds, dto \in UpdateDtos : EditRead(p, id, "updating", dto)
           \/ \E id \in BillIds : EditRead(p, id, "rejecting", None)
           \/ \E id \in BillIds : EditRead(p, id, "deleting", None)
           \/ \E id \in BillIds : ApproveRead(p, id)
           \/ \E batch \in Batches : PayBegin(p, batch)
    PROVE  Reads /\ \E r : Elsewhere(p, r)
<1>1. ASSUME NEW dto, BillNumber(p, dto) PROVE Reads /\ \E r : Elsewhere(p, r)
  <2>1. PICK r : r = [Idle EXCEPT !.pc = "billing", !.dto = dto,
                                  !.number = NextNumber(BillRows, dto.year)]
        OBVIOUS
  <2>2. /\ req' = [req EXCEPT ![p] = r] /\ r.id = None /\ r.dep = None /\ r.pc = "billing"
        /\ Reads /\ req[p].pc = "idle"
        BY <1>1, <2>1 DEF BillNumber, Idle, At
  <2>3. Elsewhere(p, r)
        BY <2>2 DEF Elsewhere, CarriesSync, SyncPcs
  <2> QED BY <2>2, <2>3
<1>2. ASSUME NEW id \in BillIds, NEW pc \in {"updating", "rejecting", "deleting"}, NEW dto,
             EditRead(p, id, pc, dto)
      PROVE  Reads /\ \E r : Elsewhere(p, r)
  <2>1. PICK r : r = [Idle EXCEPT !.pc = pc, !.id = id, !.row = bill[id], !.dto = dto]
        OBVIOUS
  <2>2. /\ req' = [req EXCEPT ![p] = r] /\ r.id = id /\ r.dep = None /\ r.pc = pc
        /\ Reads /\ req[p].pc = "idle"
        BY <1>2, <2>1 DEF EditRead, Idle, At
  <2>3. Elsewhere(p, r)
        BY <2>2 DEF Elsewhere, CarriesSync, SyncPcs
  <2> QED BY <2>2, <2>3
<1>3. ASSUME NEW id \in BillIds, ApproveRead(p, id) PROVE Reads /\ \E r : Elsewhere(p, r)
  <2>1. PICK r : r = [Idle EXCEPT !.pc = "approving", !.id = id, !.row = bill[id]]
        OBVIOUS
  <2>2. /\ req' = [req EXCEPT ![p] = r] /\ r.id = id /\ r.dep = None /\ r.pc = "approving"
        /\ Reads /\ req[p].pc = "idle"
        BY <1>3, <2>1 DEF ApproveRead, Idle, At
  <2>3. Elsewhere(p, r)
        BY <2>2 DEF Elsewhere, CarriesSync, SyncPcs
  <2> QED BY <2>2, <2>3
<1>4. ASSUME NEW batch, PayBegin(p, batch) PROVE Reads /\ \E r : Elsewhere(p, r)
  <2>1. PICK r : r = [Idle EXCEPT !.pc = "paying", !.batch = batch]
        OBVIOUS
  <2>2. /\ req' = [req EXCEPT ![p] = r] /\ r.id = None /\ r.dep = None /\ r.pc = "paying"
        /\ Reads /\ req[p].pc = "idle"
        BY <1>4, <2>1 DEF PayBegin, Idle, At
  <2>3. Elsewhere(p, r)
        BY <2>2 DEF Elsewhere, CarriesSync, SyncPcs
  <2> QED BY <2>2, <2>3
<1> QED BY <1>1, <1>2, <1>3, <1>4

\* The middle of an approval or a payment.
LEMMA MiddlesElsewhere ==
    ASSUME Sound, SyncInv, NEW p \in Procs, NEW y,
           \/ ApproveNumber(p, y) \/ PayRead(p) \/ PayPostFirst(p, y) \/ PaySum(p)
           \/ PayNumber(p, y) \/ \E bank \in BankAccounts : PaySettle(p, y, bank)
    PROVE  Reads /\ \E r : Elsewhere(p, r)
<1> DEFINE Middles == {"approving", "posting", "summing", "posting first", "numbering", "settling",
                       "clearing", "paying"}
<1>1. RequestShape(req[p]) /\ DOMAIN req = Procs /\ CarriesSync(req[p])
      BY DEF Sound, IInv, TypeInv, SyncInv
<1>2. ASSUME NEW r, req' = [req EXCEPT ![p] = r], r.dep = req[p].dep, r.id = req[p].id \/ r.id \in BillIds,
             r.pc \in Middles, req[p].pc \in Middles, Reads
      PROVE  Reads /\ \E x : Elsewhere(p, x)
  <2>1. Elsewhere(p, r)
        BY <1>1, <1>2 DEF Elsewhere, CarriesSync, SyncPcs, WritingPcs
  <2> QED BY <1>2, <2>1
<1>4. CASE ApproveNumber(p, y)
  <2>1. PICK r : r = [req[p] EXCEPT !.pc = "posting", !.entryNumber = NextNumber(journal, y)]
        OBVIOUS
  <2>2. r.pc = "posting" /\ r.dep = req[p].dep /\ r.id = req[p].id /\ req[p].pc = "approving"
        BY <1>1, <1>4, <2>1 DEF RequestShape, ApproveNumber, At
  <2>3. req' = [req EXCEPT ![p] = r] /\ Reads
        BY <1>1, <1>4, <2>1 DEF ApproveNumber
  <2> QED BY <1>2, <2>2, <2>3
<1>5. CASE PayRead(p)
  <2>1. PICK id, pc : /\ id = Head(req[p].batch).id
                      /\ pc = IF Posted2Ap(bill[id]) \/ PostedByUs(p, id) THEN "summing"
                              ELSE "posting first"
        OBVIOUS
  <2>2. PICK r : r = [req[p] EXCEPT !.id = id, !.row = bill[id], !.pc = pc]
        OBVIOUS
  <2>3. r.pc = pc /\ r.dep = req[p].dep /\ r.id = id /\ req[p].pc = "paying"
        BY <1>1, <1>5, <2>2 DEF RequestShape, PayRead, At
  <2>4. req' = [req EXCEPT ![p] = r] /\ Reads
        BY <1>1, <1>5, <2>1, <2>2 DEF PayRead
  <2>5. id \in BillIds
    <3>1. req[p].batch \in Batch /\ req[p].batch # <<>>
          BY <2>3 DEF Sound, IInv, Carries, PayingPcs
    <3>2. Head(req[p].batch) \in [id : BillIds, amount : Nat \ {0}]
          BY <3>1, HeadTailProperties DEF Batch
    <3> QED BY <2>1, <3>2
  <2> QED BY <1>2, <2>1, <2>3, <2>4, <2>5
<1>6. CASE PayPostFirst(p, y)
  <2>1. PICK n, e : n = NextNumber(Entries(p), y)
                    /\ e = NewEntry(n, n, BillRef(req[p].id), ApLines(req[p].row))
        OBVIOUS
  <2>2. PICK r : r = [req[p] EXCEPT !.pc = "summing", !.own.entries = @ \cup {e}]
        OBVIOUS
  <2>3. r.pc = "summing" /\ r.dep = req[p].dep /\ r.id = req[p].id /\ req[p].pc = "posting first"
        BY <1>1, <1>6, <2>2 DEF RequestShape, PayPostFirst, At
  <2>4. req' = [req EXCEPT ![p] = r]
    <3>1. req' = [req EXCEPT ![p].pc = "summing", ![p].own.entries = @ \cup {e}]
          BY <1>6, <2>1 DEF PayPostFirst
    <3> QED BY <1>1, <2>2, <3>1 DEF RequestShape
  <2>5. Reads
        BY <1>6 DEF PayPostFirst
  <2> QED BY <1>2, <2>3, <2>4, <2>5
<1>7. CASE PaySum(p)
  <2>1. PICK r : r = [req[p] EXCEPT !.pc = "numbering"]
        OBVIOUS
  <2>2. r.pc = "numbering" /\ r.dep = req[p].dep /\ r.id = req[p].id /\ req[p].pc = "summing"
        BY <1>1, <1>7, <2>1 DEF RequestShape, PaySum, At
  <2>3. req' = [req EXCEPT ![p] = r] /\ Reads
        BY <1>1, <1>7, <2>1 DEF PaySum
  <2> QED BY <1>2, <2>2, <2>3
<1>8. CASE PayNumber(p, y)
  <2>1. PICK n, pay : /\ n = NextNumber(Payments(p), y)
                      /\ pay = [number |-> n, bill |-> req[p].id, amount |-> Head(req[p].batch).amount]
        OBVIOUS
  <2>2. PICK r : r = [req[p] EXCEPT !.pc = "settling", !.number = n, !.own.payments = @ \cup {pay}]
        OBVIOUS
  <2>3. r.pc = "settling" /\ r.dep = req[p].dep /\ r.id = req[p].id /\ req[p].pc = "numbering"
        BY <1>1, <1>8, <2>2 DEF RequestShape, PayNumber, At
  <2>4. req' = [req EXCEPT ![p] = r] /\ Reads
    <3>1. req' = [req EXCEPT ![p].pc = "settling", ![p].number = n, ![p].own.payments = @ \cup {pay}]
          BY <1>8, <2>1 DEF PayNumber
    <3> QED BY <1>1, <1>8, <2>2, <3>1 DEF RequestShape, PayNumber
  <2> QED BY <1>2, <2>3, <2>4
<1>9. ASSUME NEW bank, PaySettle(p, y, bank) PROVE Reads /\ \E r : Elsewhere(p, r)
  <2>1. PICK n, rest, pc : /\ n = NextNumber(Entries(p), y) /\ rest = Tail(req[p].batch)
                           /\ pc = IF rest = <<>> THEN "clearing" ELSE "paying"
        OBVIOUS
  <2>2. PICK e : e = NewEntry(n, n, PaymentRef(req[p].number),
                              PaymentLines(bank, Head(req[p].batch).amount))
        OBVIOUS
  <2>3. PICK r : r = [req[p] EXCEPT !.pc = pc, !.batch = rest, !.own.entries = @ \cup {e}]
        OBVIOUS
  <2>4. r.pc = pc /\ r.dep = req[p].dep /\ r.id = req[p].id /\ req[p].pc = "settling"
        BY <1>1, <1>9, <2>3 DEF RequestShape, PaySettle, At
  <2>5. req' = [req EXCEPT ![p] = r]
    <3>1. req' = [req EXCEPT ![p].pc = pc, ![p].batch = rest, ![p].own.entries = @ \cup {e}]
          BY <1>9, <2>1, <2>2 DEF PaySettle
    <3> QED BY <1>1, <2>3, <3>1 DEF RequestShape
  <2>6. Reads
        BY <1>9 DEF PaySettle
  <2> QED BY <1>2, <2>1, <2>4, <2>5, <2>6
<1> QED BY <1>4, <1>5, <1>6, <1>7, <1>8, <1>9

\* One bill is written; with its job and deposit as they were, it is the same here.
LEMMA OneBillSame ==
    ASSUME Sound, NEW b \in BillIds, NEW new, bill' = [bill EXCEPT ![b] = new]
    PROVE  /\ bill'[b] = new /\ \A id \in BillIds : id # b => SameBill(id)
           /\ bill[b] \in BillRow /\ new \in BillRow /\ new.job = bill[b].job /\ new.deposit = bill[b].deposit
                => SameBill(b)
<1>1. bill'[b] = new /\ \A id \in BillIds \ {b} : bill'[id] = bill[id]
      BY DEF Sound, IInv, TypeInv
<1> QED BY <1>1 DEF SameBill, Live

\* Rejecting a bill.
LEMMA RejectSyncs ==
    ASSUME Sound, Sound', SyncInv, NEW p \in Procs, RejectCommit(p), Recorded(p)
    PROVE  SyncInv'
<1>1. PICK b : b = req[p].id
      OBVIOUS
<1>2. /\ req[p].pc \in CheckedPcs /\ Live(req[p].id) /\ req[p].pc \notin SyncPcs
      BY DEF RejectCommit, At, CheckedPcs, SyncPcs
<1>3. b \in BillIds /\ bill[b] \in BillRow
      BY <1>1, <1>2, CheckedBill DEF Sound
<1>4. PICK new : new = [bill[b] EXCEPT !.status = "PENDING", !.approval = "REJECTED"]
      OBVIOUS
<1>5. bill' = [bill EXCEPT ![b] = new]
  <2>1. bill' = [bill EXCEPT ![b].status = "PENDING", ![b].approval = "REJECTED"]
        BY <1>1 DEF RejectCommit
  <2>2. bill \in [BillIds -> BillRow \cup {None, Gone}]
        BY DEF Sound, IInv, TypeInv
  <2> QED BY <1>3, <1>4, <2>1, <2>2 DEF BillRow
<1>6. new \in BillRow /\ new.job = bill[b].job /\ new.deposit = bill[b].deposit
      BY <1>3, <1>4 DEF BillRow
<1>7. \A id \in BillIds : SameBill(id)
  <2>1. SameBill(b)
        BY <1>3, <1>5, <1>6, OneBillSame
  <2>2. \A id \in BillIds : id # b => SameBill(id)
        BY <1>3, <1>5, OneBillSame
  <2> QED BY <2>1, <2>2
<1>8. PICK r : r = Idle
      OBVIOUS
<1>9. Elsewhere(p, r) /\ deposit' = deposit
      BY <1>2, <1>8, IdleSyncsNot DEF Elsewhere, RejectCommit, Done
<1> HIDE DepositsAssumption, ExpensesAssumption, RowsAssumption
<1> QED BY <1>7, <1>9, BillsAside

\* Approving a bill.
LEMMA ApproveSyncs ==
    ASSUME Sound, Sound', SyncInv, NEW p \in Procs, ApproveCommit(p), Recorded(p)
    PROVE  SyncInv'
<1>1. PICK b : b = req[p].id
      OBVIOUS
<1>2. /\ req[p].pc \in CheckedPcs /\ Live(req[p].id) /\ req[p].pc \notin SyncPcs
      BY DEF ApproveCommit, At, CheckedPcs, SyncPcs
<1>3. b \in BillIds /\ bill[b] \in BillRow
      BY <1>1, <1>2, CheckedBill DEF Sound
<1>4. PICK new : new = Approved(bill[b])
      OBVIOUS
<1>5. bill' = [bill EXCEPT ![b] = new]
      BY <1>1, <1>4 DEF ApproveCommit
<1>6. new \in BillRow /\ new.job = bill[b].job /\ new.deposit = bill[b].deposit
      BY <1>3, <1>4 DEF BillRow, Approved
<1>7. \A id \in BillIds : SameBill(id)
  <2>1. SameBill(b)
        BY <1>3, <1>5, <1>6, OneBillSame
  <2>2. \A id \in BillIds : id # b => SameBill(id)
        BY <1>3, <1>5, OneBillSame
  <2> QED BY <2>1, <2>2
<1>8. PICK r : r = Idle
      OBVIOUS
<1>9. Elsewhere(p, r) /\ deposit' = deposit
      BY <1>2, <1>8, IdleSyncsNot DEF Elsewhere, ApproveCommit, Done
<1> HIDE DepositsAssumption, ExpensesAssumption, RowsAssumption
<1> QED BY <1>7, <1>9, BillsAside

\* Committing a batch of payments, with the bills it posts.
LEMMA PayCommitSyncs ==
    ASSUME Sound, Sound', SyncInv, NEW p \in Procs, PayCommit(p), Recorded(p)
    PROVE  SyncInv'
<1>1. req[p].pc \notin SyncPcs /\ deposit' = deposit /\ req' = [req EXCEPT ![p] = Idle]
      BY DEF PayCommit, At, SyncPcs, Done
<1>2. ASSUME NEW id \in BillIds PROVE SameBill(id)
  <2>1. CASE id \in PostedBills(p)
    <3>1. bill'[id] = Approved(bill[id]) /\ Live(id)
          BY <2>1 DEF PayCommit
    <3>2. bill[id] \in BillRow
          BY <3>1 DEF Live, Sound, IInv, TypeInv
    <3>3. bill'[id] \in BillRow /\ bill'[id].job = bill[id].job /\ bill'[id].deposit = bill[id].deposit
          BY <3>1, <3>2 DEF BillRow, Approved
    <3> QED BY <3>2, <3>3 DEF SameBill, Live
  <2>2. CASE id \notin PostedBills(p)
    <3>1. bill'[id] = bill[id]
          BY <2>2 DEF PayCommit
    <3> QED BY <3>1 DEF SameBill, Live
  <2> QED BY <2>1, <2>2
<1>3. PICK r : r = Idle
      OBVIOUS
<1>4. Elsewhere(p, r)
      BY <1>1, <1>3, IdleSyncsNot DEF Elsewhere
<1> HIDE DepositsAssumption, ExpensesAssumption, RowsAssumption
<1> QED BY <1>1, <1>2, <1>4, BillsAside

\* A bill that is written goes on to its deposit if it is filed under a job.
LEMMA ThenSyncSettles ==
    ASSUME Sound, NEW p, NEW b \in BillIds, NEW row \in BillRow, ThenSync(p, b, row),
           req[p].pc \notin SyncPcs, bill'[b] = row
    PROVE  \E r : WorksOn(p, r, b) /\ (OneTracker(b)' => Settled(r, b))
<1>1. PICK r : r = IF row.job = None THEN Idle
                   ELSE [Idle EXCEPT !.pc = "syncing", !.id = b,
                            !.cost = [source |-> b, job |-> row.job, year |-> row.year,
                                      amount |-> row.deposit]]
      OBVIOUS
<1>2. req' = [req EXCEPT ![p] = r]
      BY <1>1 DEF ThenSync
<1>3. Filed(b)' <=> row.job # None
      BY DEF Filed, Live
<1>4. CASE row.job = None
  <2>1. r = Idle
        BY <1>1, <1>4
  <2>2. OneTracker(b)' => Settled(r, b)
        BY <1>3, <1>4, <2>1, IdleSyncsNot DEF Settled, Syncing
  <2>3. WorksOn(p, r, b)
        BY <1>2, <2>1, IdleSyncsNot DEF WorksOn, KnowsSync
  <2> QED BY <2>2, <2>3
<1>5. CASE row.job # None
  <2>1. /\ r.pc = "syncing" /\ r.id = b /\ r.dep = None
        /\ r.cost.source = b /\ r.cost.amount = row.deposit
        BY <1>1, <1>5 DEF Idle
  <2>2. WorksOn(p, r, b)
        BY <1>2, <2>1 DEF WorksOn, CarriesSync, KnowsSync
  <2>3. Syncs(r, b)'
        BY <2>1 DEF Syncs, SyncPcs
  <2>4. OneTracker(b)' => Settled(r, b)
        BY <1>3, <1>5, <2>3 DEF Settled, Syncing
  <2> QED BY <2>2, <2>4
<1> QED BY <1>4, <1>5

\* A step that writes one bill, and no deposit.
LEMMA OneBillSyncs ==
    ASSUME Sound, Sound', SyncInv, NEW p \in Procs, NEW b \in BillIds, NEW new,
           bill' = [bill EXCEPT ![b] = new], deposit' = deposit, Recorded(p),
           new # None, b \notin disturbed => Alone(p, b),
           NEW r, WorksOn(p, r, b), OneTracker(b)' => Settled(r, b)
    PROVE  SyncInv'
<1>1. bill'[b] = new /\ \A id \in BillIds : id # b => SameBill(id)
      BY OneBillSame
<1>2. (\A d \in DepositIds : RowMoves(d)) /\ \A id \in BillIds : id # b => SameBill(id) /\ SameTrackers(id)
      BY <1>1, DepositsSame
<1>3. ASSUME b \notin disturbed' PROVE Settled(r, b) /\ Alone(p, b)
  <2>1. b \notin disturbed
        BY <1>3 DEF Recorded
  <2>2. OneTracker(b)
        BY <2>1 DEF SyncInv, InStep
  <2>3. TrackersOf(b)' = TrackersOf(b)
        BY DepositsSame DEF SameTrackers
  <2>4. OneTracker(b)'
        BY <1>1, <2>2, <2>3 DEF OneTracker
  <2> QED BY <2>1, <2>4
<1>4. b \notin disturbed' => \/ SameBill(b) /\ SameTrackers(b) /\ Carried(req[p], r, b)
                             \/ Settled(r, b) /\ Alone(p, b)
      BY <1>3
<1> HIDE DepositsAssumption, ExpensesAssumption, RowsAssumption
<1> QED BY <1>2, <1>4, WorksOnKeeps

\* Creating a bill: it has no deposit yet, and its request is to sync it.
LEMMA BillCommitSyncs ==
    ASSUME Sound, Sound', SyncInv, NEW p \in Procs, NEW b \in BillIds, BillCommit(p, b), Recorded(p)
    PROVE  SyncInv'
<1>1. PICK row : row = CreatedRow(req[p].dto, req[p].number)
      OBVIOUS
<1>2. req[p].dto \in CreateDtos /\ req[p].number \in Numbers /\ req[p].pc \notin SyncPcs
      BY DEF Sound, IInv, Carries, BillCommit, At, SyncPcs
<1>3. row \in BillRow /\ row # None
      BY <1>1, <1>2, CreatedRowType
<1>4. /\ ThenSync(p, b, row) /\ bill' = [bill EXCEPT ![b] = row] /\ deposit' = deposit
      /\ bill[b] = None
      BY <1>1 DEF BillCommit
<1>5. bill'[b] = row
      BY <1>4, OneBillSame
<1>6. PICK r : WorksOn(p, r, b) /\ (OneTracker(b)' => Settled(r, b))
      BY <1>2, <1>3, <1>4, <1>5, ThenSyncSettles
<1>7. b \notin disturbed => Alone(p, b)
      BY <1>4 DEF SyncInv, Alone, InStep, Syncing, Filed, Live
<1> HIDE DepositsAssumption, ExpensesAssumption, RowsAssumption
<1> QED BY <1>3, <1>4, <1>6, <1>7, OneBillSyncs

\* Updating a bill: its request is to sync it with the new deposit and job.
LEMMA UpdateSyncs ==
    ASSUME Sound, Sound', SyncInv, NEW p \in Procs, UpdateCommit(p), Recorded(p)
    PROVE  SyncInv'
<1>1. PICK b, row : b = req[p].id /\ row = Updated(bill[b], req[p].row, req[p].dto)
      OBVIOUS
<1>2. /\ req[p].pc = "updating" /\ req[p].pc \in CheckedPcs /\ req[p].pc \notin SyncPcs
      /\ Live(req[p].id)
      BY DEF UpdateCommit, At, CheckedPcs, SyncPcs
<1>3. req[p].dto \in UpdateDtos
      BY <1>2 DEF Sound, IInv, Carries
<1>4. row \in BillRow /\ row # None /\ b \in BillIds
      BY <1>1, <1>2, <1>3, CheckedBill, UpdatedType DEF Sound
<1>5. ThenSync(p, b, row) /\ bill' = [bill EXCEPT ![b] = row] /\ deposit' = deposit
      BY <1>1 DEF UpdateCommit
<1>6. bill'[b] = row
      BY <1>4, <1>5, OneBillSame
<1>7. PICK r : WorksOn(p, r, b) /\ (OneTracker(b)' => Settled(r, b))
      BY <1>2, <1>4, <1>5, <1>6, ThenSyncSettles
<1>8. b \notin disturbed => Alone(p, b)
      BY <1>1, <1>2, <1>4, WorksAlone
<1> HIDE DepositsAssumption, ExpensesAssumption, RowsAssumption
<1> QED BY <1>4, <1>5, <1>7, <1>8, OneBillSyncs

\* Deleting a bill.
LEMMA DeleteSyncs ==
    ASSUME Sound, Sound', SyncInv, NEW p \in Procs, DeleteCommit(p), Recorded(p)
    PROVE  SyncInv'
<1>1. PICK b, r, new : b = req[p].id /\ r = Idle /\ new = Gone
      OBVIOUS
<1>2. /\ req[p].pc \in CheckedPcs /\ req[p].pc \notin SyncPcs /\ Live(req[p].id)
      BY DEF DeleteCommit, At, CheckedPcs, SyncPcs
<1>3. b \in BillIds /\ new # None
      BY <1>1, <1>2, CheckedBill DEF Sound
<1>4. req' = [req EXCEPT ![p] = r] /\ bill' = [bill EXCEPT ![b] = new] /\ deposit' = deposit
      BY <1>1 DEF DeleteCommit, Done
<1>5. bill'[b] = new
      BY <1>3, <1>4, OneBillSame
<1>6. WorksOn(p, r, b)
      BY <1>1, <1>2, <1>4, IdleSyncsNot DEF WorksOn, KnowsSync
<1>7. OneTracker(b)' => Settled(r, b)
      BY <1>1, <1>5, IdleSyncsNot DEF Settled, Syncing, Filed, Live
<1>8. b \notin disturbed => Alone(p, b)
      BY <1>1, <1>2, <1>3, WorksAlone
<1> HIDE DepositsAssumption, ExpensesAssumption, RowsAssumption
<1> QED BY <1>3, <1>4, <1>6, <1>7, <1>8, OneBillSyncs

\* Every step of a request on bills.
LEMMA BillStepSyncs ==
    ASSUME Sound, Sound', SyncInv, NEW p \in Procs, NEW y, BillStep(p, y), Recorded(p)
    PROVE  SyncInv'
<1>1. ASSUME Reads, NEW r, Elsewhere(p, r) PROVE SyncInv'
  <2>1. deposit' = deposit /\ \A id \in BillIds : SameBill(id)
        BY <1>1, BillsSame DEF Reads
  <2> HIDE DepositsAssumption, ExpensesAssumption, RowsAssumption
  <2> QED BY <1>1, <2>1, BillsAside
<1>2. CASE \/ \E dto \in CreateDtos : BillNumber(p, dto)
           \/ \E id \in BillIds, dto \in UpdateDtos : EditRead(p, id, "updating", dto)
           \/ \E id \in BillIds : EditRead(p, id, "rejecting", None)
           \/ \E id \in BillIds : EditRead(p, id, "deleting", None)
           \/ \E id \in BillIds : ApproveRead(p, id)
           \/ \E batch \in Batches : PayBegin(p, batch)
      BY <1>1, <1>2, FirstElsewhere
<1>3. CASE \/ ApproveNumber(p, y) \/ PayRead(p) \/ PayPostFirst(p, y) \/ PaySum(p)
           \/ PayNumber(p, y) \/ \E bank \in BankAccounts : PaySettle(p, y, bank)
      BY <1>1, <1>3, MiddlesElsewhere
<1>4. ASSUME NEW id \in BillIds, BillCommit(p, id) PROVE SyncInv'
      BY <1>4, BillCommitSyncs
<1>5. CASE UpdateCommit(p)
      BY <1>5, UpdateSyncs
<1>6. CASE DeleteCommit(p)
      BY <1>6, DeleteSyncs
<1>7. CASE RejectCommit(p)
      BY <1>7, RejectSyncs
<1>8. CASE ApproveCommit(p)
      BY <1>8, ApproveSyncs
<1>9. CASE PayCommit(p)
      BY <1>9, PayCommitSyncs
<1> QED BY <1>2, <1>3, <1>4, <1>5, <1>6, <1>7, <1>8, <1>9 DEF BillStep

\* Deposit requests that have nothing to do with a bill.
LEMMA DepositReadsElsewhere ==
    ASSUME Sound, SyncInv, NEW p \in Procs, NEW y,
           \/ \E dto \in DepositDtos : DepositNumber(p, dto)
           \/ DepositEntryNumber(p) \/ RefundNumber(p, y)
           \/ \E d \in DepositIds, to \in {DEPOSIT_LIFECYCLE[i] : i \in 1..5} : StatusRead(p, d, to)
    PROVE  deposit' = deposit /\ \E r : Elsewhere(p, r)
<1>1. RequestShape(req[p]) /\ DOMAIN req = Procs /\ CarriesSync(req[p])
      BY DEF Sound, IInv, TypeInv, SyncInv
<1>2. ASSUME NEW dto, DepositNumber(p, dto) PROVE deposit' = deposit /\ \E r : Elsewhere(p, r)
  <2>1. PICK r : r = [Idle EXCEPT !.pc = "depositing", !.dto = dto,
                                  !.number = NextNumber(DepositRows, dto.year)]
        OBVIOUS
  <2>2. /\ req' = [req EXCEPT ![p] = r] /\ r.id = None /\ r.dep = None /\ r.pc = "depositing"
        /\ deposit' = deposit /\ req[p].pc = "idle"
        BY <1>2, <2>1 DEF DepositNumber, Idle, At, depositVars
  <2>3. Elsewhere(p, r)
        BY <2>2 DEF Elsewhere, CarriesSync, SyncPcs
  <2> QED BY <2>2, <2>3
<1>3. CASE DepositEntryNumber(p)
  <2>1. PICK n : n = NextNumber(journal, req[p].dto.year)
        OBVIOUS
  <2>2. PICK r : r = [req[p] EXCEPT !.pc = "booking", !.entryNumber = n]
        OBVIOUS
  <2>3. r.pc = "booking" /\ r.id = req[p].id /\ r.dep = req[p].dep /\ req[p].pc = "depositing"
        BY <1>1, <1>3, <2>2 DEF RequestShape, DepositEntryNumber, At
  <2>4. req' = [req EXCEPT ![p] = r] /\ deposit' = deposit
        BY <1>1, <1>3, <2>1, <2>2 DEF DepositEntryNumber, depositVars
  <2>5. Elsewhere(p, r)
        BY <1>1, <2>3, <2>4 DEF Elsewhere, CarriesSync, SyncPcs, WritingPcs
  <2> QED BY <2>4, <2>5
<1>4. CASE RefundNumber(p, y)
  <2>1. PICK n : n = NextNumber(journal, y)
        OBVIOUS
  <2>2. PICK r : r = [req[p] EXCEPT !.pc = "repaying", !.entryNumber = n]
        OBVIOUS
  <2>3. r.pc = "repaying" /\ r.id = req[p].id /\ r.dep = req[p].dep /\ req[p].pc = "refunding"
        BY <1>1, <1>4, <2>2 DEF RequestShape, RefundNumber, At
  <2>4. req' = [req EXCEPT ![p] = r] /\ deposit' = deposit
        BY <1>1, <1>4, <2>1, <2>2 DEF RefundNumber, depositVars
  <2>5. Elsewhere(p, r)
        BY <1>1, <2>3, <2>4 DEF Elsewhere, CarriesSync, SyncPcs, WritingPcs
  <2> QED BY <2>4, <2>5
<1>5. ASSUME NEW d \in DepositIds, NEW to, StatusRead(p, d, to)
      PROVE  deposit' = deposit /\ \E r : Elsewhere(p, r)
  <2>1. PICK pc : pc = IF to = Refunded /\ OnTheBooks(deposit[d]) THEN "refunding" ELSE "advancing"
        OBVIOUS
  <2>2. PICK r : r = [Idle EXCEPT !.pc = pc, !.dep = d, !.row = deposit[d], !.to = to]
        OBVIOUS
  <2>3. /\ r.pc = pc /\ r.dep = d /\ r.id = None /\ pc \in {"refunding", "advancing"}
        /\ deposit' = deposit /\ req[p].pc = "idle"
        BY <1>5, <2>1, <2>2 DEF StatusRead, Idle, At, depositVars
  <2>4. req' = [req EXCEPT ![p] = r]
        BY <1>5, <2>1, <2>2 DEF StatusRead
  <2>5. Elsewhere(p, r)
        BY <2>3, <2>4 DEF Elsewhere, CarriesSync, SyncPcs, WritingPcs
  <2> QED BY <2>3, <2>5
<1> QED BY <1>2, <1>3, <1>4, <1>5

\* A deposit entered by hand is no bill's.
LEMMA DepositCommitSyncs ==
    ASSUME Sound, Sound', SyncInv, NEW p \in Procs, NEW d \in DepositIds, DepositCommit(p, d),
           bill' = bill, Recorded(p)
    PROVE  SyncInv'
<1>1. PICK r, new : r = Idle /\ new = DepositRow(req[p].number, None, req[p].dto.job,
                                                 req[p].dto.amount, req[p].dto.account)
      OBVIOUS
<1>2. /\ deposit' = [deposit EXCEPT ![d] = new] /\ deposit[d] = None /\ new.source = None
      /\ req' = [req EXCEPT ![p] = r] /\ req[p].pc \notin SyncPcs
      BY <1>1 DEF DepositCommit, Done, DepositRow, At, SyncPcs
<1>3. RowMoves(d)
      BY <1>2 DEF RowMoves
<1>4. /\ \A b \in DepositIds : RowMoves(b)
      /\ deposit'[d] = new
      /\ \A id : d \notin TrackersOf(id) /\ d \notin TrackersOf(id)' => SameTrackers(id)
      BY <1>2, <1>3, OneDepositMoves
<1>5. ASSUME NEW id \in BillIds PROVE SameBill(id) /\ SameTrackers(id)
  <2>1. d \notin TrackersOf(id) /\ d \notin TrackersOf(id)'
        BY <1>2, <1>4 DEF TrackersOf, Deposited
  <2> QED BY <1>4, <2>1, BillsSame
<1>6. Elsewhere(p, r)
      BY <1>1, <1>2, IdleSyncsNot DEF Elsewhere
<1>7. \A id \in BillIds \ disturbed' : SameBill(id) /\ SameTrackers(id)
      BY <1>5
<1> HIDE DepositsAssumption, ExpensesAssumption, RowsAssumption
<1> QED BY <1>4, <1>6, <1>7, ElsewhereKeeps

\* A status move spares a refunded deposit, so a tracking one that was refunded stays so.
LEMMA StatusCommitSyncs ==
    ASSUME NoSuchRow, Sound, Sound', SyncInv, NEW p \in Procs, AdvanceCommit(p) \/ RefundCommit(p),
           bill' = bill, Recorded(p)
    PROVE  SyncInv'
<1>1. PICK d, r : d = req[p].dep /\ r = Idle
      OBVIOUS
<1>2. /\ req[p].pc \in WritingPcs /\ req[p].pc \notin SyncPcs /\ Carries(req[p]) /\ Knows(req[p])
      /\ Deposited(d) /\ req' = [req EXCEPT ![p] = r]
      BY <1>1 DEF Sound, IInv, AdvanceCommit, RefundCommit, At, WritingPcs, SyncPcs, Done
<1>3. /\ d \in DepositIds
      /\ d \notin disturbed => deposit[d].status # Refunded
      BY <1>1, <1>2 DEF Carries, Knows
<1>4. HeldRow(deposit[d])
      BY <1>2, <1>3 DEF Sound, DepositInv
<1>5. PICK new : new = Advanced(deposit[d], req[p].row, req[p].to)
      OBVIOUS
<1>6. /\ new.account = deposit[d].account /\ new.amount = deposit[d].amount
      /\ new.source = deposit[d].source /\ DOMAIN new = DOMAIN deposit[d]
      BY <1>4, <1>5 DEF Advanced, HeldRow
<1>7. new \notin {None, Gone}
  <2>1. HeldRow(new)
        BY <1>4, <1>6 DEF HeldRow
  <2> QED BY <2>1 DEF NoSuchRow
<1>8. deposit' = [deposit EXCEPT ![d] = new]
      BY <1>1, <1>5 DEF AdvanceCommit, RefundCommit
<1>9. deposit'[d] = new
      BY <1>3, <1>8 DEF Sound, IInv, TypeInv
<1>10. RowMoves(d)
       BY <1>2, <1>6, <1>7, <1>9 DEF RowMoves
<1>11. /\ \A b \in DepositIds : RowMoves(b)
       /\ \A b \in DepositIds \ {d} : deposit'[b] = deposit[b]
       /\ \A id : d \notin TrackersOf(id) /\ d \notin TrackersOf(id)' => SameTrackers(id)
       BY <1>3, <1>8, <1>10, OneDepositMoves
<1>12. ASSUME NEW id \in BillIds \ disturbed' PROVE SameBill(id) /\ SameTrackers(id)
  <2>1. TrackersOf(id)' = TrackersOf(id)
        BY <1>2, <1>6, <1>7, <1>9, <1>11 DEF TrackersOf, Deposited
  <2>2. CASE d \in TrackersOf(id)
    <3>1. d \notin disturbed
          BY <1>2, <1>3, <1>12, <2>2 DEF SyncInv, TiedToBill, TrackersOf, Recorded
    <3>2. deposit[d].status # Refunded
          BY <1>3, <3>1
    <3>3. \A b \in TrackersOf(id) :
             /\ deposit'[b].amount = deposit[b].amount
             /\ deposit[b].status = Refunded => deposit'[b].status = Refunded
          BY <1>6, <1>9, <1>11, <3>2 DEF TrackersOf
    <3> QED BY <2>1, <3>3, BillsSame DEF SameTrackers
  <2>3. CASE d \notin TrackersOf(id)
        BY <1>11, <2>1, <2>3, BillsSame
  <2> QED BY <2>2, <2>3
<1>13. Elsewhere(p, r)
       BY <1>1, <1>2, IdleSyncsNot DEF Elsewhere
<1> HIDE DepositsAssumption, ExpensesAssumption, RowsAssumption
<1> QED BY <1>11, <1>12, <1>13, ElsewhereKeeps

\* A request that syncs, and writes nothing yet.
LEMMA ReadsSync ==
    ASSUME Sound, Sound', SyncInv, NEW p \in Procs, NEW r, NEW b \in BillIds,
           deposit' = deposit, bill' = bill, Recorded(p),
           req' = [req EXCEPT ![p] = r], CarriesSync(r), KnowsSync(r),
           req[p].id = b, req[p].pc \in SyncPcs, r.pc \notin SyncPcs \/ r.id = b,
           b \notin disturbed /\ r.pc \in SyncPcs => Syncs(r, b),
           b \notin disturbed /\ r.pc \notin SyncPcs => Mirrors(b)
    PROVE  SyncInv'
<1>1. WorksOn(p, r, b)
      BY DEF WorksOn, KnowsSync, Deposited
<1>2. /\ \A d \in DepositIds : RowMoves(d)
      /\ \A id : SameTrackers(id) /\ SameBill(id)
      BY DepositsSame, BillsSame
<1>3. ASSUME b \notin disturbed' PROVE Carried(req[p], r, b)
  <2>1. b \notin disturbed
        BY <1>3 DEF Recorded
  <2>2. Filed(b) /\ Live(b)
        BY <2>1 DEF SyncInv, InStep, Syncing, Filed
  <2>3. Filed(b)'
        BY <2>2 DEF Filed, Live
  <2>4. r.pc \in SyncPcs => Syncs(r, b)'
        BY <1>2, <2>1, <2>2, SameSyncs
  <2>5. r.pc \notin SyncPcs => Mirrors(b)'
        BY <1>2, <2>1, <2>2, SameMirrors
  <2> QED BY <2>3, <2>4, <2>5 DEF Carried, Syncing
<1>4. /\ \A id \in BillIds : id # b => SameBill(id) /\ SameTrackers(id)
      /\ b \notin disturbed' => \/ SameBill(b) /\ SameTrackers(b) /\ Carried(req[p], r, b)
                                \/ Settled(r, b) /\ Alone(p, b)
      BY <1>2, <1>3
<1> HIDE DepositsAssumption, ExpensesAssumption, RowsAssumption
<1> QED BY <1>1, <1>2, <1>4, WorksOnKeeps

\* Looking for the tracking deposit of a bill decides what is to be done.
LEMMA SyncFindSyncs ==
    ASSUME Sound, Sound', SyncInv, NEW p \in Procs, SyncFind(p), bill' = bill, Recorded(p)
    PROVE  SyncInv'
<1>1. PICK b, cost, found : b = req[p].id /\ cost = req[p].cost /\ found = TrackersOf(cost.source)
      OBVIOUS
<1>2. /\ req[p].pc = "syncing" /\ req[p].pc \in SyncPcs /\ RequestShape(req[p]) /\ DOMAIN req = Procs
      /\ CarriesSync(req[p]) /\ deposit' = deposit
      BY DEF Sound, IInv, TypeInv, SyncInv, SyncFind, At, SyncPcs, depositVars
<1>3. b \in BillIds /\ cost.source = b /\ found = TrackersOf(b)
      BY <1>1, <1>2 DEF CarriesSync
<1>4. PICK d, plan :
        /\ d \in IF found = {} THEN {None} ELSE found
        /\ plan = SyncPlan(cost.amount, d)
        /\ req' = [req EXCEPT ![p] = IF plan = "idle" THEN Idle
                                     ELSE [@ EXCEPT !.pc = plan, !.dep = d]]
      BY <1>1 DEF SyncFind
<1>5. d # None => d \in DepositIds /\ Deposited(d) /\ deposit[d].source = b /\ found # {} /\ d \in found
      BY <1>3, <1>4 DEF TrackersOf
<1>6. d = None => found = {}
      BY <1>3, <1>4 DEF TrackersOf
<1>7. ASSUME b \notin disturbed
      PROVE  cost.amount = bill[b].deposit /\ (d # None => found = {d})
  <2>1. InStep(b)
        BY <1>3, <1>7 DEF SyncInv
  <2>2. Syncs(req[p], b)
        BY <1>1, <1>2, <2>1 DEF InStep, Syncing
  <2>3. \A x, z \in found : x = z
        BY <1>3, <2>1 DEF InStep, OneTracker
  <2> QED BY <1>1, <1>5, <2>2, <2>3 DEF Syncs
<1>8. CASE plan = "idle"
  <2>1. PICK r : r = Idle
        OBVIOUS
  <2>2. req' = [req EXCEPT ![p] = r] /\ CarriesSync(r) /\ KnowsSync(r) /\ r.pc \notin SyncPcs
        BY <1>4, <1>8, <2>1, IdleSyncsNot DEF KnowsSync
  <2>3. b \notin disturbed => Mirrors(b)
    <3>1. SUFFICES ASSUME b \notin disturbed PROVE Mirrors(b)
          OBVIOUS
    <3>2. CASE d = None
      <4>1. ~(cost.amount > 0) /\ TrackersOf(b) = {}
            BY <1>3, <1>4, <1>6, <1>8, <3>2 DEF SyncPlan
      <4> QED BY <1>7, <3>1, <4>1 DEF Mirrors
    <3>3. CASE d # None
      <4>1. deposit[d].status = Refunded /\ TrackersOf(b) = {d} /\ d \in DepositIds
            BY <1>3, <1>4, <1>5, <1>7, <1>8, <3>1, <3>3 DEF SyncPlan
      <4> QED BY <4>1 DEF Mirrors
    <3> QED BY <3>2, <3>3
  <2> HIDE DepositsAssumption, ExpensesAssumption, RowsAssumption
  <2> QED BY <1>1, <1>2, <1>3, <2>2, <2>3, ReadsSync
<1>9. CASE plan # "idle"
  <2>1. PICK r : r = [req[p] EXCEPT !.pc = plan, !.dep = d]
        OBVIOUS
  <2>2. req' = [req EXCEPT ![p] = r]
        BY <1>2, <1>4, <1>9, <2>1
  <2>3. r.pc = plan /\ r.dep = d /\ r.cost = cost /\ r.id = b
        BY <1>1, <1>2, <2>1 DEF RequestShape
  <2>4. /\ plan \in {"tracking", "resizing", "removing"}
        /\ plan = "removing" => ~(cost.amount > 0)
        /\ plan # "removing" => cost.amount > 0
        /\ plan = "tracking" <=> d = None
        BY <1>4, <1>9 DEF SyncPlan
  <2>5. r.pc \in SyncPcs
        BY <2>3, <2>4 DEF SyncPcs
  <2>6. CarriesSync(r)
        BY <1>3, <1>5, <2>3, <2>4 DEF CarriesSync, WritingPcs
  <2>7. KnowsSync(r)
        BY <1>5, <2>3, <2>4 DEF KnowsSync
  <2>8. b \notin disturbed => Syncs(r, b)
        BY <1>1, <1>3, <1>6, <1>7, <2>3, <2>4, <2>5 DEF Syncs
  <2>9. /\ r.pc \notin SyncPcs \/ r.id = b
        /\ b \notin disturbed /\ r.pc \in SyncPcs => Syncs(r, b)
        /\ b \notin disturbed /\ r.pc \notin SyncPcs => Mirrors(b)
        BY <2>3, <2>5, <2>8
  <2> HIDE DepositsAssumption, ExpensesAssumption, RowsAssumption
  <2> QED BY <1>1, <1>2, <1>3, <2>2, <2>6, <2>7, <2>9, ReadsSync
<1> QED BY <1>8, <1>9

\* Counting the number of a new tracking deposit.
LEMMA TrackNumberSyncs ==
    ASSUME Sound, Sound', SyncInv, NEW p \in Procs, TrackNumber(p), bill' = bill, Recorded(p)
    PROVE  SyncInv'
<1>1. PICK b, n : b = req[p].id /\ n = NextNumber(DepositRows, req[p].cost.year)
      OBVIOUS
<1>2. /\ req[p].pc = "tracking" /\ req[p].pc \in SyncPcs /\ RequestShape(req[p]) /\ DOMAIN req = Procs
      /\ CarriesSync(req[p]) /\ deposit' = deposit
      BY DEF Sound, IInv, TypeInv, SyncInv, TrackNumber, At, SyncPcs, depositVars
<1>3. b \in BillIds
      BY <1>1, <1>2 DEF CarriesSync
<1>4. PICK r : r = [req[p] EXCEPT !.pc = "tracked", !.number = n]
      OBVIOUS
<1>5. req' = [req EXCEPT ![p] = r]
      BY <1>1, <1>2, <1>4 DEF TrackNumber
<1>6. r.pc = "tracked" /\ r.dep = req[p].dep /\ r.cost = req[p].cost /\ r.id = b
      BY <1>1, <1>2, <1>4 DEF RequestShape
<1>7. r.pc \in SyncPcs
      BY <1>6 DEF SyncPcs
<1>8. CarriesSync(r) /\ KnowsSync(r)
      BY <1>1, <1>2, <1>6 DEF CarriesSync, KnowsSync, WritingPcs
<1>9. ASSUME b \notin disturbed PROVE Syncs(r, b)
  <2>1. Syncs(req[p], b)
        BY <1>1, <1>2, <1>3, <1>9 DEF SyncInv, InStep, Syncing
  <2> QED BY <1>2, <1>6, <1>7, <2>1 DEF Syncs
<1>10. /\ r.pc \notin SyncPcs \/ r.id = b
       /\ b \notin disturbed /\ r.pc \in SyncPcs => Syncs(r, b)
       /\ b \notin disturbed /\ r.pc \notin SyncPcs => Mirrors(b)
       BY <1>6, <1>7, <1>9
<1> HIDE DepositsAssumption, ExpensesAssumption, RowsAssumption
<1> QED BY <1>1, <1>2, <1>3, <1>5, <1>8, <1>10, ReadsSync

\* A sync ends by writing a deposit of the bill it is for.
LEMMA TrackerWrites ==
    ASSUME Sound, Sound', SyncInv, NEW p \in Procs, Done(p), NEW b \in BillIds, req[p].id = b,
           NEW d \in DepositIds, NEW new, deposit' = [deposit EXCEPT ![d] = new], RowMoves(d),
           Deposited(d) => deposit[d].source = b, new # Gone => new.source = b,
           bill' = bill, Recorded(p),
           b \notin disturbed => OneTracker(b)' /\ Mirrors(b)'
    PROVE  SyncInv'
<1>1. PICK r : r = Idle
      OBVIOUS
<1>2. WorksOn(p, r, b)
      BY <1>1, IdleSyncsNot DEF WorksOn, KnowsSync, Done
<1>3. /\ \A x \in DepositIds : RowMoves(x)
      /\ deposit'[d] = new
      /\ \A id : d \notin TrackersOf(id) /\ d \notin TrackersOf(id)' => SameTrackers(id)
      BY OneDepositMoves
<1>4. ASSUME NEW id \in BillIds, id # b PROVE SameBill(id) /\ SameTrackers(id)
  <2>1. d \notin TrackersOf(id)
        BY <1>4 DEF TrackersOf
  <2>2. d \notin TrackersOf(id)'
        BY <1>3, <1>4 DEF TrackersOf, Deposited
  <2> QED BY <1>3, <2>1, <2>2, BillsSame
<1>5. ASSUME b \notin disturbed' PROVE Settled(r, b) /\ Alone(p, b)
  <2>1. b \notin disturbed
        BY <1>5 DEF Recorded
  <2>2. Settled(r, b)
        BY <1>1, <2>1, IdleSyncsNot DEF Settled, Syncing
  <2> QED BY <2>1, <2>2, WorksAlone
<1>6. /\ \A id \in BillIds : id # b => SameBill(id) /\ SameTrackers(id)
      /\ b \notin disturbed' => \/ SameBill(b) /\ SameTrackers(b) /\ Carried(req[p], r, b)
                                \/ Settled(r, b) /\ Alone(p, b)
      BY <1>4, <1>5
<1> HIDE DepositsAssumption, ExpensesAssumption, RowsAssumption
<1> QED BY <1>2, <1>3, <1>6, WorksOnKeeps

\* Creating the tracking deposit.
LEMMA TrackCommitSyncs ==
    ASSUME NoSuchRow, Sound, Sound', SyncInv, NEW p \in Procs, NEW d \in DepositIds, TrackCommit(p, d),
           bill' = bill, Recorded(p)
    PROVE  SyncInv'
<1>1. PICK b, cost, new :
        /\ b = req[p].id /\ cost = req[p].cost
        /\ new = DepositRow(req[p].number, cost.source, cost.job, cost.amount, None)
      OBVIOUS
<1>2. /\ req[p].pc = "tracked" /\ req[p].pc \in SyncPcs /\ CarriesDeposit(req[p]) /\ CarriesSync(req[p])
      BY DEF Sound, DepositInv, SyncInv, TrackCommit, At, SyncPcs
<1>3. b \in BillIds /\ cost.source = b /\ cost.amount \in Nat \ {0}
      BY <1>1, <1>2 DEF CarriesSync, CarriesDeposit
<1>4. /\ deposit' = [deposit EXCEPT ![d] = new] /\ deposit[d] = None /\ Done(p)
      BY <1>1 DEF TrackCommit
<1>5. new.source = b /\ new.amount = cost.amount /\ new \notin {None, Gone}
  <2>1. HeldRow(new) /\ new.source = b /\ new.amount = cost.amount
        BY <1>1, <1>3 DEF HeldRow, DepositRow
  <2> QED BY <2>1 DEF NoSuchRow
<1>6. RowMoves(d)
      BY <1>4 DEF RowMoves
<1>7. deposit'[d] = new /\ \A x \in DepositIds \ {d} : deposit'[x] = deposit[x]
      BY <1>4, <1>6, OneDepositMoves
<1>8. ASSUME b \notin disturbed PROVE OneTracker(b)' /\ Mirrors(b)'
  <2>1. Syncs(req[p], b) /\ Filed(b)
        BY <1>1, <1>2, <1>3, <1>8 DEF SyncInv, InStep, Syncing
  <2>2. TrackersOf(b) = {} /\ bill[b].deposit > 0 /\ cost.amount = bill[b].deposit
        BY <1>1, <1>2, <2>1 DEF Syncs
  <2>3. TrackersOf(b)' = {d}
        BY <1>5, <1>7, <2>2 DEF TrackersOf, Deposited
  <2>4. bill'[b] = bill[b] /\ bill[b] # None
        BY <2>1 DEF Filed, Live
  <2>5. OneTracker(b)'
        BY <2>3, <2>4 DEF OneTracker
  <2>6. deposit'[d].amount = bill'[b].deposit /\ bill'[b].deposit > 0
        BY <1>5, <1>7, <2>2, <2>4
  <2>7. Mirrors(b)'
        BY <2>3, <2>6 DEF Mirrors
  <2> QED BY <2>5, <2>7
<1>9. /\ Deposited(d) => deposit[d].source = b
      /\ new # Gone => new.source = b
      /\ b \notin disturbed => OneTracker(b)' /\ Mirrors(b)'
      BY <1>4, <1>5, <1>8 DEF Deposited
<1> HIDE DepositsAssumption, ExpensesAssumption, RowsAssumption
<1> QED BY <1>1, <1>3, <1>4, <1>6, <1>9, TrackerWrites

\* What a request that is about to resize or remove a deposit knows of it.
LEMMA WritesTracker ==
    ASSUME Sound, SyncInv, NEW p \in Procs, NEW b, b = req[p].id, NEW d, d = req[p].dep,
           req[p].pc \in {"resizing", "removing"}, Deposited(d)
    PROVE  /\ b \in BillIds /\ d \in DepositIds /\ HeldRow(deposit[d]) /\ deposit[d].source = b
           /\ b \notin disturbed =>
                /\ TrackersOf(b) = {d} /\ bill[b] # None /\ req[p].cost.amount = bill[b].deposit
                /\ req[p].pc = "resizing" <=> bill[b].deposit > 0
<1>1. /\ Carries(req[p]) /\ CarriesSync(req[p]) /\ KnowsSync(req[p])
      /\ req[p].pc \in SyncPcs /\ req[p].pc \in WritingPcs
      BY DEF Sound, IInv, SyncInv, SyncPcs, WritingPcs
<1>2. b \in BillIds /\ d \in DepositIds /\ deposit[d].source = b
      BY <1>1 DEF Carries, CarriesSync, KnowsSync
<1>3. HeldRow(deposit[d])
      BY <1>2 DEF Sound, DepositInv
<1>4. ASSUME b \notin disturbed PROVE Syncs(req[p], b) /\ bill[b] # None
      BY <1>1, <1>2, <1>4 DEF SyncInv, InStep, Syncing, Filed, Live
<1> QED BY <1>2, <1>3, <1>4 DEF Syncs

\* Giving the tracking deposit the amount of the bill.
LEMMA ResizeSyncs ==
    ASSUME NoSuchRow, Sound, Sound', SyncInv, NEW p \in Procs, ResizeCommit(p), bill' = bill, Recorded(p)
    PROVE  SyncInv'
<1>1. PICK b, d, amount : b = req[p].id /\ d = req[p].dep /\ amount = req[p].cost.amount
      OBVIOUS
<1>2. req[p].pc = "resizing" /\ Deposited(d) /\ Done(p)
      BY <1>1 DEF ResizeCommit, At
<1>3. /\ b \in BillIds /\ d \in DepositIds /\ HeldRow(deposit[d]) /\ deposit[d].source = b
      /\ b \notin disturbed =>
            TrackersOf(b) = {d} /\ bill[b] # None /\ amount = bill[b].deposit /\ bill[b].deposit > 0
      BY <1>1, <1>2, WritesTracker
<1>4. PICK new : new = Resized(deposit[d], amount)
      OBVIOUS
<1>5. deposit' = [deposit EXCEPT ![d] = new]
      BY <1>1, <1>4 DEF ResizeCommit
<1>6. new.source = b /\ new.amount = amount /\ new \notin {None, Gone}
  <2>1. amount \in Nat \ {0}
        BY <1>1, <1>2 DEF Sound, DepositInv, CarriesDeposit, SyncPcs
  <2>2. HeldRow(new) /\ new.source = b /\ new.amount = amount
        BY <1>3, <1>4, <2>1 DEF HeldRow, Resized
  <2> QED BY <2>2 DEF NoSuchRow
<1>7. deposit'[d] = new
      BY <1>3, <1>5 DEF Sound, IInv, TypeInv
<1>8. RowMoves(d)
      BY <1>2, <1>3, <1>6, <1>7 DEF RowMoves
<1>9. \A x \in DepositIds \ {d} : deposit'[x] = deposit[x]
      BY <1>3, <1>5, <1>8, OneDepositMoves
<1>10. ASSUME b \notin disturbed PROVE OneTracker(b)' /\ Mirrors(b)'
  <2>1. TrackersOf(b)' = TrackersOf(b)
        BY <1>2, <1>3, <1>6, <1>7, <1>9 DEF TrackersOf, Deposited
  <2>2. TrackersOf(b)' = {d} /\ bill'[b] # None
        BY <1>3, <1>10, <2>1
  <2>3. OneTracker(b)'
        BY <2>2 DEF OneTracker
  <2>4. deposit'[d].amount = bill'[b].deposit /\ bill'[b].deposit > 0
        BY <1>3, <1>6, <1>7, <1>10
  <2>5. Mirrors(b)'
        BY <1>3, <2>2, <2>4 DEF Mirrors
  <2> QED BY <2>3, <2>5
<1>11. /\ Deposited(d) => deposit[d].source = b
       /\ new # Gone => new.source = b
       /\ b \notin disturbed => OneTracker(b)' /\ Mirrors(b)'
       BY <1>3, <1>6, <1>10
<1> HIDE DepositsAssumption, ExpensesAssumption, RowsAssumption
<1> QED BY <1>1, <1>2, <1>3, <1>5, <1>8, <1>11, TrackerWrites

\* Deleting the tracking deposit.
LEMMA RemoveSyncs ==
    ASSUME Sound, Sound', SyncInv, NEW p \in Procs, RemoveCommit(p), bill' = bill, Recorded(p)
    PROVE  SyncInv'
<1>1. PICK b, d, new : b = req[p].id /\ d = req[p].dep /\ new = Gone
      OBVIOUS
<1>2. req[p].pc = "removing" /\ Deposited(d) /\ Done(p) /\ deposit' = [deposit EXCEPT ![d] = new]
      BY <1>1 DEF RemoveCommit, At
<1>3. /\ b \in BillIds /\ d \in DepositIds /\ deposit[d].source = b
      /\ b \notin disturbed =>
            TrackersOf(b) = {d} /\ bill[b] # None /\ ~(bill[b].deposit > 0)
      BY <1>1, <1>2, WritesTracker
<1>4. deposit'[d] = new
      BY <1>2, <1>3 DEF Sound, IInv, TypeInv
<1>5. RowMoves(d)
      BY <1>1, <1>4 DEF RowMoves, Deposited
<1>6. \A x \in DepositIds \ {d} : deposit'[x] = deposit[x]
      BY <1>2, <1>3, <1>5, OneDepositMoves
<1>7. ASSUME b \notin disturbed PROVE OneTracker(b)' /\ Mirrors(b)'
  <2>1. TrackersOf(b)' = {}
        BY <1>1, <1>3, <1>4, <1>6, <1>7 DEF TrackersOf, Deposited
  <2> QED BY <1>3, <1>7, <2>1 DEF OneTracker, Mirrors
<1>8. /\ Deposited(d) => deposit[d].source = b
      /\ new # Gone => new.source = b
      /\ b \notin disturbed => OneTracker(b)' /\ Mirrors(b)'
      BY <1>1, <1>3, <1>7
<1> HIDE DepositsAssumption, ExpensesAssumption, RowsAssumption
<1> QED BY <1>1, <1>2, <1>3, <1>5, <1>8, TrackerWrites

\* Every step of a request on deposits.
LEMMA DepositStepSyncs ==
    ASSUME NoSuchRow, Sound, Sound', SyncInv, NEW p \in Procs, NEW y, DepositStep(p, y),
           bill' = bill, Recorded(p)
    PROVE  SyncInv'
<1>1. CASE \/ \E dto \in DepositDtos : DepositNumber(p, dto)
           \/ DepositEntryNumber(p) \/ RefundNumber(p, y)
           \/ \E d \in DepositIds, to \in {DEPOSIT_LIFECYCLE[i] : i \in 1..5} : StatusRead(p, d, to)
  <2>1. PICK r : Elsewhere(p, r) /\ deposit' = deposit
        BY <1>1, DepositReadsElsewhere
  <2>2. \A id \in BillIds : SameBill(id)
        BY BillsSame
  <2> HIDE DepositsAssumption, ExpensesAssumption, RowsAssumption
  <2> QED BY <2>1, <2>2, BillsAside
<1>2. ASSUME NEW d \in DepositIds, DepositCommit(p, d) PROVE SyncInv'
      BY <1>2, DepositCommitSyncs
<1>3. CASE AdvanceCommit(p) \/ RefundCommit(p)
      BY <1>3, StatusCommitSyncs
<1>4. CASE SyncFind(p)
      BY <1>4, SyncFindSyncs
<1>5. CASE TrackNumber(p)
      BY <1>5, TrackNumberSyncs
<1>6. ASSUME NEW d \in DepositIds, TrackCommit(p, d) PROVE SyncInv'
      BY <1>6, TrackCommitSyncs
<1>7. CASE ResizeCommit(p)
      BY <1>7, ResizeSyncs
<1>8. CASE RemoveCommit(p)
      BY <1>8, RemoveSyncs
<1> QED BY <1>1, <1>2, <1>3, <1>4, <1>5, <1>6, <1>7, <1>8 DEF DepositStep

\* A sync that is cut off leaves a bill that the history tells of.
LEMMA AbortSyncs ==
    ASSUME Sound, Sound', SyncInv, NEW p \in Procs, Abort(p), disturbed' = disturbed \cup CutOff(p)
    PROVE  SyncInv'
<1>1. Recorded(p)
      BY DEF Recorded
<1>2. req' = [req EXCEPT ![p] = Idle] /\ deposit' = deposit /\ bill' = bill
      BY DEF Abort, Done, Reads
<1>3. PICK r : r = Idle
      OBVIOUS
<1>4. CASE req[p].pc \notin SyncPcs
  <2>1. Elsewhere(p, r)
        BY <1>2, <1>3, <1>4, IdleSyncsNot DEF Elsewhere
  <2>2. \A id \in BillIds : SameBill(id)
        BY <1>2, BillsSame
  <2> HIDE DepositsAssumption, ExpensesAssumption, RowsAssumption
  <2> QED BY <1>1, <1>2, <2>1, <2>2, BillsAside
<1>5. CASE req[p].pc \in SyncPcs
  <2>1. PICK b : b = req[p].id
        OBVIOUS
  <2>2. b \in BillIds /\ b \in disturbed'
        BY <1>5, <2>1 DEF SyncInv, CarriesSync, CutOff, Touched
  <2>3. WorksOn(p, r, b)
        BY <1>2, <1>3, <2>1, IdleSyncsNot DEF WorksOn, KnowsSync
  <2>4. /\ \A d \in DepositIds : RowMoves(d)
        /\ \A id \in BillIds : id # b => SameBill(id) /\ SameTrackers(id)
        /\ b \notin disturbed' => \/ SameBill(b) /\ SameTrackers(b) /\ Carried(req[p], r, b)
                                  \/ Settled(r, b) /\ Alone(p, b)
        BY <1>2, <2>2, DepositsSame, BillsSame
  <2> HIDE DepositsAssumption, ExpensesAssumption, RowsAssumption
  <2> QED BY <1>1, <2>2, <2>3, <2>4, WorksOnKeeps
<1> QED BY <1>4, <1>5

\* No bill and no deposit is there at first.
LEMMA SyncInitOK == Init => SyncInv
<1> SUFFICES ASSUME Init PROVE SyncInv
    OBVIOUS
<1>1. \A p \in Procs : req[p] = Idle
      BY DEF Init
<1>2. \A id : TrackersOf(id) = {}
      BY DEF Init, TrackersOf, Deposited
<1>3. \A id \in BillIds : ~Filed(id)
      BY DEF Init, Filed, Live
<1>4. disturbed = {}
      BY DEF Init
<1>5. KnowsSync(Idle)
      BY IdleSyncsNot DEF KnowsSync
<1>6. \A id \in BillIds : InStep(id)
      BY <1>1, <1>2, <1>3, IdleSyncsNot DEF InStep, OneTracker, Syncing
<1> QED BY <1>1, <1>4, <1>5, <1>6, IdleSyncsNot DEF SyncInv, TiedToBill

\* Every step keeps it.
LEMMA SyncNextKeeps ==
    ASSUME NoSuchRow
    PROVE  Sound /\ Sound' /\ SyncInv /\ [Next]_vars => SyncInv'
<1> SUFFICES ASSUME Sound, Sound', SyncInv, [Next]_vars PROVE SyncInv'
    OBVIOUS
<1>1. ASSUME NEW p \in Procs, NEW y \in Years, BillStep(p, y),
             disturbed' = disturbed \cup Overlapping'
      PROVE  SyncInv'
      BY <1>1, BillStepSyncs DEF Recorded
<1>2. ASSUME NEW p \in Procs, NEW y \in Years, DepositStep(p, y), UNCHANGED billVars,
             disturbed' = disturbed \cup Overlapping'
      PROVE  SyncInv'
      BY <1>2, DepositStepSyncs DEF Recorded, billVars
<1>3. ASSUME NEW p \in Procs, Abort(p), disturbed' = disturbed \cup CutOff(p) PROVE SyncInv'
      BY <1>3, AbortSyncs
<1>4. CASE UNCHANGED vars
  <2>1. UNCHANGED <<deposit, bill, req, disturbed>>
        BY <1>4 DEF vars
  <2>2. \A id : SameTrackers(id) /\ SameBill(id)
        BY <2>1, DepositsSame, BillsSame
  <2>3. ASSUME NEW p \in Procs PROVE CarriesSync(req[p])' /\ KnowsSync(req[p])'
        BY <2>1 DEF SyncInv, CarriesSync, KnowsSync, Deposited
  <2>4. \A d \in DepositIds : TiedToBill(d)'
        BY <2>1 DEF SyncInv, TiedToBill, Deposited
  <2>5. ASSUME NEW id \in BillIds \ disturbed' PROVE InStep(id)'
    <3>1. InStep(id)
          BY <2>1, <2>5 DEF SyncInv
    <3>2. OneTracker(id)'
          BY <2>1, <2>2, <3>1 DEF InStep, OneTracker, SameTrackers
    <3>3. Filed(id)' <=> Filed(id)
          BY <2>1 DEF Filed, Live
    <3>4. ASSUME NEW p \in Procs, Live(id), Syncs(req[p], id) PROVE Syncs(req[p], id)'
      <4>1. PICK k : k = req[p] /\ k = req'[p]
            BY <2>1
      <4>2. Syncs(k, id)'
            BY <2>2, <3>4, <4>1, SameSyncs
      <4> QED BY <4>1, <4>2 DEF Syncs
    <3>5. Live(id) /\ Mirrors(id) => Mirrors(id)'
          BY <2>2, SameMirrors
    <3>6. \A p \in Procs : Syncing(req[p], id)'
          BY <2>1, <3>1, <3>3, <3>4 DEF InStep, Syncing, Filed
    <3>7. Filed(id)' => Mirrors(id)' \/ \E p \in Procs : Syncs(req[p], id)'
          BY <3>1, <3>3, <3>4, <3>5 DEF InStep, Filed
    <3> QED BY <3>2, <3>6, <3>7 DEF InStep
  <2> QED BY <2>3, <2>4, <2>5 DEF SyncInv
<1> QED BY <1>1, <1>2, <1>3, <1>4 DEF Next

\* So the fifth invariant holds always.
LEMMA AlwaysSyncInv == ASSUME NoSuchRow PROVE Spec => []SyncInv
<1>1. Sound /\ Sound' /\ SyncInv /\ [Next]_vars => SyncInv'
      BY SyncNextKeeps
<1>2. Spec => []DepositInv
      BY AlwaysDepositInv
<1>3. IInv /\ PayInv /\ DepositInv => Sound
      BY DEF Sound
<1> QED BY <1>1, <1>2, <1>3, AlwaysIInv, AlwaysPayInv, SyncInitOK, PTL DEF Spec

\* Once the requests on a job's bill are through, one after the other, its tracking
\* deposit is there exactly when the bill has a deposit, once and for its amount,
\* unless the deposit was refunded before.
THEOREM TrackersMirrorBills == ASSUME NoSuchRow PROVE Spec => []TrackerMirrorsBill
<1>1. SyncInv => TrackerMirrorsBill
  <2> SUFFICES ASSUME SyncInv, NEW id \in Calm \cap BillIds,
                      Live(id) /\ bill[id].job # None /\ AtRest(id)
               PROVE  Mirrors(id)
      BY DEF TrackerMirrorsBill, Mirrors
  <2>1. InStep(id) /\ Filed(id)
        BY DEF SyncInv, Calm, Filed
  <2>2. \A p \in Procs : ~Syncs(req[p], id)
        BY DEF AtRest, Syncs
  <2> QED BY <2>1, <2>2 DEF InStep
<1> QED BY <1>1, AlwaysSyncInv, PTL

\* What a bill's only tracking deposit holds.
LEMMA HeldByOne ==
    ASSUME NEW id, NEW d \in DepositIds, TrackersOf(id) = {d}, deposit[d].amount \in Int
    PROVE  Held(id) = deposit[d].amount
<1> DEFINE f == [x \in TrackersOf(id) |-> deposit[x].amount]
<1>1. DOMAIN f = {d} /\ f[d] = deposit[d].amount
      OBVIOUS
<1>2. IsFiniteSet(DOMAIN f)
  <2>1. IsFiniteSet({d})
        BY FS_Singleton
  <2> HIDE DEF f
  <2> QED BY <1>1, <2>1
<1> HIDE DEF f
<1>3. SumFunction(f) = f[d]
      BY <1>1, <1>2, SumOfOne
<1> QED BY <1>1, <1>3 DEF Held, f

\* What a job's bill charges is counted once, as cost or as money held: the cost
\* leaves out what its row calls the deposit, and the tracking deposit, written in
\* a transaction of its own, is for that amount.
THEOREM BillsAreChargedOnce == ASSUME NoSuchRow PROVE Spec => []ChargedOnce
<1>1. IInv /\ SyncInv => ChargedOnce
  <2> SUFFICES ASSUME IInv, SyncInv, NEW id \in Calm \cap BillIds,
                      Live(id) /\ bill[id].job # None /\ AtRest(id),
                      ~bill[id].stated, bill[id].deposit >= 0,
                      \A d \in TrackersOf(id) : deposit[d].status # Refunded
               PROVE  bill[id].actual + Held(id) = bill[id].amount + bill[id].tax
      BY DEF ChargedOnce
  <2>1. InStep(id) /\ Filed(id)
        BY DEF SyncInv, Calm, Filed
  <2>2. \A p \in Procs : ~Syncs(req[p], id)
        BY DEF AtRest, Syncs
  <2>3. Mirrors(id)
        BY <2>1, <2>2 DEF InStep
  <2>4. PICK amount, tax, dep, actual :
          /\ amount = bill[id].amount /\ tax = bill[id].tax
          /\ dep = bill[id].deposit /\ actual = bill[id].actual
        OBVIOUS
  <2>5. /\ amount \in Int /\ tax \in Int /\ dep \in Int
        /\ actual = amount + tax - dep
        BY <2>4 DEF IInv, TypeInv, RowOK, BillRow, Live
  <2>6. Held(id) = dep
    <3>1. CASE dep > 0
      <4>1. PICK d \in DepositIds : TrackersOf(id) = {d} /\ deposit[d].amount = dep
            BY <2>3, <2>4, <3>1 DEF Mirrors
      <4> QED BY <2>5, <4>1, HeldByOne
    <3>2. CASE dep = 0
      <4>1. TrackersOf(id) = {}
            BY <2>3, <2>4, <3>2 DEF Mirrors
      <4>2. Held(id) = SumFunction([d \in {} |-> deposit[d].amount])
            BY <4>1 DEF Held
      <4>3. DOMAIN [d \in {} |-> deposit[d].amount] = {}
            OBVIOUS
      <4> QED BY <3>2, <4>2, <4>3, SumOverDomain, SumEmpty
    <3> QED BY <2>4, <2>5, <3>1, <3>2
  <2> QED BY <2>4, <2>5, <2>6
<1> QED BY <1>1, AlwaysIInv, AlwaysSyncInv, PTL

=============================================================================
