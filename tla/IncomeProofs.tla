---------------------------- MODULE IncomeProofs ----------------------------
(***************************************************************************)
(* Proofs about Income for every number of concurrent requests, records,   *)
(* entries, years, accounts and amounts.                                   *)
(***************************************************************************)
EXTENDS Income, LedgerLemmas

USE IncomeAssumption, NoneAssumption

----------------------------------------------------------------------------
(* The inductive invariant *)

\* Record id is there to stay and was entered by hand.
Manual(id) == id \in RecordIds /\ Exists(id) /\ income[id].source = "MANUAL"

\* What a request knows at each of its steps.
CreateOK(r) ==
    /\ r.pc \in {"numbered", "posting"} => r.data \in CreateDto /\ r.number \in Numbers
    /\ r.pc = "posting" => r.entryNumber \in Numbers /\ r.entryNumber.year = r.data.year

\* An update found the one entry its record had; if that entry is still there
\* when it re-posts, nobody has edited the record since.
UpdateOK(r) ==
    /\ r.pc \in {"editing", "reversing", "reposting"} => Manual(r.id) /\ r.data \in UpdateDto
    /\ r.pc \in {"reversing", "reposting"} =>
         \E e \in r.found : r.found = {e} /\ e.id \in used /\ e.ref = Ref(r.id)
    /\ r.pc = "reposting" =>
         /\ r.entryNumber \in Numbers
         /\ r.found \subseteq journal =>
              r.entryNumber.year = Merge(income[r.id], r.data).year

LinkOK(r) ==
    /\ r.pc \in {"linking", "inserting"} => r.data \in CreateDto /\ r.id \in InvoiceIds
    /\ r.pc = "inserting" => r.number \in Numbers

ManualOK(r) == r.pc = "manual" => r.lines \in ManualLines /\ r.entryNumber \in Numbers

RequestOK(r) == CreateOK(r) /\ UpdateOK(r) /\ LinkOK(r) /\ ManualOK(r)

IInv ==
    /\ TypeOK
    /\ \A e \in journal : e.id \in used
    /\ \A p \in Procs : RequestOK(req[p])
    /\ OneEntryPerIncome

----------------------------------------------------------------------------
(* Lemmas about rows, numbers and single requests *)

\* A table read returns finitely many rows.
LEMMA RowsFinite == TypeOK => IsFiniteSet(Rows)
<1> SUFFICES ASSUME TypeOK PROVE IsFiniteSet(Rows)
    OBVIOUS
<1> DEFINE S == {i \in RecordIds : Exists(i)}
           f == [i \in S |-> income[i]]
<1>1. IsFiniteSet(S)
      BY FS_Subset
<1>2. f \in Surjection(S, Rows)
      BY DEF Surjection, Rows
<1> QED BY <1>1, <1>2, FS_Surjection

\* Counting a year's rows gives a number of that year.
LEMMA NextNumberType ==
    ASSUME NEW rows, IsFiniteSet(rows), NEW y \in Years
    PROVE  NextNumber(rows, y) \in Numbers /\ NextNumber(rows, y).year = y
<1> DEFINE S == {r \in rows : r.number.year = y}
<1>1. Cardinality(S) \in Nat
      BY FS_Subset, FS_CardinalityType
<1> QED BY <1>1 DEF NextNumber, Numbers

\* The row a create writes, and the row an update writes.
LEMMA NewRowType ==
    ASSUME NEW r \in Request, r.data \in CreateDto, r.number \in Numbers
    PROVE  /\ NewRow(r) \in Row
           /\ NewRow(r).source = "MANUAL"
           /\ NewRow(r).year = r.data.year
BY DEF NewRow, Row, CreateDto

LEMMA MergeType ==
    ASSUME NEW row \in Row, NEW dto \in UpdateDto
    PROVE  /\ Merge(row, dto) \in Row
           /\ Merge(row, dto).source = row.source
           /\ Merge(row, dto).year = Given(dto.year, row.year)
BY DEF Merge, Given, Row, UpdateDto

LEMMA IncomeLinesType ==
    ASSUME NEW row \in Row
    PROVE  IncomeLines(row) \in Seq(LineType)
<1>1. Debit(Bank, row.amount) \in LineType /\ Credit(row.account, row.amount) \in LineType
      BY DEF Debit, Credit, LineType, Row
<1> QED BY <1>1 DEF IncomeLines

LEMMA IdleOK == Idle \in Request /\ RequestOK(Idle)
BY DEF Idle, Request, RequestOK, CreateOK, UpdateOK, LinkOK, ManualOK

----------------------------------------------------------------------------
(* Steps that only read, or that end a request *)

\* A step that changes nothing but its own request keeps the invariant when
\* what the request now knows is right.
LEMMA RequestStep ==
    ASSUME IInv, NEW p \in Procs, NEW r,
           req' = [req EXCEPT ![p] = r], r \in Request, RequestOK(r),
           UNCHANGED <<income, journal, balance, used>>
    PROVE  IInv'
<1>1. TypeOK'
      BY DEF IInv, TypeOK
<1>2. \A e \in journal' : e.id \in used'
      BY DEF IInv
<1>3. ASSUME NEW q \in Procs PROVE RequestOK(req[q])'
  <2>1. req'[q] = r \/ req'[q] = req[q]
        BY DEF IInv, TypeOK
  <2>2. RequestOK(req[q]) /\ RequestOK(r)
        BY DEF IInv
  <2> QED BY <2>1, <2>2 DEF RequestOK, CreateOK, UpdateOK, LinkOK, ManualOK, Manual, Exists, Merge
<1>4. OneEntryPerIncome'
      BY DEF IInv, OneEntryPerIncome, Exists, EntriesOf
<1> QED BY <1>1, <1>2, <1>3, <1>4 DEF IInv

LEMMA CreateNumberStep ==
    ASSUME IInv, NEW p \in Procs, NEW dto \in CreateDtos, CreateNumber(p, dto)
    PROVE  IInv'
<1>1. PICK r : r = [Idle EXCEPT !.pc = "numbered", !.data = dto,
                                !.number = NextNumber(Rows, dto.year)]
      OBVIOUS
<1>2. dto \in CreateDto /\ dto.year \in Years /\ dto \in UpdateDto
      BY DEF CreateDto, UpdateDto
<1>3. r.number \in Numbers
      BY <1>1, <1>2, RowsFinite, NextNumberType DEF IInv, Idle
<1>4. r \in Request /\ RequestOK(r)
      BY <1>1, <1>2, <1>3
      DEF Idle, Request, RequestOK, CreateOK, UpdateOK, LinkOK, ManualOK
<1> QED BY <1>1, <1>4, RequestStep DEF CreateNumber

LEMMA CreateEntryNumberStep ==
    ASSUME IInv, NEW p \in Procs, CreateEntryNumber(p)
    PROVE  IInv'
<1>1. PICK r : r = [req[p] EXCEPT !.pc = "posting",
                       !.entryNumber = NextNumber(journal, req[p].data.year)]
      OBVIOUS
<1>2. req[p] \in Request /\ req[p].pc = "numbered" /\ RequestOK(req[p])
      BY DEF IInv, TypeOK, CreateEntryNumber, At
<1>3. req[p].data \in CreateDto /\ req[p].number \in Numbers
      BY <1>2 DEF RequestOK, CreateOK
<1>4. NextNumber(journal, req[p].data.year) \in Numbers
      /\ NextNumber(journal, req[p].data.year).year = req[p].data.year
      BY <1>3, NextNumberType DEF IInv, TypeOK, CreateDto
<1>5. r \in Request /\ RequestOK(r)
      BY <1>1, <1>2, <1>3, <1>4
      DEF Request, RequestOK, CreateOK, UpdateOK, LinkOK, ManualOK
<1>6. req' = [req EXCEPT ![p] = r]
      BY <1>1, <1>2 DEF CreateEntryNumber, IInv, TypeOK
<1> QED BY <1>5, <1>6, RequestStep DEF CreateEntryNumber

LEMMA UpdateReadStep ==
    ASSUME IInv, NEW p \in Procs, NEW id \in RecordIds, NEW dto \in UpdateDtos,
           UpdateRead(p, id, dto)
    PROVE  IInv'
<1>1. PICK r : r = [Idle EXCEPT !.pc = "editing", !.id = id, !.data = dto]
      OBVIOUS
<1>2. dto \in UpdateDto
      OBVIOUS
<1>3. r \in Request /\ RequestOK(r)
      BY <1>1, <1>2
      DEF Idle, Request, RequestOK, CreateOK, UpdateOK, LinkOK, ManualOK, Manual, UpdateRead
<1> QED BY <1>1, <1>3, RequestStep DEF UpdateRead

\* The invariant says what reverseEntriesByReference finds: exactly one entry.
LEMMA UpdateFindStep ==
    ASSUME IInv, NEW p \in Procs, UpdateFind(p)
    PROVE  IInv'
<1>1. PICK r : r = [req[p] EXCEPT !.pc = "reversing",
                                  !.found = EntriesOf(journal, Ref(req[p].id))]
      OBVIOUS
<1>2. req[p] \in Request /\ req[p].pc = "editing" /\ RequestOK(req[p])
      BY DEF IInv, TypeOK, UpdateFind, At
<1>3. Manual(req[p].id) /\ req[p].data \in UpdateDto
      BY <1>2 DEF RequestOK, UpdateOK
<1>4. PICK e \in journal : EntriesOf(journal, Ref(req[p].id)) = {e}
      BY <1>3 DEF IInv, OneEntryPerIncome, Manual
<1>5. e \in Entry /\ e.id \in used /\ e.ref = Ref(req[p].id)
      BY <1>4 DEF IInv, TypeOK, EntriesOf
<1>6. r \in Request /\ RequestOK(r)
  <2>1. r \in Request
        BY <1>1, <1>2, <1>4, <1>5 DEF Request
  <2>2. r.pc = "reversing" /\ r.id = req[p].id /\ r.data = req[p].data /\ r.found = {e}
        BY <1>1, <1>2, <1>4 DEF Request
  <2>3. RequestOK(r)
        BY <2>2, <1>3, <1>5 DEF RequestOK, CreateOK, UpdateOK, LinkOK, ManualOK
  <2> QED BY <2>1, <2>3
<1>7. req' = [req EXCEPT ![p] = r]
      BY <1>1, <1>2 DEF UpdateFind, IInv, TypeOK
<1> QED BY <1>6, <1>7, RequestStep DEF UpdateFind

LEMMA UpdateEntryNumberStep ==
    ASSUME IInv, NEW p \in Procs, UpdateEntryNumber(p)
    PROVE  IInv'
<1> DEFINE row == Merge(income[req[p].id], req[p].data)
           number == NextNumber(journal \ req[p].found, row.year)
<1>1. PICK r : r = [req[p] EXCEPT !.pc = "reposting", !.entryNumber = number]
      OBVIOUS
<1>2. req[p] \in Request /\ req[p].pc = "reversing" /\ RequestOK(req[p])
      BY DEF IInv, TypeOK, UpdateEntryNumber, At
<1>3. /\ Manual(req[p].id) /\ req[p].data \in UpdateDto
      /\ \E e \in req[p].found :
            req[p].found = {e} /\ e.id \in used /\ e.ref = Ref(req[p].id)
      BY <1>2 DEF RequestOK, UpdateOK
<1>4. row \in Row
      BY <1>3, MergeType DEF Manual, Exists, IInv, TypeOK
<1>5. IsFiniteSet(journal \ req[p].found)
      BY FS_Subset DEF IInv, TypeOK
<1>6. number \in Numbers /\ number.year = row.year
      BY <1>4, <1>5, NextNumberType DEF Row
<1>7. r \in Request /\ RequestOK(r)
  <2> HIDE DEF number, row
  <2>1. r \in Request
        BY <1>1, <1>2, <1>6 DEF Request
  <2>2. /\ r.pc = "reposting" /\ r.id = req[p].id /\ r.data = req[p].data
        /\ r.found = req[p].found /\ r.entryNumber = number
        BY <1>1, <1>2 DEF Request
  <2>3. RequestOK(r)
        BY <2>2, <1>3, <1>6 DEF RequestOK, CreateOK, UpdateOK, LinkOK, ManualOK, row
  <2> QED BY <2>1, <2>3
<1>8. req' = [req EXCEPT ![p] = r]
      BY <1>1, <1>2 DEF UpdateEntryNumber, IInv, TypeOK
<1> QED BY <1>7, <1>8, RequestStep DEF UpdateEntryNumber

LEMMA LinkReadStep ==
    ASSUME IInv, NEW p \in Procs, NEW inv \in InvoiceIds, NEW dto \in CreateDtos,
           LinkRead(p, inv, dto)
    PROVE  IInv'
<1>1. PICK r : r = [Idle EXCEPT !.pc = "linking", !.id = inv,
                                !.data = [dto EXCEPT !.account = OperationRevenue]]
      OBVIOUS
<1>2. [dto EXCEPT !.account = OperationRevenue] \in CreateDto
      BY DEF CreateDto
<1>3. [dto EXCEPT !.account = OperationRevenue] \in UpdateDto
      BY <1>2 DEF CreateDto, UpdateDto
<1>4. r \in Request /\ RequestOK(r)
      BY <1>1, <1>2, <1>3
      DEF Idle, Request, RequestOK, CreateOK, UpdateOK, LinkOK, ManualOK
<1> QED BY <1>1, <1>4, RequestStep DEF LinkRead

LEMMA LinkNumberStep ==
    ASSUME IInv, NEW p \in Procs, LinkNumber(p)
    PROVE  IInv'
<1>1. PICK r : r = [req[p] EXCEPT !.pc = "inserting",
                                  !.number = NextNumber(Rows, req[p].data.year)]
      OBVIOUS
<1>2. req[p] \in Request /\ req[p].pc = "linking" /\ RequestOK(req[p])
      BY DEF IInv, TypeOK, LinkNumber, At
<1>3. req[p].data \in CreateDto /\ req[p].id \in InvoiceIds
      BY <1>2 DEF RequestOK, LinkOK
<1>4. NextNumber(Rows, req[p].data.year) \in Numbers
      BY <1>3, RowsFinite, NextNumberType DEF IInv, CreateDto
<1>5. r \in Request /\ RequestOK(r)
      BY <1>1, <1>2, <1>3, <1>4
      DEF Request, RequestOK, CreateOK, UpdateOK, LinkOK, ManualOK
<1>6. req' = [req EXCEPT ![p] = r]
      BY <1>1, <1>2 DEF LinkNumber, IInv, TypeOK
<1> QED BY <1>5, <1>6, RequestStep DEF LinkNumber

LEMMA ManualNumberStep ==
    ASSUME IInv, NEW p \in Procs, NEW lines \in ManualLines, NEW y \in Years,
           ManualNumber(p, lines, y)
    PROVE  IInv'
<1>1. PICK r : r = [Idle EXCEPT !.pc = "manual", !.lines = lines,
                                !.entryNumber = NextNumber(journal, y)]
      OBVIOUS
<1>2. NextNumber(journal, y) \in Numbers
      BY NextNumberType DEF IInv, TypeOK
<1>3. r \in Request /\ RequestOK(r)
      BY <1>1, <1>2
      DEF Idle, Request, RequestOK, CreateOK, UpdateOK, LinkOK, ManualOK
<1> QED BY <1>1, <1>3, RequestStep DEF ManualNumber

LEMMA AbortStep ==
    ASSUME IInv, NEW p \in Procs, Abort(p)
    PROVE  IInv'
<1>1. PICK r : r = Idle
      OBVIOUS
<1> QED BY <1>1, IdleOK, RequestStep DEF Abort, Done

----------------------------------------------------------------------------
(* Commits *)

\* postJournal adds one entry, with a key no request has ever seen.
LEMMA PostIncomeEffect ==
    ASSUME IInv, NEW p \in Procs, NEW id \in RecordIds, NEW eid, NEW row \in Row,
           NEW seen \in SUBSET journal, NEW b,
           req[p].entryNumber \in Numbers, PostIncome(p, id, eid, row, seen, b)
    PROVE  /\ \E e \in Entry :
                /\ e.id \notin used
                /\ e.ref = Ref(id)
                /\ e.lines = IncomeLines(row)
                /\ e.number = req[p].entryNumber
                /\ journal' = seen \cup {e}
                /\ used' = used \cup {e.id}
           /\ journal' \subseteq Entry
           /\ IsFiniteSet(journal')
           /\ \A e \in journal' : e.id \in used'
           /\ DOMAIN balance' = Accounts
           /\ used' \subseteq EntryIds
<1>1. PICK e : e = NewEntry(eid, req[p].entryNumber, Ref(id), IncomeLines(row))
      OBVIOUS
<1>2. eid \in EntryIds \ used /\ journal' = seen \cup {e} /\ used' = used \cup {eid}
      BY <1>1 DEF PostIncome
<1>3. IncomeLines(row) \in Seq(LineType) /\ Ref(id) \in {"INCOME", "MANUAL_ENTRY"} \X (RecordIds \cup {None})
      BY IncomeLinesType DEF Ref
<1>4. /\ e \in Entry /\ e.id = eid /\ e.ref = Ref(id)
      /\ e.lines = IncomeLines(row) /\ e.number = req[p].entryNumber
      BY <1>1, <1>2, <1>3 DEF NewEntry, Entry
<1>5. IsFiniteSet(journal')
      BY <1>2, FS_Subset, FS_AddElement DEF IInv, TypeOK
<1>6. DOMAIN balance' = Accounts
      BY DEF PostIncome, Posted
<1>7. \A x \in journal' : x.id \in used'
      BY <1>2, <1>4 DEF IInv
<1>8. journal' \subseteq Entry /\ used' \subseteq EntryIds
      BY <1>2, <1>4 DEF IInv, TypeOK
<1> QED BY <1>2, <1>4, <1>5, <1>6, <1>7, <1>8

\* Ending its request keeps req well typed and leaves the others alone.
LEMMA DoneEffect ==
    ASSUME IInv, NEW p \in Procs, Done(p)
    PROVE  /\ req' \in [Procs -> Request]
           /\ \A q \in Procs : req'[q] = Idle \/ (q # p /\ req'[q] = req[q])
<1>1. Idle \in Request /\ req \in [Procs -> Request]
      BY IdleOK DEF IInv, TypeOK
<1> HIDE DEF Idle
<1> QED BY <1>1 DEF Done

\* A request keeps knowing what it knows while its record stays hand-entered,
\* the entry it found is only ever removed, and a record is edited only by
\* removing that entry.
LEMMA RequestKept ==
    ASSUME IInv, NEW r \in Request, RequestOK(r), used \subseteq used',
           income' \in [RecordIds -> Row \cup {None}],
           Manual(r.id) => Manual(r.id)',
           r.pc = "reposting" /\ r.found \subseteq journal' =>
                 r.found \subseteq journal /\ income'[r.id].year = income[r.id].year
    PROVE  RequestOK(r)'
<1>1. CreateOK(r)' /\ LinkOK(r)' /\ ManualOK(r)'
      BY DEF RequestOK, CreateOK, LinkOK, ManualOK
<1>2. ASSUME r.pc = "reposting", r.found \subseteq journal'
      PROVE  r.entryNumber.year = Merge(income'[r.id], r.data).year
  <2>1. Manual(r.id) /\ Manual(r.id)' /\ r.data \in UpdateDto
        BY <1>2 DEF RequestOK, UpdateOK
  <2>2. income[r.id] \in Row /\ income'[r.id] \in Row
        BY <2>1 DEF Manual, Exists, IInv, TypeOK
  <2>3. Merge(income'[r.id], r.data).year = Merge(income[r.id], r.data).year
        BY <1>2, <2>1, <2>2, MergeType
  <2> QED BY <1>2, <2>3 DEF RequestOK, UpdateOK
<1>3. UpdateOK(r)'
      BY <1>2 DEF RequestOK, UpdateOK
<1> QED BY <1>1, <1>3 DEF RequestOK

LEMMA CreateCommitStep ==
    ASSUME IInv, NEW p \in Procs, NEW id \in RecordIds, NEW eid \in EntryIds,
           CreateCommit(p, id, eid)
    PROVE  IInv'
<1>1. PICK row : row = NewRow(req[p])
      OBVIOUS
<1>2. /\ row \in Row /\ row.source = "MANUAL" /\ row.year = req[p].data.year
      /\ req[p].entryNumber \in Numbers /\ req[p].entryNumber.year = row.year
  <2>1. req[p] \in Request /\ CreateOK(req[p]) /\ req[p].pc = "posting"
        BY DEF IInv, TypeOK, RequestOK, CreateCommit, At
  <2> QED BY <1>1, <2>1, NewRowType DEF CreateOK
<1>3. PICK seen : seen = journal
      OBVIOUS
<1>4. PICK b : b = balance
      OBVIOUS
<1>5. /\ PostIncome(p, id, eid, row, seen, b)
      /\ income' = [income EXCEPT ![id] = row]
      /\ ~Exists(id) /\ Done(p)
      BY <1>1, <1>3, <1>4 DEF CreateCommit
<1>6. seen \in SUBSET journal
      BY <1>3
<1>7. PICK e \in Entry : /\ e.id \notin used
                         /\ e.ref = Ref(id) /\ e.lines = IncomeLines(row)
                         /\ e.number = req[p].entryNumber
                         /\ journal' = seen \cup {e}
                         /\ used' = used \cup {e.id}
      BY <1>2, <1>5, <1>6, PostIncomeEffect
<1>8. /\ journal' \subseteq Entry /\ IsFiniteSet(journal') /\ DOMAIN balance' = Accounts
      /\ used' \subseteq EntryIds /\ \A x \in journal' : x.id \in used'
      BY <1>2, <1>5, <1>6, PostIncomeEffect
<1>9. income' \in [RecordIds -> Row \cup {None}]
      BY <1>2, <1>5 DEF IInv, TypeOK
<1>10. TypeOK'
      BY <1>5, <1>8, <1>9, DoneEffect DEF TypeOK
<1>11. ASSUME NEW q \in Procs PROVE RequestOK(req[q])'
  <2>1. CASE req'[q] = Idle
        BY <2>1 DEF Idle, RequestOK, CreateOK, UpdateOK, LinkOK, ManualOK
  <2>2. CASE req'[q] = req[q]
    <3>1. PICK r : r = req[q]
          OBVIOUS
    <3>2. r \in Request /\ RequestOK(r)
          BY <3>1 DEF IInv, TypeOK
    <3>3. Manual(r.id) => r.id # id /\ Manual(r.id)' /\ income'[r.id] = income[r.id]
          BY <1>5 DEF Manual, Exists, IInv, TypeOK
    <3>4. r.pc = "reposting" /\ r.found \subseteq journal' =>
             r.found \subseteq journal /\ income'[r.id].year = income[r.id].year
          BY <1>3, <1>7, <3>2, <3>3 DEF RequestOK, UpdateOK
    <3>5. RequestOK(r)'
          BY <1>3, <1>7, <1>9, <3>2, <3>3, <3>4, RequestKept
    <3> QED BY <2>2, <3>1, <3>5
  <2> QED BY <2>1, <2>2, <1>5, DoneEffect
<1>12. OneEntryPerIncome'
  <2> SUFFICES ASSUME NEW i \in RecordIds
               PROVE  IF Exists(i)' /\ income'[i].source = "MANUAL"
                      THEN \E x \in journal' :
                              /\ EntriesOf(journal', Ref(i)) = {x}
                              /\ x.lines = IncomeLines(income'[i])
                              /\ x.number.year = income'[i].year
                      ELSE EntriesOf(journal', Ref(i)) = {}
      BY DEF OneEntryPerIncome
  <2>1. CASE i = id
    <3>1. EntriesOf(journal, Ref(id)) = {}
          BY <1>5 DEF IInv, OneEntryPerIncome
    <3>2. EntriesOf(journal', Ref(id)) = {e}
          BY <1>3, <1>7, <3>1 DEF EntriesOf
    <3>3. income'[id] = row /\ Exists(id)'
          BY <1>2, <1>5 DEF IInv, TypeOK, Exists
    <3> QED BY <2>1, <3>2, <3>3, <1>2, <1>3, <1>7
  <2>2. CASE i # id
    <3>1. EntriesOf(journal', Ref(i)) = EntriesOf(journal, Ref(i))
          BY <1>3, <1>7, <2>2 DEF EntriesOf, Ref
    <3>2. income'[i] = income[i] /\ (Exists(i)' <=> Exists(i))
          BY <1>5, <2>2 DEF IInv, TypeOK, Exists
    <3> QED BY <3>1, <3>2, <1>3, <1>7 DEF IInv, OneEntryPerIncome
  <2> QED BY <2>1, <2>2
<1> QED BY <1>8, <1>10, <1>11, <1>12 DEF IInv

\* Of two updates that found the same entry the second cannot delete it again,
\* so it cannot commit; this step shows the first leaves one entry.
LEMMA UpdateCommitStep ==
    ASSUME IInv, NEW p \in Procs, NEW eid \in EntryIds, UpdateCommit(p, eid)
    PROVE  IInv'
<1>1. PICK id : id = req[p].id
      OBVIOUS
<1>2. PICK row : row = [Merge(income[id], req[p].data) EXCEPT !.approval = "PENDING"]
      OBVIOUS
<1>3. PICK old : old = req[p].found
      OBVIOUS
<1>4. req[p] \in Request /\ UpdateOK(req[p]) /\ req[p].pc = "reposting" /\ old \subseteq journal
      BY <1>3 DEF IInv, TypeOK, RequestOK, UpdateCommit, At, Deletable
<1>5. /\ Manual(id) /\ id \in RecordIds /\ income[id] \in Row
      /\ req[p].data \in UpdateDto /\ req[p].entryNumber \in Numbers
      /\ req[p].entryNumber.year = Merge(income[id], req[p].data).year
      BY <1>1, <1>3, <1>4 DEF UpdateOK, Manual, Exists, IInv, TypeOK
<1>6. /\ row \in Row /\ row.source = "MANUAL"
      /\ req[p].entryNumber.year = row.year
  <2>1. PICK m : m = Merge(income[id], req[p].data)
        OBVIOUS
  <2>2. m \in Row /\ m.source = "MANUAL"
        BY <2>1, <1>5, MergeType DEF Manual
  <2> QED BY <2>1, <2>2, <1>2, <1>5 DEF Row
<1>7. PICK o \in old : old = {o} /\ o.id \in used /\ o.ref = Ref(id)
      BY <1>1, <1>3, <1>4 DEF UpdateOK
<1>8. EntriesOf(journal, Ref(id)) = {o}
  <2>1. \E x \in journal : EntriesOf(journal, Ref(id)) = {x}
        BY <1>5 DEF IInv, OneEntryPerIncome, Manual
  <2>2. o \in EntriesOf(journal, Ref(id))
        BY <1>4, <1>7 DEF EntriesOf
  <2> QED BY <2>1, <2>2
<1>9. PICK seen : seen = journal \ old
      OBVIOUS
<1>10. PICK b : b = Reversed(balance, old)
      OBVIOUS
<1>11. /\ PostIncome(p, id, eid, row, seen, b)
       /\ income' = [income EXCEPT ![id] = row]
       /\ Done(p)
      BY <1>1, <1>2, <1>3, <1>9, <1>10 DEF UpdateCommit, Rewritten
<1>12. seen \in SUBSET journal
      BY <1>9
<1>13. PICK e \in Entry : /\ e.id \notin used
                          /\ e.ref = Ref(id) /\ e.lines = IncomeLines(row)
                          /\ e.number = req[p].entryNumber
                          /\ journal' = seen \cup {e}
                          /\ used' = used \cup {e.id}
      BY <1>5, <1>6, <1>11, <1>12, PostIncomeEffect
<1>14. /\ journal' \subseteq Entry /\ IsFiniteSet(journal') /\ DOMAIN balance' = Accounts
       /\ used' \subseteq EntryIds /\ \A x \in journal' : x.id \in used'
      BY <1>5, <1>6, <1>11, <1>12, PostIncomeEffect
<1>15. income' \in [RecordIds -> Row \cup {None}]
      BY <1>6, <1>11 DEF IInv, TypeOK
<1>16. TypeOK'
      BY <1>11, <1>14, <1>15, DoneEffect DEF TypeOK
<1>17. ASSUME NEW q \in Procs PROVE RequestOK(req[q])'
  <2>1. CASE req'[q] = Idle
        BY <2>1 DEF Idle, RequestOK, CreateOK, UpdateOK, LinkOK, ManualOK
  <2>2. CASE req'[q] = req[q]
    <3>1. PICK r : r = req[q]
          OBVIOUS
    <3>2. r \in Request /\ RequestOK(r)
          BY <3>1 DEF IInv, TypeOK
    <3>3. Manual(r.id) => Manual(r.id)'
          BY <1>6, <1>11, <1>5 DEF Manual, Exists, IInv, TypeOK
    <3>4. ASSUME r.pc = "reposting", r.found \subseteq journal'
          PROVE  r.found \subseteq journal /\ r.id # id
      <4>1. PICK x \in r.found : r.found = {x} /\ x.id \in used /\ x.ref = Ref(r.id)
            BY <3>2, <3>4 DEF RequestOK, UpdateOK
      <4>2. x \in journal /\ x \notin old
            BY <4>1, <3>4, <1>9, <1>13
      <4>3. x.ref # Ref(id)
            BY <4>2, <1>7, <1>8 DEF EntriesOf
      <4> QED BY <4>1, <4>2, <4>3
    <3>5. r.pc = "reposting" /\ r.found \subseteq journal' =>
             r.found \subseteq journal /\ income'[r.id].year = income[r.id].year
      <4>1. r.pc = "reposting" => r.id \in RecordIds
            BY <3>2 DEF RequestOK, UpdateOK, Manual
      <4> QED BY <4>1, <3>4, <1>11 DEF IInv, TypeOK
    <3>6. RequestOK(r)'
          BY <1>13, <1>15, <3>2, <3>3, <3>5, RequestKept
    <3> QED BY <2>2, <3>1, <3>6
  <2> QED BY <2>1, <2>2, <1>11, DoneEffect
<1>18. OneEntryPerIncome'
  <2> SUFFICES ASSUME NEW i \in RecordIds
               PROVE  IF Exists(i)' /\ income'[i].source = "MANUAL"
                      THEN \E x \in journal' :
                              /\ EntriesOf(journal', Ref(i)) = {x}
                              /\ x.lines = IncomeLines(income'[i])
                              /\ x.number.year = income'[i].year
                      ELSE EntriesOf(journal', Ref(i)) = {}
      BY DEF OneEntryPerIncome
  <2>1. CASE i = id
    <3>1. EntriesOf(journal', Ref(id)) = {e}
          BY <1>7, <1>8, <1>9, <1>13 DEF EntriesOf
    <3>2. income'[id] = row /\ Exists(id)'
          BY <1>5, <1>6, <1>11 DEF IInv, TypeOK, Exists
    <3> QED BY <2>1, <3>1, <3>2, <1>6, <1>13
  <2>2. CASE i # id
    <3>1. EntriesOf(journal', Ref(i)) = EntriesOf(journal, Ref(i))
          BY <1>7, <1>9, <1>13, <2>2 DEF EntriesOf, Ref
    <3>2. income'[i] = income[i] /\ (Exists(i)' <=> Exists(i))
          BY <1>11, <2>2 DEF IInv, TypeOK, Exists
    <3>3. ASSUME NEW x \in journal, EntriesOf(journal, Ref(i)) = {x} PROVE x \in journal'
          BY <3>1, <3>3 DEF EntriesOf
    <3> QED BY <3>1, <3>2, <3>3 DEF IInv, OneEntryPerIncome
  <2> QED BY <2>1, <2>2
<1> QED BY <1>14, <1>16, <1>17, <1>18 DEF IInv

LEMMA LinkCommitStep ==
    ASSUME IInv, NEW p \in Procs, NEW id \in RecordIds, LinkCommit(p, id)
    PROVE  IInv'
<1>1. PICK row : row = [NewRow(req[p]) EXCEPT !.source = "INVOICE", !.invoice = req[p].id]
      OBVIOUS
<1>2. row \in Row /\ row.source = "INVOICE"
  <2>1. /\ req[p] \in Request /\ req[p].data \in CreateDto
        /\ req[p].number \in Numbers /\ req[p].id \in InvoiceIds
        BY DEF IInv, TypeOK, RequestOK, LinkOK, LinkCommit, At
  <2>2. NewRow(req[p]) \in Row
        BY <2>1, NewRowType
  <2> QED BY <1>1, <2>1, <2>2 DEF Row
<1>3. /\ income' = [income EXCEPT ![id] = row]
      /\ ~Exists(id) /\ Done(p)
      /\ UNCHANGED <<journal, balance, used>>
      BY <1>1 DEF LinkCommit
<1>4. income' \in [RecordIds -> Row \cup {None}]
      BY <1>2, <1>3 DEF IInv, TypeOK
<1>5. TypeOK'
      BY <1>3, <1>4, DoneEffect DEF TypeOK, IInv
<1>6. ASSUME NEW q \in Procs PROVE RequestOK(req[q])'
  <2>1. CASE req'[q] = Idle
        BY <2>1 DEF Idle, RequestOK, CreateOK, UpdateOK, LinkOK, ManualOK
  <2>2. CASE req'[q] = req[q]
    <3>1. PICK r : r = req[q]
          OBVIOUS
    <3>2. r \in Request /\ RequestOK(r)
          BY <3>1 DEF IInv, TypeOK
    <3>3. Manual(r.id) => Manual(r.id)' /\ income'[r.id] = income[r.id]
          BY <1>3 DEF Manual, Exists, IInv, TypeOK
    <3>4. RequestOK(r)'
      <4>1. r.pc = "reposting" => Manual(r.id)
            BY <3>2 DEF RequestOK, UpdateOK
      <4> QED BY <4>1, <1>3, <1>4, <3>2, <3>3, RequestKept
    <3> QED BY <2>2, <3>1, <3>4
  <2> QED BY <2>1, <2>2, <1>3, DoneEffect
<1>7. OneEntryPerIncome'
  <2>1. \A i \in RecordIds :
           /\ i # id => income'[i] = income[i]
           /\ i = id => income'[i].source = "INVOICE"
        BY <1>2, <1>3 DEF IInv, TypeOK
  <2>2. EntriesOf(journal, Ref(id)) = {}
        BY <1>3 DEF IInv, OneEntryPerIncome
  <2> QED BY <1>3, <2>1, <2>2 DEF IInv, OneEntryPerIncome, Exists
<1> QED BY <1>3, <1>5, <1>6, <1>7 DEF IInv

LEMMA ReviewStep ==
    ASSUME IInv, NEW id \in RecordIds, NEW v \in {"APPROVED", "REJECTED"}, Review(id, v)
    PROVE  IInv'
<1>1. income[id] \in Row
      BY DEF Review, Exists, IInv, TypeOK
<1>2. PICK row : row = [income[id] EXCEPT !.approval = v]
      OBVIOUS
<1>3. /\ row \in Row /\ row.source = income[id].source /\ row.year = income[id].year
      /\ row.amount = income[id].amount /\ row.account = income[id].account
      BY <1>1, <1>2 DEF Row
<1>4. /\ income' = [income EXCEPT ![id] = row]
      /\ UNCHANGED <<journal, balance, used, req>>
      BY <1>1, <1>2 DEF Review, IInv, TypeOK
<1>5. income' \in [RecordIds -> Row \cup {None}]
      BY <1>3, <1>4 DEF IInv, TypeOK
<1>6. TypeOK'
      BY <1>4, <1>5 DEF IInv, TypeOK
<1>7. ASSUME NEW i \in RecordIds
      PROVE  /\ Exists(i)' <=> Exists(i)
             /\ Exists(i) => /\ income'[i].source = income[i].source
                             /\ income'[i].year = income[i].year
                             /\ income'[i].amount = income[i].amount
                             /\ income'[i].account = income[i].account
      BY <1>1, <1>3, <1>4 DEF Exists, IInv, TypeOK
<1>8. ASSUME NEW q \in Procs PROVE RequestOK(req[q])'
  <2>1. PICK r : r = req[q]
        OBVIOUS
  <2>2. r \in Request /\ RequestOK(r)
        BY <2>1 DEF IInv, TypeOK
  <2>3. Manual(r.id) => Manual(r.id)' /\ income'[r.id].year = income[r.id].year
        BY <1>7 DEF Manual
  <2>4. r.pc = "reposting" => Manual(r.id)
        BY <2>2 DEF RequestOK, UpdateOK
  <2>5. RequestOK(r)'
        BY <1>4, <1>5, <2>2, <2>3, <2>4, RequestKept
  <2> QED BY <1>4, <2>1, <2>5
<1>9. OneEntryPerIncome'
  <2>1. \A i \in RecordIds : Exists(i) => IncomeLines(income'[i]) = IncomeLines(income[i])
        BY <1>7 DEF IncomeLines
  <2> QED BY <1>4, <1>7, <2>1 DEF IInv, OneEntryPerIncome
<1> QED BY <1>4, <1>6, <1>8, <1>9 DEF IInv

LEMMA ManualCommitStep ==
    ASSUME IInv, NEW p \in Procs, NEW eid \in EntryIds, ManualCommit(p, eid)
    PROVE  IInv'
<1>1. PICK e : e = NewEntry(eid, req[p].entryNumber, <<"MANUAL_ENTRY", None>>, req[p].lines)
      OBVIOUS
<1>2. /\ eid \in EntryIds \ used /\ journal' = journal \cup {e}
      /\ used' = used \cup {eid} /\ UNCHANGED income /\ Done(p)
      /\ DOMAIN balance' = Accounts
      BY <1>1 DEF ManualCommit, Posted
<1>3. /\ e \in Entry /\ e.id = eid /\ e.ref = <<"MANUAL_ENTRY", None>>
  <2>1. req[p].lines \in Seq(LineType) /\ req[p].entryNumber \in Numbers
        BY DEF IInv, RequestOK, ManualOK, ManualCommit, At
  <2> QED BY <1>1, <1>2, <2>1 DEF NewEntry, Entry
<1>4. TypeOK'
      BY <1>2, <1>3, DoneEffect, FS_AddElement DEF IInv, TypeOK
<1>5. ASSUME NEW q \in Procs PROVE RequestOK(req[q])'
  <2>1. CASE req'[q] = Idle
        BY <2>1 DEF Idle, RequestOK, CreateOK, UpdateOK, LinkOK, ManualOK
  <2>2. CASE req'[q] = req[q]
    <3>1. PICK r : r = req[q]
          OBVIOUS
    <3>2. r \in Request /\ RequestOK(r)
          BY <3>1 DEF IInv, TypeOK
    <3>3. r.pc = "reposting" /\ r.found \subseteq journal' => r.found \subseteq journal
          BY <1>2, <1>3, <3>2 DEF RequestOK, UpdateOK
    <3>4. Manual(r.id) => Manual(r.id)'
          BY <1>2 DEF Manual, Exists
    <3>5. RequestOK(r)'
          BY <1>2, <1>4, <3>2, <3>3, <3>4, RequestKept DEF TypeOK
    <3> QED BY <2>2, <3>1, <3>5
  <2> QED BY <2>1, <2>2, <1>2, DoneEffect
<1>6. OneEntryPerIncome'
  <2>1. \A i \in RecordIds : EntriesOf(journal', Ref(i)) = EntriesOf(journal, Ref(i))
        BY <1>2, <1>3 DEF EntriesOf, Ref
  <2> QED BY <1>2, <2>1 DEF IInv, OneEntryPerIncome, Exists
<1> QED BY <1>2, <1>3, <1>4, <1>5, <1>6 DEF IInv

----------------------------------------------------------------------------
(* The theorems *)

LEMMA InitIInv == Init => IInv
<1> SUFFICES ASSUME Init PROVE IInv
    OBVIOUS
<1>1. TypeOK
      BY IdleOK, FS_EmptySet DEF Init, TypeOK
<1>2. \A p \in Procs : RequestOK(req[p])
      BY DEF Init, Idle, RequestOK, CreateOK, UpdateOK, LinkOK, ManualOK
<1>3. OneEntryPerIncome
      BY DEF Init, OneEntryPerIncome, Exists, EntriesOf
<1> QED BY <1>1, <1>2, <1>3 DEF IInv, Init

LEMMA NextIInv == IInv /\ [Next]_vars => IInv'
<1> SUFFICES ASSUME IInv, [Next]_vars PROVE IInv'
    OBVIOUS
<1>1. ASSUME NEW p \in Procs, Step(p) PROVE IInv'
      BY <1>1, CreateNumberStep, CreateEntryNumberStep, CreateCommitStep,
         UpdateReadStep, UpdateFindStep, UpdateEntryNumberStep, UpdateCommitStep,
         LinkReadStep, LinkNumberStep, LinkCommitStep,
         ManualNumberStep, ManualCommitStep, AbortStep DEF Step
<1>2. ASSUME NEW id \in RecordIds, Approve(id) \/ Reject(id) PROVE IInv'
      BY <1>2, ReviewStep DEF Approve, Reject
<1>3. ASSUME UNCHANGED vars PROVE IInv'
      BY <1>3 DEF vars, IInv, TypeOK, OneEntryPerIncome, RequestOK, CreateOK, UpdateOK,
                  LinkOK, ManualOK, Manual, Exists, Merge, EntriesOf
<1> QED BY <1>1, <1>2, <1>3 DEF Next

\* The strengthened invariant holds in every reachable state.
THEOREM Invariance == Spec => []IInv
BY InitIInv, NextIInv, PTL DEF Spec

\* Every table row, entry and request has its type in every reachable state.
THEOREM TypeCorrect == Spec => []TypeOK
<1>1. IInv => TypeOK
      BY DEF IInv
<1> QED BY <1>1, Invariance, PTL

\* However many create, update, approve, reject and invoice-payment requests
\* interleave, a hand-entered record always has exactly one journal entry, with
\* its year, account and amount, and an invoice's row has none.
THEOREM IncomePostedOnce == Spec => []OneEntryPerIncome
<1>1. IInv => OneEntryPerIncome
      BY DEF IInv
<1> QED BY <1>1, Invariance, PTL

----------------------------------------------------------------------------
(* Balances: every entry that is posted or reversed moves them by its lines *)

LEMMA LinesHaveAmounts == ASSUME NEW lines \in Seq(LineType) PROVE HasAmounts(lines)
<1>1. \A l \in LineType : l.amount \in Int
      BY DEF LineType
<1> QED BY <1>1, SequenceHasAmounts

\* A posting, with the entries that are reversed before it.
LEMMA PostingMirrors ==
    ASSUME IInv, BalancesMirrorJournal, NEW gone \in SUBSET journal,
           NEW eid \in EntryIds \ used, NEW number, NEW ref, NEW lines \in Seq(LineType),
           journal' = (journal \ gone) \cup {NewEntry(eid, number, ref, lines)},
           \/ balance' = Posted(Reversed(balance, gone), lines)
           \/ gone = {} /\ balance' = Posted(balance, lines)
    PROVE  BalancesMirrorJournal'
<1>1. PICK old, new, entries, e, accounts :
         /\ old = balance /\ new = balance' /\ entries = journal
         /\ e = NewEntry(eid, number, ref, lines) /\ accounts = Accounts
      OBVIOUS
<1>2. IsFiniteSet(entries) /\ \A x \in entries : HasAmounts(x.lines)
      BY <1>1, LinesHaveAmounts DEF IInv, TypeOK, Entry
<1>3. e \notin entries /\ e.lines = lines /\ HasAmounts(e.lines)
      BY <1>1, LinesHaveAmounts DEF IInv, NewEntry
<1>4. \A a \in accounts : old[a] = TotalDelta(TypeOf, entries, a)
      BY <1>1 DEF BalancesMirrorJournal, EntriesDelta
<1>5. \A a \in accounts : old[a] \in Int
      BY <1>2, <1>4, TotalDeltaInt
<1>6. ASSUME NEW a \in accounts
      PROVE  new[a] = old[a] - TotalDelta(TypeOf, gone, a) + Delta(TypeOf, e.lines, a)
  <2>1. CASE balance' = Posted(Reversed(balance, gone), lines)
        BY <1>1, <1>3, <2>1 DEF Posted, Reversed, LinesDelta, EntriesDelta
  <2>2. CASE gone = {} /\ balance' = Posted(balance, lines)
    <3>1. new[a] = old[a] + Delta(TypeOf, e.lines, a)
          BY <1>1, <1>3, <2>2 DEF Posted, LinesDelta
    <3>2. TotalDelta(TypeOf, gone, a) = 0
          BY <2>2, TotalDeltaEmpty
    <3> QED BY <1>5, <3>1, <3>2
  <2> QED BY <2>1, <2>2
<1>7. \A a \in accounts : new[a] = TotalDelta(TypeOf, (entries \ gone) \cup {e}, a)
  <2>1. Reposting(TypeOf, accounts, entries, gone, e, old, new)
        BY <1>1, <1>2, <1>3, <1>4, <1>6 DEF Reposting
  <2> QED BY <2>1, MirrorReposted
<1> QED BY <1>1, <1>7 DEF BalancesMirrorJournal, EntriesDelta

LEMMA PostIncomeMirrors ==
    ASSUME IInv, BalancesMirrorJournal, NEW p \in Procs, NEW id, NEW eid, NEW row \in Row,
           NEW gone \in SUBSET journal, NEW before,
           before = Reversed(balance, gone) \/ (gone = {} /\ before = balance),
           PostIncome(p, id, eid, row, journal \ gone, before)
    PROVE  BalancesMirrorJournal'
<1>1. IncomeLines(row) \in Seq(LineType)
      BY IncomeLinesType
<1>2. /\ eid \in EntryIds \ used
      /\ journal' = (journal \ gone) \cup
             {NewEntry(eid, req[p].entryNumber, Ref(id), IncomeLines(row))}
      /\ balance' = Posted(before, IncomeLines(row))
      BY DEF PostIncome
<1> QED BY <1>1, <1>2, PostingMirrors

LEMMA StepMirrors ==
    ASSUME IInv, BalancesMirrorJournal, NEW p \in Procs, Step(p)
    PROVE  BalancesMirrorJournal'
<1>1. ASSUME UNCHANGED <<journal, balance>> PROVE BalancesMirrorJournal'
      BY <1>1 DEF BalancesMirrorJournal, EntriesDelta
<1>2. ASSUME NEW id \in RecordIds, NEW eid \in EntryIds, CreateCommit(p, id, eid)
      PROVE  BalancesMirrorJournal'
  <2>1. req[p] \in Request /\ req[p].data \in CreateDto /\ req[p].number \in Numbers
        BY <1>2 DEF IInv, TypeOK, RequestOK, CreateOK, CreateCommit, At
  <2>2. NewRow(req[p]) \in Row
        BY <2>1, NewRowType
  <2>3. journal \ {} = journal
        OBVIOUS
  <2>4. PostIncome(p, id, eid, NewRow(req[p]), journal \ {}, balance)
        BY <1>2, <2>3 DEF CreateCommit
  <2> QED BY <2>2, <2>4, PostIncomeMirrors
<1>3. ASSUME NEW eid \in EntryIds, UpdateCommit(p, eid)
      PROVE  BalancesMirrorJournal'
  <2>1. req[p].found \in SUBSET journal
        BY <1>3 DEF UpdateCommit, Deletable
  <2>2. income[req[p].id] \in Row /\ req[p].data \in UpdateDto
        BY <1>3 DEF IInv, TypeOK, RequestOK, UpdateOK, UpdateCommit, At, Manual, Exists
  <2>3. Rewritten(income[req[p].id], req[p].data) \in Row
        BY <2>2, MergeType DEF Rewritten, Row
  <2>4. PostIncome(p, req[p].id, eid, Rewritten(income[req[p].id], req[p].data),
                   journal \ req[p].found, Reversed(balance, req[p].found))
        BY <1>3 DEF UpdateCommit
  <2> QED BY <2>1, <2>3, <2>4, PostIncomeMirrors
<1>4. ASSUME NEW eid \in EntryIds, ManualCommit(p, eid) PROVE BalancesMirrorJournal'
  <2>1. req[p].lines \in Seq(LineType)
        BY <1>4 DEF IInv, RequestOK, ManualOK, ManualCommit, At
  <2>2. /\ eid \in EntryIds \ used
        /\ journal' = (journal \ {}) \cup
             {NewEntry(eid, req[p].entryNumber, <<"MANUAL_ENTRY", None>>, req[p].lines)}
        /\ balance' = Posted(balance, req[p].lines)
        BY <1>4 DEF ManualCommit
  <2> QED BY <2>1, <2>2, PostingMirrors
<1> QED BY <1>1, <1>2, <1>3, <1>4 DEF Step, CreateNumber, CreateEntryNumber, UpdateRead, UpdateFind,
        UpdateEntryNumber, LinkRead, LinkNumber, LinkCommit, ManualNumber, Abort

\* Reversals and postings of concurrent requests, each an increment by what it
\* read, leave every stored balance at what the live entries add up to.
THEOREM BalancesAlwaysMirror == Spec => []BalancesMirrorJournal
<1>1. Init => BalancesMirrorJournal
      BY TotalDeltaEmpty DEF Init, BalancesMirrorJournal, EntriesDelta
<1>2. IInv /\ BalancesMirrorJournal /\ [Next]_vars => BalancesMirrorJournal'
  <2> SUFFICES ASSUME IInv, BalancesMirrorJournal, [Next]_vars PROVE BalancesMirrorJournal'
      OBVIOUS
  <2>1. ASSUME UNCHANGED <<journal, balance>> PROVE BalancesMirrorJournal'
        BY <2>1 DEF BalancesMirrorJournal, EntriesDelta
  <2> QED BY <2>1, StepMirrors DEF Next, Approve, Reject, Review, vars
<1> QED BY <1>1, <1>2, Invariance, PTL DEF Spec

----------------------------------------------------------------------------
(* Refinement: the interleaved requests implement the atomic register *)

\* The register as Income maps it, and its postings read off the records alone.
Book     == [id \in RecordIds |-> IF Exists(id) THEN Shown(income[id]) ELSE None]
Postings == [id \in RecordIds |-> {PostedFacts(e) : e \in EntriesOf(journal, Ref(id))}]
FactsOf(row) == [year |-> row.year, amount |-> row.amount, account |-> row.account]
Expected == [id \in RecordIds |->
                IF Exists(id) /\ income[id].source = "MANUAL" THEN {FactsOf(income[id])} ELSE {}]

LEMMA PostingsExpected == IInv => Postings = Expected
<1> SUFFICES ASSUME IInv, NEW id \in RecordIds
             PROVE  {PostedFacts(e) : e \in EntriesOf(journal, Ref(id))}
                      = IF Exists(id) /\ income[id].source = "MANUAL"
                        THEN {FactsOf(income[id])} ELSE {}
    BY DEF Postings, Expected
<1>1. CASE Exists(id) /\ income[id].source = "MANUAL"
  <2>1. PICK e \in journal : /\ EntriesOf(journal, Ref(id)) = {e}
                             /\ e.lines = IncomeLines(income[id])
                             /\ e.number.year = income[id].year
        BY <1>1 DEF IInv, OneEntryPerIncome
  <2>2. e.lines[2] = Credit(income[id].account, income[id].amount)
        BY <2>1 DEF IncomeLines
  <2>3. PostedFacts(e) = FactsOf(income[id])
        BY <2>1, <2>2 DEF PostedFacts, FactsOf, Credit
  <2> QED BY <1>1, <2>1, <2>3
<1>2. CASE ~(Exists(id) /\ income[id].source = "MANUAL")
      BY <1>2 DEF IInv, OneEntryPerIncome
<1> QED BY <1>1, <1>2

\* A step that writes no record is a stutter of the register.
LEMMA Unwritten ==
    ASSUME IInv, IInv', UNCHANGED income
    PROVE  UNCHANGED <<Book, Postings>>
<1>1. (Postings = Expected) /\ (Postings = Expected)'
      BY PostingsExpected, PTL
<1>2. UNCHANGED Expected
      BY DEF Expected, Exists
<1>3. UNCHANGED Book
      BY DEF Book, Exists, Shown
<1> QED BY <1>1, <1>2, <1>3

\* What a write of record id does to the register.
LEMMA Written ==
    ASSUME IInv, IInv', NEW id \in RecordIds, NEW row \in Row,
           income' = [income EXCEPT ![id] = row]
    PROVE  /\ Book' = [Book EXCEPT ![id] = Shown(row)]
           /\ Postings' = [Postings EXCEPT ![id] =
                              IF row.source = "MANUAL" THEN {FactsOf(row)} ELSE {}]
<1>1. (Postings = Expected) /\ (Postings = Expected)'
      BY PostingsExpected, PTL
<1>2. /\ income'[id] = row /\ row # None
      /\ \A i \in RecordIds : i # id => income'[i] = income[i]
      BY DEF IInv, TypeOK
<1>3. Expected' = [Expected EXCEPT ![id] =
                      IF row.source = "MANUAL" THEN {FactsOf(row)} ELSE {}]
      BY <1>2 DEF Expected, Exists
<1>4. Book' = [Book EXCEPT ![id] = Shown(row)]
      BY <1>2 DEF Book, Exists, Shown
<1> QED BY <1>1, <1>3, <1>4

LEMMA CreateRefines ==
    ASSUME IInv, IInv', NEW p \in Procs, NEW id \in RecordIds, NEW eid \in EntryIds,
           CreateCommit(p, id, eid)
    PROVE  \E f \in Register!Facts : Register!Record(id, f)
<1>1. PICK row : row = NewRow(req[p])
      OBVIOUS
<1>2. row \in Row /\ row.source = "MANUAL" /\ row.approval = "PENDING"
  <2>1. req[p] \in Request /\ req[p].data \in CreateDto /\ req[p].number \in Numbers
        BY DEF IInv, TypeOK, RequestOK, CreateOK, CreateCommit, At
  <2> QED BY <1>1, <2>1, NewRowType DEF NewRow
<1>3. income' = [income EXCEPT ![id] = row] /\ ~Exists(id)
      BY <1>1 DEF CreateCommit
<1>4. /\ Book' = [Book EXCEPT ![id] = Shown(row)]
      /\ Postings' = [Postings EXCEPT ![id] = {FactsOf(row)}]
      BY <1>2, <1>3, Written
<1>5. Book[id] = None
      BY <1>3 DEF Book
<1>6. FactsOf(row) \in Register!Facts
      BY <1>2 DEF FactsOf, Row, Register!Facts
<1>7. Shown(row) = Register!Line(FactsOf(row), "MANUAL", "PENDING")
      BY <1>2 DEF Shown, FactsOf, Register!Line
<1>8. Register!Record(id, FactsOf(row))
      BY <1>4, <1>5, <1>7 DEF Register!Record, Book, Postings
<1> QED BY <1>6, <1>8

LEMMA UpdateRefines ==
    ASSUME IInv, IInv', NEW p \in Procs, NEW eid \in EntryIds, UpdateCommit(p, eid)
    PROVE  \E id \in RecordIds : \E f \in Register!Facts : Register!Correct(id, f)
<1>1. PICK id : id = req[p].id
      OBVIOUS
<1>2. /\ Manual(id) /\ id \in RecordIds /\ income[id] \in Row
      /\ req[p].data \in UpdateDto
      BY <1>1 DEF IInv, TypeOK, RequestOK, UpdateOK, UpdateCommit, At, Manual, Exists
<1>3. PICK m : m = Merge(income[id], req[p].data)
      OBVIOUS
<1>4. PICK row : row = [m EXCEPT !.approval = "PENDING"]
      OBVIOUS
<1>5. row \in Row /\ row.source = "MANUAL" /\ row.approval = "PENDING"
  <2>1. m \in Row /\ m.source = "MANUAL"
        BY <1>2, <1>3, MergeType DEF Manual
  <2> QED BY <1>4, <2>1 DEF Row
<1>6. income' = [income EXCEPT ![id] = row]
      BY <1>1, <1>3, <1>4 DEF UpdateCommit, Rewritten
<1>7. /\ Book' = [Book EXCEPT ![id] = Shown(row)]
      /\ Postings' = [Postings EXCEPT ![id] = {FactsOf(row)}]
      BY <1>2, <1>5, <1>6, Written
<1>8. Book[id] # None /\ Book[id].source = "MANUAL"
  <2>1. Book[id] = Shown(income[id]) /\ Shown(income[id]).source = "MANUAL"
        BY <1>2 DEF Book, Manual, Shown
  <2>2. Shown(income[id]) \in ShownRow
        BY <1>2 DEF Shown, Row, ShownRow
  <2> QED BY <2>1, <2>2
<1>9. FactsOf(row) \in Register!Facts
      BY <1>5 DEF FactsOf, Row, Register!Facts
<1>10. Shown(row) = Register!Line(FactsOf(row), "MANUAL", "PENDING")
      BY <1>5 DEF Shown, FactsOf, Register!Line
<1>11. Register!Correct(id, FactsOf(row))
      BY <1>7, <1>8, <1>10 DEF Register!Correct, Book, Postings
<1> QED BY <1>2, <1>9, <1>11

LEMMA LinkRefines ==
    ASSUME IInv, IInv', NEW p \in Procs, NEW id \in RecordIds, LinkCommit(p, id)
    PROVE  \E f \in Register!Facts : Register!Mirror(id, f)
<1>1. PICK row : row = [NewRow(req[p]) EXCEPT !.source = "INVOICE", !.invoice = req[p].id]
      OBVIOUS
<1>2. row \in Row /\ row.source = "INVOICE" /\ row.approval = "PENDING"
  <2>1. /\ req[p] \in Request /\ req[p].data \in CreateDto
        /\ req[p].number \in Numbers /\ req[p].id \in InvoiceIds
        BY DEF IInv, TypeOK, RequestOK, LinkOK, LinkCommit, At
  <2>2. NewRow(req[p]) \in Row /\ NewRow(req[p]).approval = "PENDING"
        BY <2>1, NewRowType DEF NewRow
  <2> QED BY <1>1, <2>1, <2>2 DEF Row
<1>3. income' = [income EXCEPT ![id] = row] /\ ~Exists(id)
      BY <1>1 DEF LinkCommit
<1>4. /\ Book' = [Book EXCEPT ![id] = Shown(row)]
      /\ Postings' = [Postings EXCEPT ![id] = {}]
      BY <1>2, <1>3, Written
<1>5. Postings[id] = {}
      BY <1>3 DEF Postings, IInv, OneEntryPerIncome
<1>6. Postings' = Postings
      BY <1>4, <1>5 DEF Postings
<1>7. Book[id] = None
      BY <1>3 DEF Book
<1>8. FactsOf(row) \in Register!Facts
      BY <1>2 DEF FactsOf, Row, Register!Facts
<1>9. Shown(row) = Register!Line(FactsOf(row), "INVOICE", "PENDING")
      BY <1>2 DEF Shown, FactsOf, Register!Line
<1>10. Register!Mirror(id, FactsOf(row))
      BY <1>4, <1>6, <1>7, <1>9 DEF Register!Mirror, Book, Postings
<1> QED BY <1>8, <1>10

LEMMA ReviewRefines ==
    ASSUME IInv, IInv', NEW id \in RecordIds, NEW v \in {"APPROVED", "REJECTED"},
           Review(id, v)
    PROVE  Register!Judge(id, v)
<1>1. PICK row : row = [income[id] EXCEPT !.approval = v]
      OBVIOUS
<1>2. income[id] \in Row /\ Exists(id)
      BY DEF Review, Exists, IInv, TypeOK
<1>3. /\ row \in Row /\ row.approval = v
      /\ FactsOf(row) = FactsOf(income[id]) /\ row.source = income[id].source
      /\ Shown(row) = [Shown(income[id]) EXCEPT !.approval = v]
      BY <1>1, <1>2 DEF Row, FactsOf, Shown
<1>4. income' = [income EXCEPT ![id] = row]
      BY <1>1, <1>2 DEF Review, IInv, TypeOK
<1>5. /\ Book' = [Book EXCEPT ![id] = Shown(row)]
      /\ Postings' = [Postings EXCEPT ![id] =
                         IF row.source = "MANUAL" THEN {FactsOf(row)} ELSE {}]
      BY <1>3, <1>4, Written
<1>6. Postings[id] = IF row.source = "MANUAL" THEN {FactsOf(row)} ELSE {}
      BY <1>2, <1>3, PostingsExpected DEF Expected
<1>7. Postings' = Postings
      BY <1>5, <1>6 DEF Postings
<1>8. Book[id] = Shown(income[id]) /\ Shown(income[id]) \in ShownRow
      BY <1>2 DEF Book, Shown, Row, ShownRow
<1>9. Book' = [Book EXCEPT ![id].approval = v]
      BY <1>3, <1>5, <1>8 DEF Book
<1> QED BY <1>7, <1>8, <1>9 DEF Register!Judge, Book, Postings

LEMMA InitRefines == Init => Register!RegInit
BY DEF Init, Register!RegInit, Exists, EntriesOf

LEMMA NextRefines ==
    IInv /\ IInv' /\ [Next]_vars => [Register!RegNext]_(Register!regVars)
<1> SUFFICES ASSUME IInv, IInv', [Next]_vars
             PROVE  Register!RegNext \/ UNCHANGED <<Book, Postings>>
    BY DEF Register!regVars, Book, Postings
<1>1. ASSUME NEW p \in Procs, NEW id \in RecordIds, NEW eid \in EntryIds,
             CreateCommit(p, id, eid)
      PROVE  Register!RegNext
      BY <1>1, CreateRefines DEF Register!RegNext
<1>2. ASSUME NEW p \in Procs, NEW eid \in EntryIds, UpdateCommit(p, eid)
      PROVE  Register!RegNext
      BY <1>2, UpdateRefines DEF Register!RegNext
<1>3. ASSUME NEW p \in Procs, NEW id \in RecordIds, LinkCommit(p, id)
      PROVE  Register!RegNext
      BY <1>3, LinkRefines DEF Register!RegNext
<1>4. ASSUME NEW id \in RecordIds, Approve(id) \/ Reject(id)
      PROVE  Register!RegNext
      BY <1>4, ReviewRefines DEF Approve, Reject, Register!RegNext
<1>5. CASE UNCHANGED income
      BY <1>5, Unwritten
<1>6. ASSUME NEW p \in Procs, Step(p)
      PROVE  \/ UNCHANGED income
             \/ \E id \in RecordIds, eid \in EntryIds : CreateCommit(p, id, eid)
             \/ \E eid \in EntryIds : UpdateCommit(p, eid)
             \/ \E id \in RecordIds : LinkCommit(p, id)
      BY <1>6 DEF Step, CreateNumber, CreateEntryNumber, UpdateRead, UpdateFind,
                  UpdateEntryNumber, LinkRead, LinkNumber, ManualNumber, ManualCommit, Abort
<1> QED BY <1>1, <1>2, <1>3, <1>4, <1>5, <1>6 DEF Next, vars

\* The service, every await interleaved, implements the register in which a
\* record and its posting change together in a single step.
THEOREM IncomeRefinesRegister == Spec => ImplementsRegister
<1>1. Init => Register!RegInit
      BY InitRefines
<1>2. IInv /\ IInv' /\ [Next]_vars => [Register!RegNext]_(Register!regVars)
      BY NextRefines
<1> QED BY <1>1, <1>2, Invariance, PTL DEF Spec, ImplementsRegister, Register!RegSpec

============================================================================
