---------------------------- MODULE BondedProofs ----------------------------
(***************************************************************************)
(* Proofs about BondedWarehouse for every number of concurrent requests,   *)
(* items, locations, quantities and movements.                             *)
(***************************************************************************)
EXTENDS BondedWarehouse, LedgerLemmas

USE BondedAssumption, NoneAssumption

----------------------------------------------------------------------------
(* The inductive invariant *)

\* The items a request with record r has read.
Held(r) == {id \in ItemIds : r.read[id] # None}

HoldsOne(r) == \E id \in ItemIds : Held(r) = {id}

\* What a movement in progress knows: its item, and that a release fits.
MoveOK(r) ==
    /\ r.dto \in MovementDtos
    /\ HoldsOne(r)
    /\ r.dto.type = "RELEASE" => \A id \in Held(r) : r.dto.quantity <= r.read[id].stockBalance

\* It looks for the RELEASED location exactly if it takes the last unit.
TakesLast(r) ==
    r.dto.type = "RELEASE" /\ \A id \in Held(r) : Remaining(r.read[id], r.dto.quantity) = 0

\* A clearance in progress read only items that had stock.
BatchOK(r) ==
    /\ r.dto \in BatchDtos
    /\ \A id \in Held(r) : r.read[id].stockBalance > 0

\* The rows of a sheet an import has still to go through.
SheetOK(r) == r.dto \in [rows : Seq(SheetRow)]

\* The first of them is the one it is at.
RowOK(r) ==
    /\ SheetOK(r)
    /\ r.dto.rows # <<>>
    /\ Head(r.dto.rows).bl \in Bls

RequestOK(r) ==
    /\ r.pc = "updating" => r.dto \in UpdateDtos /\ HoldsOne(r)
    /\ r.pc \in {"finding", "adding"} =>
          IF Importing(r) THEN RowOK(r) /\ Head(r.dto.rows).name # None
          ELSE IF "type" \in DOMAIN r.dto THEN MoveOK(r) /\ TakesLast(r) ELSE BatchOK(r)
    /\ r.pc = "moving" => MoveOK(r) /\ (r.loc # None <=> TakesLast(r))
    /\ r.pc = "clearing" => BatchOK(r) /\ r.loc # None
    /\ r.pc = "importing" => SheetOK(r) /\ r.loc = None
    /\ r.pc = "inserting" => RowOK(r) /\ (r.loc = None <=> Head(r.dto.rows).name = None)
    /\ r.pc = "naming" => r.dto \in [name : Names]

SameStock(row, read) ==
    /\ row.quantity = read.quantity
    /\ row.releasedQty = read.releasedQty
    /\ row.stockBalance = read.stockBalance

\* Unless it was disturbed, an item is as the request that holds it has read it.
Fresh(r) ==
    \A id \in Held(r) :
        /\ item[id] # None
        /\ Live(id) /\ id \notin disturbed => SameStock(item[id], r.read[id])

\* The location found has the name that was sought, unless it is deleted or
\* somebody renames it.
LocationOK(r) ==
    r.pc \in {"moving", "clearing", "inserting"} /\ r.loc # None =>
        location[r.loc] \in {Sought(r), Gone} \/ r.loc \in disturbed

\* The units the movements of a log release.
Logged(log) ==
    SumFunction([i \in DOMAIN log |-> IF log[i].type = "RELEASE" THEN log[i].quantity ELSE 0])

\* A row that follows from its log; one that came with less than nothing has no
\* stock to release.
StockRight(row, log) ==
    /\ row.releasedQty \in Nat
    /\ row.releasedQty = Logged(log)
    /\ IF row.quantity >= 0 THEN row.stockBalance = Max({0, row.quantity - row.releasedQty})
       ELSE row.stockBalance < 0

PaidRelease(m) == m.type = "RELEASE" /\ m.dutyPaid

\* The duty follows from what the last body that named one said, and the log since.
DutyRight(row, log) ==
    /\ row.since <= Len(log)
    /\ row.duty = "PAID" <=>
          row.stated = "PAID" \/ \E i \in DOMAIN log : i > row.since /\ PaidRelease(log[i])

ItemOK(id) ==
    /\ item[id] = None => movements[id] = <<>>
    /\ Live(id) => DutyRight(item[id], movements[id])
    /\ Live(id) /\ id \notin disturbed => StockRight(item[id], movements[id])

Exclusive ==
    \A p, q \in Procs : p # q =>
        /\ Held(req[p]) \cap Held(req[q]) \subseteq disturbed
        /\ {req[p].loc} \cap {req[q].loc} \cap LocationIds \subseteq disturbed

IInv ==
    /\ TypeOK
    /\ Exclusive
    /\ \A p \in Procs : RequestOK(req[p]) /\ Fresh(req[p]) /\ LocationOK(req[p])
    /\ \A id \in ItemIds : ItemOK(id)

----------------------------------------------------------------------------
(* Lemmas about rows and requests *)

LEMMA StockLeft ==
    ASSUME NEW n \in Int
    PROVE  /\ Max({0, n}) \in Nat
           /\ n >= 0 => Max({0, n}) = n
           /\ n < 0 => Max({0, n}) = 0
<1>1. \E x \in {0, n} : \A y \in {0, n} : x >= y
  <2>1. CASE n >= 0
        BY <2>1
  <2>2. CASE n < 0
        BY <2>2
  <2> QED BY <2>1, <2>2
<1>2. Max({0, n}) \in {0, n} /\ \A y \in {0, n} : Max({0, n}) >= y
      BY <1>1 DEF Max
<1> QED BY <1>2

\* One movement more.
LEMMA LoggedAppend ==
    ASSUME NEW log \in Seq(MovementRow), NEW m \in MovementRow
    PROVE  /\ Logged(log) \in Int
           /\ Logged(Append(log, m)) = Logged(log) + (IF m.type = "RELEASE" THEN m.quantity ELSE 0)
<1>1. PICK f, g :
        /\ f = [i \in DOMAIN log |-> IF log[i].type = "RELEASE" THEN log[i].quantity ELSE 0]
        /\ g = [i \in DOMAIN Append(log, m) |->
                  IF Append(log, m)[i].type = "RELEASE" THEN Append(log, m)[i].quantity ELSE 0]
      OBVIOUS
<1>2. PICK n \in Nat : n = Len(log)
      OBVIOUS
<1>3. /\ DOMAIN log = 1..n /\ DOMAIN Append(log, m) = 1..(n + 1)
      /\ \A i \in 1..n : Append(log, m)[i] = log[i] /\ log[i] \in MovementRow
      /\ Append(log, m)[n + 1] = m
      BY <1>2
<1>4. /\ \A i \in 1..n : log[i].quantity \in Int
      /\ m.quantity \in Int
      BY <1>3 DEF MovementRow
<1>5. /\ DOMAIN f = 1..n /\ DOMAIN g = 1..(n + 1)
      /\ \A i \in 1..n : f[i] \in Int /\ g[i] = f[i]
      /\ g[n + 1] = IF m.type = "RELEASE" THEN m.quantity ELSE 0
      BY <1>1, <1>3, <1>4
<1>6. /\ IsFiniteSet(DOMAIN f) /\ n + 1 \notin DOMAIN f /\ DOMAIN g = DOMAIN f \cup {n + 1}
      /\ \A i \in DOMAIN g : g[i] \in Int
      /\ \A i \in DOMAIN f : f[i] \in Int /\ g[i] = f[i]
  <2>1. 1 \in Int /\ n \in Int
        OBVIOUS
  <2>2. IsFiniteSet(1..n)
        BY <2>1, FS_Interval
  <2>3. 1..(n + 1) = (1..n) \cup {n + 1} /\ n + 1 \notin 1..n
        OBVIOUS
  <2>4. g[n + 1] \in Int
        BY <1>4, <1>5
  <2> QED BY <1>5, <2>2, <2>3, <2>4
<1>7. PICK k : k = n + 1
      OBVIOUS
<1>8. SumFunction(g) = SumFunction(f) + g[k]
  <2>1. /\ IsFiniteSet(DOMAIN f) /\ k \notin DOMAIN f /\ DOMAIN g = DOMAIN f \cup {k}
        /\ \A i \in DOMAIN g : g[i] \in Int
        /\ \A i \in DOMAIN f : g[i] = f[i]
        BY <1>6, <1>7
  <2> QED BY <2>1, SumGrows
<1>9. SumFunction(f) \in Int
      BY <1>6, SumFunctionInt
<1> QED BY <1>1, <1>5, <1>7, <1>8, <1>9 DEF Logged

\* An item that has just come.
LEMMA LoggedNothing == Logged(<<>>) = 0
<1>1. PICK f : f = [i \in DOMAIN <<>> |-> IF <<>>[i].type = "RELEASE" THEN <<>>[i].quantity ELSE 0]
      OBVIOUS
<1>2. DOMAIN f = {}
      BY <1>1
<1>3. SumFunction(f) = 0
      BY <1>2, FS_EmptySet, SumFunctionNat
<1> QED BY <1>1, <1>3 DEF Logged

\* What a step leaves in disturbed.
LEMMA OverlapMarked ==
    ASSUME Next
    PROVE  disturbed \subseteq disturbed' /\ Exclusive'
<1>1. disturbed' = disturbed \cup Overlapping'
      BY DEF Next
<1>2. ASSUME NEW p \in Procs, NEW q \in Procs, p # q
      PROVE  /\ Held(req'[p]) \cap Held(req'[q]) \subseteq disturbed'
             /\ {req'[p].loc} \cap {req'[q].loc} \cap LocationIds \subseteq disturbed'
  <2>1. Touched(p)' \cap Touched(q)' \subseteq Overlapping'
        BY <1>2 DEF Overlapping
  <2>2. /\ Touched(p)' = Held(req'[p]) \cup ({req'[p].loc} \cap LocationIds)
        /\ Touched(q)' = Held(req'[q]) \cup ({req'[q].loc} \cap LocationIds)
        BY DEF Touched, ReadBy, Held
  <2> QED BY <1>1, <2>1, <2>2
<1> QED BY <1>1, <1>2 DEF Exclusive

\* An item a step leaves alone.
LEMMA ItemKept ==
    ASSUME IInv, Next, NEW id \in ItemIds,
           item'[id] = item[id], movements'[id] = movements[id]
    PROVE  ItemOK(id)'
<1>1. ItemOK(id) /\ disturbed \subseteq disturbed'
      BY OverlapMarked DEF IInv
<1> QED BY <1>1 DEF ItemOK, Live, StockRight, DutyRight

\* An item of which a step changes no stock, and whose duty stays accounted for.
LEMMA ItemSame ==
    ASSUME IInv, Next, NEW id \in ItemIds, Live(id), item'[id] \in Row,
           SameStock(item'[id], item[id]), movements'[id] = movements[id],
           DutyRight(item'[id], movements[id])
    PROVE  ItemOK(id)'
<1>1. ItemOK(id) /\ disturbed \subseteq disturbed'
      BY OverlapMarked DEF IInv
<1>2. id \notin disturbed' => StockRight(item'[id], movements'[id])
      BY <1>1 DEF ItemOK, StockRight, SameStock
<1>3. item'[id] # None
      OBVIOUS
<1> QED BY <1>2, <1>3 DEF ItemOK, Live

LEMMA IdleOK ==
    /\ Idle \in Request
    /\ Held(Idle) = {}
    /\ RequestOK(Idle) /\ Fresh(Idle) /\ LocationOK(Idle)
    /\ Fresh(Idle)' /\ LocationOK(Idle)'
<1>1. Idle \in Request
      BY DEF Idle, Request
<1>2. Held(Idle) = {}
      BY DEF Idle, Held
<1> QED BY <1>1, <1>2 DEF Idle, RequestOK, Fresh, LocationOK

\* A step that changes nothing but its own request.
LEMMA RequestStep ==
    ASSUME IInv, NEW p \in Procs, NEW r \in Request, Next,
           req' = [req EXCEPT ![p] = r], Reads,
           RequestOK(r), Fresh(r), LocationOK(r)
    PROVE  IInv'
<1>1. disturbed \subseteq disturbed' /\ Exclusive'
      BY OverlapMarked
<1>2. UNCHANGED <<item, movements, location>>
      BY DEF Reads, table
<1>3. TypeOK'
      BY <1>2 DEF IInv, TypeOK, Live, Refers, Standing
<1>4. ASSUME NEW q \in Procs PROVE (RequestOK(req[q]) /\ Fresh(req[q]) /\ LocationOK(req[q]))'
  <2>1. req'[q] = r \/ req'[q] = req[q]
        BY DEF IInv, TypeOK
  <2>2. /\ RequestOK(r) /\ Fresh(r) /\ LocationOK(r)
        /\ RequestOK(req[q]) /\ Fresh(req[q]) /\ LocationOK(req[q])
        BY DEF IInv
  <2>3. RequestOK(req'[q]) /\ Fresh(req'[q]) /\ LocationOK(req'[q])
        BY <2>1, <2>2
  <2>4. RequestOK(req[q])'
        BY <2>3 DEF RequestOK, MoveOK, HoldsOne, TakesLast, BatchOK, SheetOK, RowOK, Importing, Held, Remaining
  <2>5. Fresh(req[q])'
        BY <2>3, <1>1, <1>2 DEF Fresh, Live, Held, SameStock
  <2>6. LocationOK(req[q])'
        BY <2>3, <1>1, <1>2 DEF LocationOK, Sought, Importing
  <2> QED BY <2>4, <2>5, <2>6
<1>5. \A id \in ItemIds : ItemOK(id)'
      BY <1>2, ItemKept
<1> QED BY <1>1, <1>3, <1>4, <1>5 DEF IInv

----------------------------------------------------------------------------
(* Requests that read *)

\* A request that read rows which are there now.
LEMMA ReadNow ==
    ASSUME IInv, NEW r \in Request, NEW ids \in SUBSET ItemIds,
           r.read = RowsRead(ids), \A id \in ids : Live(id)
    PROVE  Held(r) = ids /\ Fresh(r) /\ \A id \in ids : r.read[id] = item[id]
<1>1. \A id \in ItemIds : r.read[id] = IF id \in ids THEN item[id] ELSE None
      BY DEF RowsRead
<1>2. \A id \in ids : item[id] # None
      BY DEF Live
<1> QED BY <1>1, <1>2 DEF Held, Fresh, SameStock

LEMMA RowsReadType ==
    ASSUME IInv, NEW ids \in SUBSET ItemIds, \A id \in ids : Live(id)
    PROVE  RowsRead(ids) \in [ItemIds -> Row \cup {None}]
BY DEF RowsRead, Live, IInv, TypeOK

LEMMA UpdateReadStep ==
    ASSUME IInv, Next, NEW p \in Procs, NEW id \in ItemIds, NEW dto \in UpdateDtos, UpdateRead(p, id, dto)
    PROVE  IInv'
<1> DEFINE r == [Idle EXCEPT !.pc = "updating", !.dto = dto, !.read = RowsRead({id})]
<1>1. Live(id) /\ req' = [req EXCEPT ![p] = r] /\ Reads
      BY DEF UpdateRead
<1>2. r \in Request
      BY <1>1, RowsReadType, IdleOK DEF Request
<1>3. r.pc = "updating" /\ r.dto = dto /\ r.read = RowsRead({id})
      BY DEF Idle
<1>4. Held(r) = {id} /\ Fresh(r)
  <2>1. {id} \in SUBSET ItemIds /\ \A i \in {id} : Live(i)
        BY <1>1
  <2> HIDE DEF r
  <2> QED BY <2>1, <1>2, <1>3, ReadNow
<1>5. RequestOK(r)
      BY <1>3, <1>4 DEF RequestOK, HoldsOne
<1>6. LocationOK(r)
      BY <1>3 DEF LocationOK
<1> QED BY <1>1, <1>2, <1>4, <1>5, <1>6, RequestStep

LEMMA MoveReadStep ==
    ASSUME IInv, Next, NEW p \in Procs, NEW id \in ItemIds, NEW dto \in MovementDtos, MoveRead(p, id, dto)
    PROVE  IInv'
<1> DEFINE last == dto.type = "RELEASE" /\ Remaining(item[id], dto.quantity) = 0
           r    == [Idle EXCEPT !.pc = IF last THEN "finding" ELSE "moving",
                                !.dto = dto, !.read = RowsRead({id})]
<1>1. Live(id) /\ req' = [req EXCEPT ![p] = r] /\ Reads
      BY DEF MoveRead
<1>2. r \in Request
      BY <1>1, RowsReadType, IdleOK DEF Request
<1>3. /\ r.pc = IF last THEN "finding" ELSE "moving"
      /\ r.dto = dto /\ r.read = RowsRead({id}) /\ r.loc = None
      BY DEF Idle
<1>4. Held(r) = {id} /\ Fresh(r) /\ r.read[id] = item[id]
  <2>1. {id} \in SUBSET ItemIds /\ \A i \in {id} : Live(i)
        BY <1>1
  <2> HIDE DEF r
  <2> QED BY <2>1, <1>2, <1>3, ReadNow
<1>5. MoveOK(r)
      BY <1>3, <1>4 DEF MoveRead, WithinStock, MoveOK, HoldsOne
<1>6. TakesLast(r) <=> last
      BY <1>3, <1>4 DEF TakesLast
<1>7. "type" \in DOMAIN dto /\ "rows" \notin DOMAIN dto
      BY DEF MovementDto
<1>8. RequestOK(r)
  <2> HIDE DEF r, last
  <2>1. CASE last
        BY <2>1, <1>3, <1>5, <1>6, <1>7 DEF RequestOK, Importing
  <2>2. CASE ~last
        BY <2>2, <1>3, <1>5, <1>6 DEF RequestOK
  <2> QED BY <2>1, <2>2
<1>9. LocationOK(r)
      BY <1>3 DEF LocationOK
<1> QED BY <1>1, <1>2, <1>4, <1>8, <1>9, RequestStep

LEMMA BatchReadStep ==
    ASSUME IInv, Next, NEW p \in Procs, NEW dto \in BatchDtos, BatchRead(p, dto)
    PROVE  IInv'
<1> DEFINE inStock == {id \in OfShipment(dto.bl) : item[id].stockBalance > 0}
           r       == [Idle EXCEPT !.pc = "finding", !.dto = dto, !.read = RowsRead(inStock)]
<1>1. req' = [req EXCEPT ![p] = r] /\ Reads
      BY DEF BatchRead
<1>2. inStock \in SUBSET ItemIds /\ \A id \in inStock : Live(id)
      BY DEF OfShipment
<1>3. r \in Request
      BY <1>2, RowsReadType, IdleOK DEF Request
<1>4. r.pc = "finding" /\ r.dto = dto /\ r.read = RowsRead(inStock)
      BY DEF Idle
<1>5. Held(r) = inStock /\ Fresh(r) /\ \A id \in inStock : r.read[id] = item[id]
  <2> HIDE DEF r, inStock
  <2> QED BY <1>2, <1>3, <1>4, ReadNow
<1>6. BatchOK(r) /\ ~Importing(r) /\ "type" \notin DOMAIN r.dto
  <2> HIDE DEF r
  <2> QED BY <1>4, <1>5 DEF BatchOK, Importing
<1>8. RequestOK(r)
  <2> HIDE DEF r
  <2> QED BY <1>4, <1>6 DEF RequestOK
<1>7. LocationOK(r)
      BY <1>4 DEF LocationOK
<1> QED BY <1>1, <1>3, <1>5, <1>8, <1>7, RequestStep

\* What a request goes on to do once it has found, or made, its location.
Found(p, l) == [req[p] EXCEPT !.loc = l, !.pc = Then(p)]

\* It is right about it.
LEMMA FoundOK ==
    ASSUME IInv, NEW p \in Procs, req[p].pc \in {"finding", "adding"}, NEW l \in LocationIds,
           NEW r, r = Found(p, l)
    PROVE  /\ r \in Request /\ RequestOK(r) /\ Fresh(r)
           /\ r.loc = l /\ Sought(r) = Sought(req[p]) /\ Sought(r) \in Names \cup {"KWB"}
           /\ Held(r) = Held(req[p]) /\ r.dto = req[p].dto
<1>1. req[p] \in Request /\ RequestOK(req[p]) /\ Fresh(req[p])
      BY DEF IInv, TypeOK
<1>2. /\ r \in Request
      /\ r.dto = req[p].dto /\ r.read = req[p].read /\ r.loc = l /\ r.pc = Then(p)
      BY <1>1 DEF Request, Then, Found
<1>3. Held(r) = Held(req[p]) /\ Fresh(r)
      BY <1>1, <1>2 DEF Held, Fresh
<1>4. Sought(r) = Sought(req[p]) /\ (Importing(r) <=> Importing(req[p]))
      BY <1>2 DEF Sought, Importing
<1>5. l # None
      OBVIOUS
<1>6. CASE Importing(r)
  <2>1. r.pc = "inserting" /\ RowOK(r) /\ Head(r.dto.rows).name # None
        BY <1>1, <1>2, <1>4, <1>6 DEF RequestOK, Then, RowOK, SheetOK
  <2>2. RequestOK(r)
        BY <2>1, <1>2, <1>5 DEF RequestOK
  <2>3. r.dto.rows \in Seq(SheetRow) /\ r.dto.rows # <<>>
        BY <2>1 DEF RowOK, SheetOK
  <2>4. Head(r.dto.rows) \in SheetRow
        BY <2>3
  <2>5. Sought(r) \in Names \cup {"KWB"}
        BY <2>1, <2>4, <1>6 DEF Sought, SheetRow
  <2> QED BY <2>2, <2>5, <1>2, <1>3, <1>4
<1>7. CASE ~Importing(r)
  <2>1. Sought(r) \in Names \cup {"KWB"}
        BY <1>7 DEF Sought
  <2>2. CASE "type" \in DOMAIN r.dto
    <3>1. r.pc = "moving" /\ MoveOK(r) /\ TakesLast(r)
          BY <1>1, <1>2, <1>3, <1>4, <1>7, <2>2 DEF RequestOK, Then, MoveOK, HoldsOne, TakesLast
    <3>2. RequestOK(r)
          BY <3>1, <1>2, <1>5 DEF RequestOK
    <3> QED BY <3>2, <2>1, <1>2, <1>3, <1>4
  <2>3. CASE "type" \notin DOMAIN r.dto
    <3>1. r.pc = "clearing" /\ BatchOK(r)
          BY <1>1, <1>2, <1>3, <1>4, <1>7, <2>3 DEF RequestOK, Then, BatchOK
    <3>2. RequestOK(r)
          BY <3>1, <1>2, <1>5 DEF RequestOK
    <3> QED BY <3>2, <2>1, <1>2, <1>3, <1>4
  <2> QED BY <2>2, <2>3
<1> QED BY <1>6, <1>7

LEMMA FindLocationStep ==
    ASSUME IInv, Next, NEW p \in Procs, FindLocation(p)
    PROVE  IInv'
<1>1. /\ req[p] \in Request /\ RequestOK(req[p]) /\ Fresh(req[p])
      /\ req[p].pc = "finding" /\ Reads
      BY DEF FindLocation, IInv, TypeOK, At
<1>2. CASE NameTaken(Sought(req[p]))
  <2>1. PICK l \in LocationIds :
           /\ location[l] = Sought(req[p])
           /\ req' = [req EXCEPT ![p].loc = l, ![p].pc = Then(p)]
        BY <1>2 DEF FindLocation
  <2>2. PICK r : r = Found(p, l)
        OBVIOUS
  <2>3. req' = [req EXCEPT ![p] = r]
        BY <2>1, <2>2 DEF IInv, TypeOK, Found
  <2>6. req[p].pc \in {"finding", "adding"}
        BY <1>1
  <2>4. r \in Request /\ RequestOK(r) /\ Fresh(r) /\ r.loc = l /\ Sought(r) = Sought(req[p])
        BY <2>6, <2>2, FoundOK
  <2>5. LocationOK(r)
        BY <2>1, <2>4 DEF LocationOK
  <2> QED BY <1>1, <2>3, <2>4, <2>5, RequestStep
<1>3. CASE ~NameTaken(Sought(req[p]))
  <2>1. PICK r : r = [req[p] EXCEPT !.pc = "adding"]
        OBVIOUS
  <2>2. req' = [req EXCEPT ![p] = r]
        BY <1>3, <2>1 DEF FindLocation, IInv, TypeOK
  <2>3. r \in Request
        BY <1>1, <2>1 DEF Request
  <2>4. r.dto = req[p].dto /\ r.read = req[p].read /\ r.pc = "adding"
        BY <1>1, <2>1 DEF Request
  <2>5. Held(r) = Held(req[p]) /\ Fresh(r)
        BY <1>1, <2>4 DEF Held, Fresh
  <2>6. RequestOK(r)
        BY <1>1, <2>4, <2>5 DEF RequestOK, MoveOK, HoldsOne, TakesLast, BatchOK, RowOK, SheetOK, Importing
  <2>7. LocationOK(r)
        BY <2>4 DEF LocationOK
  <2> QED BY <1>1, <2>2, <2>3, <2>5, <2>6, <2>7, RequestStep
<1> QED BY <1>2, <1>3

LEMMA ImportStartStep ==
    ASSUME IInv, Next, NEW p \in Procs, NEW rows \in Sheets, ImportStart(p, rows)
    PROVE  IInv'
<1> DEFINE r == [Idle EXCEPT !.pc = "importing", !.dto = [rows |-> rows]]
<1>1. req' = [req EXCEPT ![p] = r] /\ Reads
      BY DEF ImportStart
<1>2. rows \in Seq(SheetRow)
      OBVIOUS
<1>3. r \in Request
      BY <1>2, IdleOK DEF Request
<1>4. r.pc = "importing" /\ r.dto = [rows |-> rows] /\ r.read = Idle.read /\ r.loc = None
      BY DEF Idle
<1>5. Fresh(r)
      BY <1>4, IdleOK DEF Fresh, Held
<1>6. RequestOK(r)
      BY <1>2, <1>4 DEF RequestOK, SheetOK
<1>7. LocationOK(r)
      BY <1>4 DEF LocationOK
<1> QED BY <1>1, <1>3, <1>5, <1>6, <1>7, RequestStep

LEMMA ImportRowStep ==
    ASSUME IInv, Next, NEW p \in Procs, ImportRow(p)
    PROVE  IInv'
<1>1. /\ req[p] \in Request /\ SheetOK(req[p]) /\ Fresh(req[p]) /\ req[p].loc = None
      /\ req[p].pc = "importing" /\ Reads
      BY DEF ImportRow, At, IInv, TypeOK, RequestOK
<1>2. PICK rows \in Seq(SheetRow) : rows = req[p].dto.rows /\ req[p].dto = [rows |-> rows]
      BY <1>1 DEF SheetOK
<1>3. CASE rows = <<>>
      BY <1>1, <1>2, <1>3, IdleOK, RequestStep DEF ImportRow, Done
<1>4. CASE rows # <<>>
  <2>1. PICK dto, pc :
          /\ dto = IF Head(rows).bl = None THEN [rows |-> Tail(rows)] ELSE req[p].dto
          /\ pc = IF Head(rows).bl = None THEN "importing"
                  ELSE IF Head(rows).name = None THEN "inserting" ELSE "finding"
        OBVIOUS
  <2>2. PICK r : r = [req[p] EXCEPT !.dto = dto, !.pc = pc]
        OBVIOUS
  <2>3. r = IF Head(rows).bl = None THEN [req[p] EXCEPT !.dto = [rows |-> Tail(rows)]]
            ELSE [req[p] EXCEPT !.pc = IF Head(rows).name = None THEN "inserting" ELSE "finding"]
        BY <1>1, <2>1, <2>2 DEF Request
  <2>4. req' = [req EXCEPT ![p] = r]
        BY <1>2, <1>4, <2>3 DEF ImportRow, IInv, TypeOK
  <2>5. Head(rows) \in SheetRow /\ Tail(rows) \in Seq(SheetRow)
        BY <1>4
  <2>6. /\ r \in Request /\ r.pc = pc /\ r.dto = dto /\ r.loc = None
        /\ r.read = req[p].read
        BY <1>1, <2>1, <2>2, <2>5 DEF Request
  <2>7. Fresh(r)
        BY <1>1, <2>6 DEF Fresh, Held
  <2>8. RequestOK(r)
    <3>1. CASE Head(rows).bl = None
          BY <3>1, <2>1, <2>5, <2>6 DEF RequestOK, SheetOK
    <3>2. CASE Head(rows).bl # None
      <4>1. RowOK(r) /\ Importing(r) /\ r.dto.rows = rows
            BY <3>2, <1>2, <1>4, <2>1, <2>5, <2>6 DEF RowOK, SheetOK, SheetRow, Importing
      <4> QED BY <3>2, <4>1, <2>1, <2>6 DEF RequestOK
    <3> QED BY <3>1, <3>2
  <2>9. LocationOK(r)
        BY <2>6 DEF LocationOK
  <2> QED BY <1>1, <2>4, <2>6, <2>7, <2>8, <2>9, RequestStep
<1> QED BY <1>3, <1>4

LEMMA NameCheckStep ==
    ASSUME IInv, Next, NEW p \in Procs, NEW l \in LocationIds \cup {None}, NEW name \in Names,
           NameCheck(p, l, name)
    PROVE  IInv'
<1> DEFINE r == [Idle EXCEPT !.pc = "naming", !.dto = [name |-> name], !.loc = l]
<1>1. req' = [req EXCEPT ![p] = r] /\ Reads
      BY DEF NameCheck
<1>2. r \in Request
      BY IdleOK DEF Request
<1>3. r.pc = "naming" /\ r.dto = [name |-> name] /\ r.read = Idle.read
      BY DEF Idle
<1>4. Held(r) = {}
      BY <1>3, IdleOK DEF Held
<1>5. Fresh(r)
      BY <1>4 DEF Fresh
<1>6. RequestOK(r)
      BY <1>3 DEF RequestOK
<1>7. LocationOK(r)
      BY <1>3 DEF LocationOK
<1> QED BY <1>1, <1>2, <1>5, <1>6, <1>7, RequestStep

LEMMA AbortStep ==
    ASSUME IInv, Next, NEW p \in Procs, Abort(p)
    PROVE  IInv'
BY IdleOK, RequestStep DEF Abort, Done

----------------------------------------------------------------------------
(* Requests that commit *)

\* Units leave an item that has them.
LEMMA ReleaseRight ==
    ASSUME NEW row, NEW log, StockRight(row, log), NEW n \in Nat \ {0}, n <= row.stockBalance,
           row.quantity \in Int, row.releasedQty \in Nat, row.stockBalance \in Int,
           NEW new, NEW more, Logged(more) = Logged(log) + n,
           new.quantity = row.quantity,
           new.releasedQty = row.releasedQty + n,
           new.stockBalance = row.quantity - (row.releasedQty + n)
    PROVE  StockRight(new, more) /\ new.releasedQty <= new.quantity
<1>1. PICK left : left = row.quantity - row.releasedQty
      OBVIOUS
<1>2. left \in Int /\ row.quantity >= 0 /\ row.stockBalance = Max({0, left})
      BY <1>1 DEF StockRight
<1>3. n <= left /\ left - n \in Int /\ left - n >= 0
      BY <1>2, StockLeft
<1>4. new.quantity - new.releasedQty = left - n /\ new.stockBalance = left - n
      BY <1>1
<1>5. Max({0, new.quantity - new.releasedQty}) = new.stockBalance
      BY <1>3, <1>4, StockLeft
<1>6. new.releasedQty \in Nat /\ new.releasedQty = Logged(more)
      BY DEF StockRight
<1>7. new.releasedQty <= new.quantity
      BY <1>1, <1>3
<1> QED BY <1>2, <1>5, <1>6, <1>7 DEF StockRight

\* One movement more settles the duty if it is a paid release, and else leaves it.
LEMMA DutyAppended ==
    ASSUME NEW log \in Seq(MovementRow), NEW m \in MovementRow,
           NEW row \in Row, NEW new \in Row, DutyRight(row, log),
           new.stated = row.stated, new.since = row.since,
           new.duty = IF PaidRelease(m) THEN "PAID" ELSE row.duty
    PROVE  DutyRight(new, Append(log, m))
<1>1. PICK n \in Nat : n = Len(log)
      OBVIOUS
<1>2. PICK long, k : long = Append(log, m) /\ k = row.since
      OBVIOUS
<1>3. /\ DOMAIN log = 1..n /\ DOMAIN long = 1..(n + 1) /\ Len(long) = n + 1
      /\ \A i \in 1..n : long[i] = log[i]
      /\ long[n + 1] = m
      BY <1>1, <1>2
<1>4. k \in Nat /\ k <= n
      BY <1>1, <1>2 DEF DutyRight, Row
<1>5. 1..(n + 1) = (1..n) \cup {n + 1} /\ n + 1 > k /\ k <= n + 1
      BY <1>4
<1>6. (\E i \in 1..n : i > k /\ PaidRelease(long[i])) <=> \E i \in 1..n : i > k /\ PaidRelease(log[i])
      BY <1>3
<1>7. (\E i \in DOMAIN long : i > k /\ PaidRelease(long[i]))
         <=> PaidRelease(m) \/ \E i \in DOMAIN log : i > k /\ PaidRelease(log[i])
      BY <1>3, <1>5, <1>6
<1>8. row.duty = "PAID" <=>
         row.stated = "PAID" \/ \E i \in DOMAIN log : i > k /\ PaidRelease(log[i])
      BY <1>2 DEF DutyRight
<1>9. new.since <= Len(long)
      BY <1>2, <1>3, <1>5
<1>10. new.duty = "PAID" <=> PaidRelease(m) \/ row.duty = "PAID"
      OBVIOUS
<1>11. new.duty = "PAID" <=>
          new.stated = "PAID" \/ \E i \in DOMAIN long : i > new.since /\ PaidRelease(long[i])
      BY <1>2, <1>7, <1>8, <1>10
<1> QED BY <1>2, <1>9, <1>11 DEF DutyRight

\* What a PATCH writes over a row.
LEMMA RestatedOK ==
    ASSUME NEW row \in Row, Refers(row.location),
           NEW dto, Refers(dto.location), dto.duty \in Duties \cup {None},
           NEW log \in Seq(MovementRow), DutyRight(row, log),
           NEW new, new = Restated(row, dto, Len(log))
    PROVE  /\ new \in Row /\ Refers(new.location) /\ SameStock(new, row)
           /\ DutyRight(new, log)
<1>1. PICK loc, duty, stated, since :
        /\ loc = Given(dto.location, row.location) /\ duty = Given(dto.duty, row.duty)
        /\ stated = Given(dto.duty, row.stated)
        /\ since = IF dto.duty = None THEN row.since ELSE Len(log)
      OBVIOUS
<1>2. /\ loc \in LocationIds \cup {None} /\ Refers(loc)
      /\ duty \in Duties /\ stated \in Duties /\ since \in Nat
      BY <1>1 DEF Given, Refers, Row
<1>3. new = [row EXCEPT !.location = loc, !.duty = duty, !.stated = stated, !.since = since]
      BY <1>1 DEF Restated, Row
<1>4. new \in Row /\ new.location = loc /\ SameStock(new, row)
      /\ new.duty = duty /\ new.stated = stated /\ new.since = since
      BY <1>2, <1>3 DEF Row, SameStock
<1>5. DutyRight(new, log)
  <2>1. CASE dto.duty = None
        BY <1>1, <1>4, <2>1 DEF Given, DutyRight
  <2>2. CASE dto.duty # None
    <3>1. since = Len(log) /\ duty = stated
          BY <1>1, <2>2 DEF Given
    <3>2. \A i \in DOMAIN log : ~(i > Len(log))
      <4>1. PICK n \in Nat : n = Len(log) /\ DOMAIN log = 1..n
            OBVIOUS
      <4> QED BY <4>1
    <3> QED BY <1>4, <3>1, <3>2 DEF DutyRight
  <2> QED BY <2>1, <2>2
<1> QED BY <1>2, <1>4, <1>5

\* What a step does to an item somebody else may hold.
Kept(id) ==
    /\ item'[id] # None
    /\ Live(id)' /\ id \notin disturbed' => Live(id) /\ SameStock(item'[id], item[id])

\* What a step does to the location somebody else has found.
LocationKept(l) ==
    location[l] # None /\ l \notin disturbed' => location'[l] \in {location[l], Gone}

\* A request that the step of another leaves alone.
LEMMA RequestKept ==
    ASSUME IInv, Next, NEW q \in Procs, req'[q] = req[q],
           \A id \in Held(req[q]) : Kept(id),
           req[q].loc # None => LocationKept(req[q].loc)
    PROVE  (RequestOK(req[q]) /\ Fresh(req[q]) /\ LocationOK(req[q]))'
<1>1. disturbed \subseteq disturbed'
      BY OverlapMarked
<1>2. RequestOK(req[q]) /\ Fresh(req[q]) /\ LocationOK(req[q])
      BY DEF IInv
<1>3. RequestOK(req[q])'
      BY <1>2 DEF RequestOK, MoveOK, HoldsOne, TakesLast, BatchOK, SheetOK, RowOK, Importing, Held, Remaining
<1>4. Fresh(req[q])'
  <2>1. ASSUME NEW id \in Held(req[q])
        PROVE  /\ item'[id] # None
               /\ Live(id)' /\ id \notin disturbed' => SameStock(item'[id], req[q].read[id])
        BY <2>1, <1>1, <1>2 DEF Fresh, Kept, SameStock
  <2> QED BY <2>1 DEF Fresh, Held, SameStock, Live
<1>5. LocationOK(req[q])'
  <2> SUFFICES ASSUME req[q].pc \in {"moving", "clearing", "inserting"}, req[q].loc # None,
                      req[q].loc \notin disturbed'
               PROVE  location'[req[q].loc] \in {Sought(req[q]), Gone}
      BY DEF LocationOK, Sought, Importing
  <2>1. location[req[q].loc] \in {Sought(req[q]), Gone}
        BY <1>1, <1>2 DEF LocationOK
  <2>2. Sought(req[q]) # None
    <3>1. CASE req[q].pc = "inserting"
          BY <3>1, <1>2 DEF RequestOK, Sought
    <3>2. CASE req[q].pc \in {"moving", "clearing"}
      <4>1. "rows" \notin DOMAIN req[q].dto
            BY <3>2, <1>2 DEF RequestOK, MoveOK, BatchOK, MovementDto
      <4> QED BY <4>1 DEF Sought, Importing
    <3> QED BY <3>1, <3>2
  <2> QED BY <2>1, <2>2 DEF LocationKept
<1> QED BY <1>3, <1>4, <1>5

\* All requests after one of them has written, and holds nothing it has read.
LEMMA WriterRequests ==
    ASSUME IInv, Next, NEW p \in Procs, NEW r \in Request, req' = [req EXCEPT ![p] = r],
           RequestOK(r), Held(r) = {}, r.loc = None,
           \A id \in ItemIds \ Held(req[p]) : Kept(id) \/ item[id] = None,
           \A id \in Held(req[p]) : item'[id] # None,
           \A l \in LocationIds \ {req[p].loc} : LocationKept(l)
    PROVE  /\ req' \in [Procs -> Request]
           /\ \A q \in Procs : (RequestOK(req[q]) /\ Fresh(req[q]) /\ LocationOK(req[q]))'
<1>1. req' \in [Procs -> Request]
      BY DEF IInv, TypeOK
<1>2. req'[p] = r
      BY DEF IInv, TypeOK
<1>3. (RequestOK(req[p]) /\ Fresh(req[p]) /\ LocationOK(req[p]))'
  <2>1. RequestOK(req[p])'
        BY <1>2 DEF RequestOK, MoveOK, HoldsOne, TakesLast, BatchOK, SheetOK, RowOK, Importing, Held, Remaining
  <2>2. Fresh(req[p])' /\ LocationOK(req[p])'
        BY <1>2 DEF Fresh, LocationOK, Held
  <2> QED BY <2>1, <2>2
<1>4. ASSUME NEW q \in Procs \ {p}
      PROVE  (RequestOK(req[q]) /\ Fresh(req[q]) /\ LocationOK(req[q]))'
  <2>1. req'[q] = req[q]
        BY DEF IInv, TypeOK
  <2>2. /\ Held(req[p]) \cap Held(req[q]) \subseteq disturbed'
        /\ {req[p].loc} \cap {req[q].loc} \cap LocationIds \subseteq disturbed'
        BY OverlapMarked DEF IInv, Exclusive
  <2>3. ASSUME NEW id \in Held(req[q])
        PROVE  Kept(id)
    <3>1. id \in ItemIds /\ item[id] # None
          BY DEF Held, Fresh, IInv
    <3>2. CASE id \in Held(req[p])
          BY <2>2, <3>1, <3>2 DEF Kept
    <3>3. CASE id \notin Held(req[p])
          BY <3>1, <3>3
    <3> QED BY <3>2, <3>3
  <2>4. req[q].loc # None => LocationKept(req[q].loc)
    <3>1. req[q].loc \in LocationIds \cup {None}
          BY DEF IInv, TypeOK, Request
    <3> QED BY <3>1, <2>2 DEF LocationKept
  <2> QED BY <2>1, <2>3, <2>4, RequestKept
<1> QED BY <1>1, <1>3, <1>4

\* All requests after one of them has committed, and is idle again.
LEMMA CommitRequests ==
    ASSUME IInv, Next, NEW p \in Procs, Done(p),
           \A id \in ItemIds : item'[id] # None \/ item'[id] = item[id],
           \A id \in ItemIds \ Held(req[p]) : item'[id] = item[id],
           \A l \in LocationIds \ {req[p].loc} : LocationKept(l)
    PROVE  /\ req' \in [Procs -> Request]
           /\ \A q \in Procs : (RequestOK(req[q]) /\ Fresh(req[q]) /\ LocationOK(req[q]))'
<1>1. \A id \in ItemIds \ Held(req[p]) : Kept(id) \/ item[id] = None
      BY DEF Kept, Live, SameStock
<1>2. \A id \in Held(req[p]) : id \in ItemIds /\ item[id] # None
      BY DEF Held, Fresh, IInv
<1>3. \A id \in Held(req[p]) : item'[id] # None
      BY <1>2
<1>4. /\ Idle \in Request /\ RequestOK(Idle) /\ Held(Idle) = {} /\ Idle.loc = None
      /\ req' = [req EXCEPT ![p] = Idle]
      BY IdleOK DEF Idle, Done
<1>5. PICK r \in Request : r = Idle
      BY <1>4
<1> QED BY <1>1, <1>3, <1>4, <1>5, WriterRequests

\* Rows change, locations do not.
LEMMA RowsStep ==
    ASSUME IInv, Next, UNCHANGED location, req' \in [Procs -> Request],
           \A q \in Procs : (RequestOK(req[q]) /\ Fresh(req[q]) /\ LocationOK(req[q]))',
           item' \in [ItemIds -> Row \cup {None, Gone}],
           movements' \in [ItemIds -> Seq(MovementRow)],
           \A id \in ItemIds : item'[id] = item[id] \/ (Live(id)' => Refers(item'[id].location)),
           \A id \in ItemIds : (item'[id] = item[id] /\ movements'[id] = movements[id]) \/ ItemOK(id)'
    PROVE  IInv'
<1>1. disturbed \subseteq disturbed' /\ Exclusive'
      BY OverlapMarked
<1>2. TypeOK'
      BY DEF IInv, TypeOK, Live, Refers, Standing
<1>3. \A id \in ItemIds : ItemOK(id)'
      BY ItemKept
<1> QED BY <1>1, <1>2, <1>3 DEF IInv

LEMMA UpdateCommitStep ==
    ASSUME IInv, Next, NEW p \in Procs, UpdateCommit(p)
    PROVE  IInv'
<1> DEFINE r == req[p]
<1>1. r \in Request /\ r.pc = "updating" /\ r.dto \in UpdateDtos /\ HoldsOne(r) /\ Fresh(r)
      BY DEF UpdateCommit, At, IInv, TypeOK, RequestOK
<1>2. PICK id \in ItemIds : Held(r) = {id}
      BY <1>1 DEF HoldsOne
<1> DEFINE row  == item[id]
           read == r.read[id]
           base == Restated(row, r.dto, Len(movements[id]))
           new  == Edited(row, read, r.dto, Len(movements[id]))
<1>3. /\ Live(id) /\ Refers(r.dto.location) /\ item' = [item EXCEPT ![id] = new]
      /\ Done(p) /\ UNCHANGED <<movements, location>>
      BY <1>2 DEF UpdateCommit, ReadBy, Held
<1>4. /\ row \in Row /\ read \in Row /\ Refers(row.location)
      /\ movements[id] \in Seq(MovementRow) /\ DutyRight(row, movements[id])
      BY <1>1, <1>2, <1>3 DEF IInv, TypeOK, Live, Request, Held, ItemOK
<1>5. /\ new \in Row /\ Refers(new.location)
      /\ new.quantity = Given(r.dto.quantity, row.quantity)
      /\ new.releasedQty = row.releasedQty
      /\ new.stockBalance = IF r.dto.quantity = None THEN row.stockBalance
                            ELSE Max({0, r.dto.quantity - read.releasedQty})
      /\ DutyRight(new, movements[id])
  <2> DEFINE left == Max({0, r.dto.quantity - read.releasedQty})
  <2>1. r.dto.quantity # None => r.dto.quantity \in Nat /\ left \in Nat
    <3>1. r.dto.quantity # None => r.dto.quantity \in Nat
          BY <1>1
    <3>2. r.dto.quantity # None => r.dto.quantity - read.releasedQty \in Int
          BY <3>1, <1>4 DEF Row
    <3> QED BY <3>1, <3>2, StockLeft
  <2>2. r.dto.duty \in Duties \cup {None}
        BY <1>1
  <2>3. PICK b : b = base
        OBVIOUS
  <2>4. PICK dto : dto = r.dto
        OBVIOUS
  <2>5. /\ b \in Row /\ Refers(b.location) /\ SameStock(b, row)
        /\ DutyRight(b, movements[id])
        BY <1>3, <1>4, <2>2, <2>3, <2>4, RestatedOK
  <2> HIDE DEF left, base
  <2>6. new = [b EXCEPT !.quantity = Given(r.dto.quantity, @),
                        !.stockBalance = IF r.dto.quantity = None THEN @ ELSE left]
        BY <2>3 DEF Edited, left, base
  <2> HIDE DEF new, row, read, r
  <2>7. PICK quantity, balance :
          /\ quantity = Given(r.dto.quantity, b.quantity)
          /\ balance = IF r.dto.quantity = None THEN b.stockBalance ELSE left
        OBVIOUS
  <2>8. quantity \in Int /\ balance \in Int
        BY <2>1, <2>5, <2>7 DEF Row, Given
  <2>9. new = [b EXCEPT !.quantity = quantity, !.stockBalance = balance]
        BY <2>5, <2>6, <2>7 DEF Row
  <2>10. /\ new \in Row /\ new.location = b.location
         /\ new.quantity = quantity /\ new.releasedQty = b.releasedQty
         /\ new.stockBalance = balance
         /\ new.duty = b.duty /\ new.stated = b.stated /\ new.since = b.since
        BY <2>5, <2>8, <2>9 DEF Row
  <2>11. DutyRight(new, movements[id])
        BY <2>5, <2>10 DEF DutyRight
  <2> QED BY <2>5, <2>7, <2>10, <2>11 DEF left, SameStock
<1>6. item' \in [ItemIds -> Row \cup {None, Gone}] /\ item'[id] = new
      /\ \A i \in ItemIds \ {id} : item'[i] = item[i]
  <2> HIDE DEF new
  <2> QED BY <1>3, <1>5 DEF IInv, TypeOK
<1>7. ItemOK(id)'
  <2>1. new # None
        BY <1>5
  <2>2. DutyRight(new, movements[id])
        BY <1>5
  <2>3. id \notin disturbed' => StockRight(new, movements[id])
    <3> SUFFICES ASSUME id \notin disturbed' PROVE StockRight(new, movements[id])
        OBVIOUS
    <3>1. id \notin disturbed
          BY OverlapMarked
    <3>2. StockRight(row, movements[id]) /\ row.releasedQty = read.releasedQty
          BY <3>1, <1>1, <1>2, <1>3 DEF IInv, ItemOK, Fresh, SameStock
    <3>3. r.dto.quantity # None => r.dto.quantity \in Nat
          BY <1>1
    <3> HIDE DEF new, row, read, r
    <3>4. CASE r.dto.quantity = None
      <4>1. /\ new.quantity = row.quantity /\ new.releasedQty = row.releasedQty
            /\ new.stockBalance = row.stockBalance
            BY <3>4, <1>5 DEF Given
      <4> QED BY <4>1, <3>2 DEF StockRight
    <3>5. CASE r.dto.quantity # None
      <4>1. /\ new.quantity = r.dto.quantity /\ new.releasedQty = read.releasedQty
            /\ new.stockBalance = Max({0, new.quantity - new.releasedQty})
            /\ new.quantity >= 0
            BY <3>2, <3>3, <3>5, <1>5 DEF Given
      <4> QED BY <4>1, <3>2 DEF StockRight
    <3> QED BY <3>4, <3>5
  <2> QED BY <2>1, <2>2, <2>3, <1>3, <1>6 DEF ItemOK
<1>8. /\ req' \in [Procs -> Request]
      /\ \A q \in Procs : (RequestOK(req[q]) /\ Fresh(req[q]) /\ LocationOK(req[q]))'
  <2>1. /\ \A i \in ItemIds : item'[i] # None \/ item'[i] = item[i]
        /\ \A i \in ItemIds \ Held(req[p]) : item'[i] = item[i]
        /\ \A l \in LocationIds \ {req[p].loc} : LocationKept(l)
    <3> HIDE DEF new
    <3> QED BY <1>2, <1>3, <1>5, <1>6 DEF LocationKept
  <2> QED BY <2>1, <1>3, CommitRequests
<1> HIDE DEF new
<1>9. /\ movements' \in [ItemIds -> Seq(MovementRow)]
      /\ \A i \in ItemIds : item'[i] = item[i] \/ (Live(i)' => Refers(item'[i].location))
      /\ \A i \in ItemIds : (item'[i] = item[i] /\ movements'[i] = movements[i]) \/ ItemOK(i)'
      BY <1>3, <1>5, <1>6, <1>7 DEF IInv, TypeOK
<1> QED BY <1>3, <1>6, <1>8, <1>9, RowsStep

LEMMA MoveCommitStep ==
    ASSUME IInv, Next, NEW p \in Procs, MoveCommit(p)
    PROVE  IInv'
<1> DEFINE r   == req[p]
           dto == r.dto
<1>1. r \in Request /\ r.pc = "moving" /\ MoveOK(r) /\ Fresh(r)
      BY DEF MoveCommit, At, IInv, TypeOK, RequestOK
<1>2. PICK id \in ItemIds : Held(r) = {id}
      BY <1>1 DEF MoveOK, HoldsOne
<1> DEFINE row  == item[id]
           read == r.read[id]
           new  == Moved(row, read, dto, r.loc)
           log  == Movement(dto.type, dto.quantity, dto.dutyPaid)
<1>3. /\ Live(id) /\ Refers(dto.to) /\ Refers(r.loc)
      /\ item' = [item EXCEPT ![id] = new]
      /\ movements' = [movements EXCEPT ![id] = Append(@, log)]
      /\ Done(p) /\ UNCHANGED location
      BY <1>2 DEF MoveCommit, ReadBy, Held
<1>4. row \in Row /\ read \in Row /\ Refers(row.location)
      BY <1>1, <1>2, <1>3 DEF IInv, TypeOK, Live, Request, Held
<1>5. /\ dto \in MovementDto
      /\ dto.type = "RELEASE" => dto.quantity <= read.stockBalance
      BY <1>1, <1>2 DEF MoveOK
<1>6. /\ new \in Row /\ Refers(new.location)
      /\ new.quantity = row.quantity
      /\ IF dto.type = "RELEASE"
         THEN /\ new.releasedQty = read.releasedQty + dto.quantity
              /\ new.stockBalance = Remaining(read, dto.quantity)
         ELSE /\ new.releasedQty = row.releasedQty
              /\ new.stockBalance = row.stockBalance
      /\ new.duty = IF dto.type = "RELEASE" THEN Settled(row, dto.dutyPaid) ELSE row.duty
      /\ new.stated = row.stated /\ new.since = row.since
  <2>1. CASE dto.type = "RELEASE"
    <3>1. new = [row EXCEPT !.releasedQty  = read.releasedQty + dto.quantity,
                            !.stockBalance = Remaining(read, dto.quantity),
                            !.location     = Stored(row, r.loc),
                            !.duty         = Settled(row, dto.dutyPaid)]
          BY <2>1 DEF Moved
    <3>2. /\ read.releasedQty + dto.quantity \in Int
          /\ Remaining(read, dto.quantity) \in Int
      <4>1. dto.quantity \in Int
            BY <1>5 DEF MovementDto
      <4>2. read.releasedQty \in Int /\ read.quantity \in Int
            BY <1>4 DEF Row
      <4> QED BY <4>1, <4>2 DEF Remaining
    <3>3. /\ Stored(row, r.loc) \in LocationIds \cup {None}
          /\ Refers(Stored(row, r.loc))
          BY <1>3, <1>4 DEF Stored, Given, Row, Refers
    <3>4. Settled(row, dto.dutyPaid) \in Duties
          BY <1>4 DEF Settled, Row, Duties
    <3> HIDE DEF new, row, read, dto, r
    <3> QED BY <2>1, <3>1, <3>2, <3>3, <3>4, <1>4 DEF Row
  <2>2. CASE dto.type # "RELEASE"
    <3>1. new = [row EXCEPT !.location = Given(dto.to, row.location)]
          BY <2>2 DEF Moved
    <3>2. /\ Given(dto.to, row.location) \in LocationIds \cup {None}
          /\ Refers(Given(dto.to, row.location))
          BY <1>3, <1>4 DEF Given, Row, Refers
    <3> HIDE DEF new, row, read, dto, r
    <3> QED BY <2>2, <3>1, <3>2, <1>4 DEF Row
  <2> QED BY <2>1, <2>2
<1> HIDE DEF new
<1>7. /\ item' \in [ItemIds -> Row \cup {None, Gone}] /\ item'[id] = new
      /\ \A i \in ItemIds \ {id} : item'[i] = item[i]
      BY <1>3, <1>6 DEF IInv, TypeOK
<1>8. /\ movements' \in [ItemIds -> Seq(MovementRow)] /\ movements'[id] = Append(movements[id], log)
      /\ \A i \in ItemIds \ {id} : movements'[i] = movements[i]
      /\ movements[id] \in Seq(MovementRow) /\ log \in MovementRow
      /\ log.type = dto.type /\ log.quantity = dto.quantity /\ log.dutyPaid = dto.dutyPaid
  <2>1. /\ log \in MovementRow
        /\ log.type = dto.type /\ log.quantity = dto.quantity /\ log.dutyPaid = dto.dutyPaid
        BY <1>5 DEF Movement, MovementRow, MovementDto
  <2> HIDE DEF log
  <2> QED BY <2>1, <1>3 DEF IInv, TypeOK
<1> HIDE DEF log
<1>9. ItemOK(id)'
  <2>1. new # None
        BY <1>6
  <2>2. DutyRight(new, movements'[id])
    <3>1. DutyRight(row, movements[id])
          BY <1>3 DEF IInv, ItemOK
    <3>2. new.duty = IF PaidRelease(log) THEN "PAID" ELSE row.duty
          BY <1>5, <1>6, <1>8 DEF PaidRelease, Settled, MovementDto
    <3>3. PICK old, was, m : old = movements[id] /\ was = row /\ m = log
          OBVIOUS
    <3>4. /\ old \in Seq(MovementRow) /\ m \in MovementRow /\ movements'[id] = Append(old, m)
          /\ was \in Row /\ DutyRight(was, old)
          BY <1>4, <1>8, <3>1, <3>3
    <3>5. /\ new \in Row /\ new.stated = was.stated /\ new.since = was.since
          /\ new.duty = IF PaidRelease(m) THEN "PAID" ELSE was.duty
          BY <1>6, <3>2, <3>3
    <3> QED BY <3>4, <3>5, DutyAppended
  <2>3. id \notin disturbed' => StockRight(new, movements'[id])
    <3> SUFFICES ASSUME id \notin disturbed' PROVE StockRight(new, movements'[id])
        OBVIOUS
    <3>1. id \notin disturbed
          BY OverlapMarked
    <3>2. StockRight(row, movements[id]) /\ SameStock(row, read)
          BY <3>1, <1>1, <1>2, <1>3 DEF IInv, ItemOK, Fresh
    <3>3. Logged(movements'[id]) = Logged(movements[id]) + (IF dto.type = "RELEASE" THEN dto.quantity ELSE 0)
          BY <1>8, LoggedAppend
    <3> HIDE DEF row, read, dto, r
    <3>4. CASE dto.type = "RELEASE"
      <4>1. dto.quantity \in Nat \ {0} /\ dto.quantity <= row.stockBalance
            BY <3>2, <3>4, <1>5 DEF MovementDto, SameStock
      <4>2. /\ row.quantity \in Int /\ row.releasedQty \in Nat /\ row.stockBalance \in Int
            BY <3>2, <1>4 DEF Row, StockRight
      <4>3. /\ new.quantity = row.quantity
            /\ new.releasedQty = row.releasedQty + dto.quantity
            /\ new.stockBalance = row.quantity - (row.releasedQty + dto.quantity)
            BY <3>2, <3>4, <1>6 DEF SameStock, Remaining
      <4> QED BY <3>2, <3>3, <3>4, <4>1, <4>2, <4>3, ReleaseRight
    <3>5. CASE dto.type # "RELEASE"
      <4>1. Logged(movements'[id]) = Logged(movements[id])
            BY <3>3, <3>5, <1>8, LoggedAppend
      <4> QED BY <3>2, <3>5, <4>1, <1>6 DEF StockRight
    <3> QED BY <3>4, <3>5
  <2> QED BY <2>1, <2>2, <2>3, <1>7 DEF ItemOK
<1>10. /\ req' \in [Procs -> Request]
       /\ \A q \in Procs : (RequestOK(req[q]) /\ Fresh(req[q]) /\ LocationOK(req[q]))'
  <2>1. /\ \A i \in ItemIds : item'[i] # None \/ item'[i] = item[i]
        /\ \A i \in ItemIds \ Held(req[p]) : item'[i] = item[i]
        /\ \A l \in LocationIds \ {req[p].loc} : LocationKept(l)
        BY <1>2, <1>3, <1>6, <1>7 DEF LocationKept
  <2> QED BY <2>1, <1>3, CommitRequests
<1>11. /\ \A i \in ItemIds : item'[i] = item[i] \/ (Live(i)' => Refers(item'[i].location))
       /\ \A i \in ItemIds : (item'[i] = item[i] /\ movements'[i] = movements[i]) \/ ItemOK(i)'
       BY <1>6, <1>7, <1>8, <1>9
<1> QED BY <1>3, <1>7, <1>8, <1>10, <1>11, RowsStep

LEMMA BatchCommitStep ==
    ASSUME IInv, Next, NEW p \in Procs, BatchCommit(p)
    PROVE  IInv'
<1> DEFINE r == req[p]
           new(id) == Cleared(item[id], r.read[id], r.loc, r.dto.dutyPaid)
           log(id) == BatchMovement(r.read[id], r.dto.dutyPaid)
<1>1. /\ r \in Request /\ BatchOK(r) /\ r.dto \in BatchDtos /\ r.loc \in LocationIds /\ Fresh(r)
      BY DEF BatchCommit, At, IInv, TypeOK, RequestOK, Request, BatchOK
<1>2. /\ Standing(r.loc) /\ \A id \in Held(r) : Live(id)
      /\ item' = [id \in ItemIds |-> IF id \in Held(r) THEN new(id) ELSE item[id]]
      /\ movements' = [id \in ItemIds |-> IF id \in Held(r) THEN Append(movements[id], log(id))
                                          ELSE movements[id]]
      /\ Done(p) /\ UNCHANGED location
      BY DEF BatchCommit, ReadBy, Held
<1>3. ASSUME NEW id \in Held(r)
      PROVE  /\ new(id) \in Row /\ Refers(new(id).location) /\ log(id) \in MovementRow
             /\ new(id).quantity = item[id].quantity
             /\ new(id).releasedQty = r.read[id].quantity
             /\ new(id).stockBalance = 0
             /\ new(id).duty = Settled(item[id], r.dto.dutyPaid)
             /\ new(id).stated = item[id].stated /\ new(id).since = item[id].since
             /\ log(id).type = "RELEASE" /\ log(id).quantity = r.read[id].stockBalance
             /\ log(id).dutyPaid = r.dto.dutyPaid
  <2> DEFINE row  == item[id]
             read == r.read[id]
  <2>1. id \in ItemIds /\ row \in Row /\ read \in Row /\ read.quantity \in Int
        BY <1>1, <1>2 DEF IInv, TypeOK, Live, Request, Held, Row
  <2> DEFINE duty == Settled(row, r.dto.dutyPaid)
             left == 0
             loc  == r.loc
  <2>2. duty \in Duties /\ left \in Int /\ loc \in LocationIds \cup {None} /\ Refers(loc)
        BY <1>1, <1>2, <2>1 DEF Settled, Row, Duties, Refers
  <2>3. /\ log(id) \in MovementRow
        /\ log(id).type = "RELEASE" /\ log(id).quantity = read.stockBalance
        /\ log(id).dutyPaid = r.dto.dutyPaid
        BY <1>1, <2>1 DEF BatchMovement, Movement, MovementRow, Row
  <2>4. new(id) = [row EXCEPT !.releasedQty = read.quantity, !.stockBalance = left,
                              !.location = loc, !.duty = duty]
        BY DEF Cleared
  <2> HIDE DEF row, read, new, log, loc, duty, left
  <2>5. /\ new(id) \in Row /\ new(id).location = loc
        /\ new(id).quantity = row.quantity
        /\ new(id).releasedQty = read.quantity
        /\ new(id).stockBalance = left
        /\ new(id).duty = duty
        /\ new(id).stated = row.stated /\ new(id).since = row.since
        BY <2>1, <2>2, <2>4 DEF Row
  <2> QED BY <2>2, <2>3, <2>5 DEF row, read, left, duty
<1> HIDE DEF new, log
<1>4. /\ item' \in [ItemIds -> Row \cup {None, Gone}]
      /\ \A id \in ItemIds : item'[id] = IF id \in Held(r) THEN new(id) ELSE item[id]
      BY <1>2, <1>3 DEF IInv, TypeOK
<1>5. /\ movements' \in [ItemIds -> Seq(MovementRow)]
      /\ \A id \in ItemIds : /\ movements[id] \in Seq(MovementRow)
                            /\ movements'[id] = IF id \in Held(r) THEN Append(movements[id], log(id))
                                                ELSE movements[id]
      BY <1>2, <1>3 DEF IInv, TypeOK
<1>6. ASSUME NEW id \in Held(r)
      PROVE  ItemOK(id)'
  <2>1. PICK row, read, w, m :
           row = item[id] /\ read = r.read[id] /\ w = new(id) /\ m = log(id)
        OBVIOUS
  <2>2. /\ id \in ItemIds /\ Live(id) /\ row \in Row
        /\ item'[id] = w /\ movements'[id] = Append(movements[id], m)
        /\ movements[id] \in Seq(MovementRow) /\ m \in MovementRow
        BY <1>2, <1>3, <1>4, <1>5, <2>1 DEF Held, IInv, TypeOK, Live
  <2>3. w # None
        BY <1>3, <2>1
  <2>4. DutyRight(w, movements'[id])
    <3>1. DutyRight(row, movements[id])
          BY <2>1, <2>2 DEF IInv, ItemOK
    <3>2. w \in Row /\ w.stated = row.stated /\ w.since = row.since
          BY <1>3, <2>1
    <3>3. w.duty = IF PaidRelease(m) THEN "PAID" ELSE row.duty
          BY <1>3, <2>1 DEF PaidRelease, Settled
    <3> QED BY <3>1, <3>2, <3>3, <2>2, DutyAppended
  <2>5. id \notin disturbed' => StockRight(w, movements'[id])
    <3> SUFFICES ASSUME id \notin disturbed' PROVE StockRight(w, movements'[id])
        OBVIOUS
    <3>1. StockRight(row, movements[id]) /\ SameStock(row, read) /\ read.stockBalance > 0
          BY OverlapMarked, <1>1, <2>1, <2>2 DEF IInv, ItemOK, Fresh, BatchOK
    <3>2. Logged(movements'[id]) = Logged(movements[id]) + read.stockBalance
          BY <1>3, <2>1, <2>2, LoggedAppend
    <3>3. row.quantity \in Int /\ row.releasedQty \in Nat /\ row.stockBalance \in Int
          BY <2>2, <3>1 DEF Row, StockRight
    <3>4. PICK n \in Nat \ {0} : n = row.stockBalance
          BY <3>1, <3>3 DEF SameStock
    <3>5. row.quantity = row.releasedQty + n
      <4>1. row.quantity >= 0 /\ n = Max({0, row.quantity - row.releasedQty})
            BY <3>1, <3>3, <3>4 DEF StockRight
      <4>2. row.quantity - row.releasedQty \in Int
            BY <3>3
      <4>3. n = row.quantity - row.releasedQty
            BY <4>1, <4>2, <3>4, StockLeft
      <4> QED BY <4>3, <3>3
    <3>6. /\ w.quantity = row.quantity /\ w.releasedQty = row.releasedQty + n
          /\ w.stockBalance = row.quantity - (row.releasedQty + n)
          /\ n <= row.stockBalance
          /\ Logged(movements'[id]) = Logged(movements[id]) + n
      <4>1. w.quantity = row.quantity /\ w.releasedQty = read.quantity /\ w.stockBalance = 0
            BY <1>3, <2>1
      <4>2. read.quantity = row.quantity /\ read.stockBalance = n
            BY <3>1, <3>4 DEF SameStock
      <4> QED BY <4>1, <4>2, <3>2, <3>3, <3>4, <3>5
    <3> QED BY <3>1, <3>3, <3>6, ReleaseRight
  <2> QED BY <2>2, <2>3, <2>4, <2>5 DEF ItemOK
<1>7. /\ req' \in [Procs -> Request]
      /\ \A q \in Procs : (RequestOK(req[q]) /\ Fresh(req[q]) /\ LocationOK(req[q]))'
  <2>1. /\ \A i \in ItemIds : item'[i] # None \/ item'[i] = item[i]
        /\ \A i \in ItemIds \ Held(req[p]) : item'[i] = item[i]
        /\ \A l \in LocationIds \ {req[p].loc} : LocationKept(l)
        BY <1>2, <1>3, <1>4 DEF LocationKept
  <2> QED BY <2>1, <1>2, CommitRequests
<1>8. /\ \A i \in ItemIds : item'[i] = item[i] \/ (Live(i)' => Refers(item'[i].location))
      /\ \A i \in ItemIds : (item'[i] = item[i] /\ movements'[i] = movements[i]) \/ ItemOK(i)'
      BY <1>3, <1>4, <1>5, <1>6, <1>2 DEF Refers, Standing
<1> QED BY <1>2, <1>4, <1>5, <1>7, <1>8, RowsStep

\* Locations change, rows do not.
LEMMA LocationsStep ==
    ASSUME IInv, Next, UNCHANGED <<item, movements>>, req' \in [Procs -> Request],
           \A q \in Procs : (RequestOK(req[q]) /\ Fresh(req[q]) /\ LocationOK(req[q]))',
           NEW l \in LocationIds, NEW name \in Names \cup {"KWB"},
           location' = [location EXCEPT ![l] = name]
    PROVE  IInv'
<1>1. disturbed \subseteq disturbed' /\ Exclusive'
      BY OverlapMarked
<1>2. /\ location \in [LocationIds -> Names \cup {"KWB", None, Gone}]
      /\ location' \in [LocationIds -> Names \cup {"KWB", None, Gone}]
      /\ location'[l] = name /\ \A m \in LocationIds \ {l} : location'[m] = location[m]
      BY DEF IInv, TypeOK
<1>3. \A m \in LocationIds : Standing(m) => Standing(m)'
      BY <1>2 DEF Standing
<1>4. TypeOK'
  <2>1. \A m : Refers(m) => Refers(m)'
        BY <1>3 DEF Refers
  <2> QED BY <1>2, <2>1 DEF IInv, TypeOK, Live
<1>5. \A id \in ItemIds : ItemOK(id)'
      BY ItemKept
<1> QED BY <1>1, <1>4, <1>5 DEF IInv

LEMMA AddLocationStep ==
    ASSUME IInv, Next, NEW p \in Procs, NEW l \in LocationIds, AddLocation(p, l)
    PROVE  IInv'
<1>1. PICK r, name : r = Found(p, l) /\ name = Sought(req[p])
      OBVIOUS
<1>2. /\ req[p].pc = "adding" /\ location[l] = None
      /\ location' = [location EXCEPT ![l] = name]
      /\ UNCHANGED <<item, movements>>
      BY <1>1 DEF AddLocation, At
<1>3. req' = [req EXCEPT ![p] = r]
      BY <1>1 DEF AddLocation, IInv, TypeOK, Found
<1>4. /\ r \in Request /\ RequestOK(r) /\ Fresh(r) /\ r.loc = l /\ Sought(r) = name
      /\ name \in Names \cup {"KWB"}
  <2>1. req[p].pc \in {"finding", "adding"}
        BY <1>2
  <2> QED BY <1>1, <2>1, FoundOK
<1>5. req' \in [Procs -> Request] /\ req'[p] = r /\ \A q \in Procs \ {p} : req'[q] = req[q]
      BY <1>3, <1>4 DEF IInv, TypeOK
<1>6. location'[l] = name /\ \A m \in LocationIds \ {l} : location'[m] = location[m]
      BY <1>2 DEF IInv, TypeOK
<1>7. (RequestOK(req[p]) /\ Fresh(req[p]) /\ LocationOK(req[p]))'
  <2>1. RequestOK(req[p])'
        BY <1>4, <1>5 DEF RequestOK, MoveOK, HoldsOne, TakesLast, BatchOK, SheetOK, RowOK, Importing, Held, Remaining
  <2>2. Fresh(req[p])'
        BY <1>2, <1>4, <1>5, OverlapMarked DEF Fresh, Live, Held, SameStock
  <2>3. LocationOK(req[p])'
        BY <1>4, <1>5, <1>6 DEF LocationOK, Sought, Importing
  <2> QED BY <2>1, <2>2, <2>3
<1>8. ASSUME NEW q \in Procs \ {p}
      PROVE  (RequestOK(req[q]) /\ Fresh(req[q]) /\ LocationOK(req[q]))'
  <2>1. \A id \in Held(req[q]) : Kept(id)
        BY <1>2 DEF Kept, Live, SameStock, IInv, Fresh
  <2>2. req[q].loc # None => LocationKept(req[q].loc)
        BY <1>2, <1>6 DEF LocationKept, IInv, TypeOK, Request
  <2> QED BY <1>5, <2>1, <2>2, RequestKept
<1>9. \A q \in Procs : (RequestOK(req[q]) /\ Fresh(req[q]) /\ LocationOK(req[q]))'
      BY <1>7, <1>8
<1> QED BY <1>2, <1>4, <1>5, <1>9, LocationsStep

LEMMA NameCommitStep ==
    ASSUME IInv, Next, NEW p \in Procs, NameCommit(p)
    PROVE  IInv'
<1> DEFINE name == req[p].dto.name
<1>1. name \in Names
      BY DEF NameCommit, At, IInv, RequestOK
<1>2. PICK l \in LocationIds :
         /\ IF req[p].loc = None THEN location[l] = None ELSE l = req[p].loc /\ Standing(l)
         /\ location' = [location EXCEPT ![l] = name]
      BY DEF NameCommit
<1>3. Done(p) /\ UNCHANGED <<item, movements>>
      BY DEF NameCommit
<1> HIDE DEF name
<1>4. /\ location'[l] = name
      /\ \A m \in LocationIds \ {l} : location'[m] = location[m]
      BY <1>2 DEF IInv, TypeOK
<1>6. /\ req' \in [Procs -> Request]
      /\ \A q \in Procs : (RequestOK(req[q]) /\ Fresh(req[q]) /\ LocationOK(req[q]))'
  <2>1. \A m \in LocationIds \ {req[p].loc} : LocationKept(m)
        BY <1>2, <1>4 DEF LocationKept
  <2>2. \A id \in ItemIds : item'[id] = item[id]
        BY <1>3
  <2> QED BY <1>3, <2>1, <2>2, CommitRequests
<1> QED BY <1>1, <1>2, <1>3, <1>6, LocationsStep

----------------------------------------------------------------------------
(* Operations that happen at once *)

\* Requests are as they were when no row is changed that one of them holds.
LEMMA RequestsKept ==
    ASSUME IInv, Next, UNCHANGED req,
           \A id \in ItemIds : item[id] # None => Kept(id),
           \A l \in LocationIds : LocationKept(l)
    PROVE  /\ req' \in [Procs -> Request]
           /\ \A q \in Procs : (RequestOK(req[q]) /\ Fresh(req[q]) /\ LocationOK(req[q]))'
<1>1. ASSUME NEW q \in Procs
      PROVE  (RequestOK(req[q]) /\ Fresh(req[q]) /\ LocationOK(req[q]))'
  <2>1. \A id \in Held(req[q]) : Kept(id)
        BY DEF IInv, Fresh, Held
  <2>2. req[q].loc # None => LocationKept(req[q].loc)
        BY DEF IInv, TypeOK, Request
  <2> QED BY <2>1, <2>2, RequestKept
<1> QED BY <1>1 DEF IInv, TypeOK

\* A row as it comes, also one that came with less than nothing.
LEMMA ReceivedOK ==
    ASSUME NEW dto, dto.bl \in Bls, dto.quantity \in Int \cup {None},
           NEW loc \in LocationIds \cup {None}, NEW duty \in Duties,
           NEW new, new = ReceivedRow(dto, loc, duty)
    PROVE  /\ new \in Row /\ new.location = loc /\ new.releasedQty = 0
           /\ new.stockBalance = new.quantity /\ new.duty = new.stated /\ new.since = 0
<1>1. PICK n : n = Given(dto.quantity, 1)
      OBVIOUS
<1>2. n \in Int
      BY <1>1 DEF Given
<1> QED BY <1>1, <1>2 DEF ReceivedRow, Row

LEMMA ReceivedRight ==
    ASSUME NEW new, new \in Row, new.releasedQty = 0, new.stockBalance = new.quantity,
           new.duty = new.stated, new.since = 0
    PROVE  StockRight(new, <<>>) /\ DutyRight(new, <<>>)
<1>1. /\ new.quantity \in Int /\ new.releasedQty \in Nat /\ new.releasedQty = Logged(<<>>)
      /\ new.quantity - new.releasedQty = new.quantity
      BY LoggedNothing DEF Row
<1>2. PICK n \in Int : n = new.quantity
      BY <1>1
<1>3. n >= 0 => Max({0, n}) = n
      BY StockLeft
<1>4. StockRight(new, <<>>)
  <2>1. new.quantity - new.releasedQty = n
        BY <1>1, <1>2
  <2>2. PICK k : k = Max({0, new.quantity - new.releasedQty})
        OBVIOUS
  <2>3. n >= 0 => new.stockBalance = k
        BY <1>2, <1>3, <2>1, <2>2
  <2>4. IF new.quantity >= 0 THEN new.stockBalance = k ELSE new.stockBalance < 0
        BY <1>2, <2>3
  <2> QED BY <1>1, <2>2, <2>4 DEF StockRight
<1>5. DutyRight(new, <<>>)
      BY DEF DutyRight
<1> QED BY <1>4, <1>5

LEMMA CreateStep ==
    ASSUME IInv, Next, NEW dto \in CreateDtos, Create(dto)
    PROVE  IInv'
<1>1. PICK ids \in [DOMAIN dto -> ItemIds] :
         /\ \A i \in DOMAIN dto : item[ids[i]] = None
         /\ \A i \in DOMAIN dto : Refers(dto[i].location)
         /\ item' = [id \in ItemIds |->
                IF \E i \in DOMAIN dto : ids[i] = id
                THEN DeliveredRow(dto[CHOOSE i \in DOMAIN dto : ids[i] = id])
                ELSE item[id]]
         /\ UNCHANGED <<movements, location, req>>
      BY DEF Create
<1>2. ASSUME NEW id \in ItemIds
      PROVE  \/ item'[id] = item[id]
             \/ /\ item[id] = None /\ item'[id] \in Row
                /\ Refers(item'[id].location)
                /\ item'[id].releasedQty = 0
                /\ item'[id].stockBalance = item'[id].quantity
                /\ item'[id].duty = item'[id].stated /\ item'[id].since = 0
  <2>1. CASE \E i \in DOMAIN dto : ids[i] = id
    <3> DEFINE i == CHOOSE j \in DOMAIN dto : ids[j] = id
    <3>1. i \in DOMAIN dto /\ ids[i] = id
          BY <2>1
    <3>2. item[id] = None /\ item'[id] = DeliveredRow(dto[i]) /\ Refers(dto[i].location)
          BY <2>1, <3>1, <1>1
    <3>3. dto[i] \in ReceiptDto
          BY <3>1
    <3> HIDE DEF i
    <3>4. PICK one, loc, duty : /\ one = dto[i] /\ loc = one.location
                                /\ duty = Given(one.duty, "UNPAID")
          OBVIOUS
    <3>5. /\ one.bl \in Bls /\ one.quantity \in Int \cup {None}
          /\ loc \in LocationIds \cup {None} /\ duty \in Duties /\ Refers(loc)
          BY <3>2, <3>3, <3>4 DEF ReceiptDto, Duties, Given
    <3>6. PICK new : new = ReceivedRow(one, loc, duty)
          OBVIOUS
    <3>7. item'[id] = new
          BY <3>2, <3>4, <3>6 DEF DeliveredRow
    <3> QED BY <3>2, <3>5, <3>6, <3>7, ReceivedOK
  <2>2. CASE ~\E i \in DOMAIN dto : ids[i] = id
        BY <2>2, <1>1
  <2> QED BY <2>1, <2>2
<1>3. item' \in [ItemIds -> Row \cup {None, Gone}]
  <2>1. DOMAIN item' = ItemIds /\ item' = [id \in ItemIds |-> item'[id]]
        BY <1>1
  <2>2. \A id \in ItemIds : item'[id] \in Row \cup {None, Gone}
        BY <1>2 DEF IInv, TypeOK
  <2> QED BY <2>1, <2>2
<1>4. /\ \A id \in ItemIds : item[id] # None => Kept(id)
      /\ \A l \in LocationIds : LocationKept(l)
      BY <1>1, <1>2 DEF Kept, LocationKept, Live, SameStock
<1>5. \A id \in ItemIds : item'[id] = item[id] \/ (Live(id)' => Refers(item'[id].location))
      BY <1>2
<1>6. ASSUME NEW id \in ItemIds
      PROVE  (item'[id] = item[id] /\ movements'[id] = movements[id]) \/ ItemOK(id)'
  <2>1. CASE item'[id] # item[id]
    <3>1. item'[id] \in Row /\ StockRight(item'[id], <<>>) /\ DutyRight(item'[id], <<>>)
          BY <2>1, <1>2, ReceivedRight
    <3>2. movements'[id] = <<>>
          BY <2>1, <1>1, <1>2 DEF IInv, ItemOK
    <3> QED BY <3>1, <3>2 DEF ItemOK
  <2> QED BY <2>1, <1>1
<1>7. UNCHANGED <<movements, location, req>> /\ movements \in [ItemIds -> Seq(MovementRow)]
      BY <1>1 DEF IInv, TypeOK
<1> QED BY <1>3, <1>4, <1>5, <1>6, <1>7, RequestsKept, RowsStep

LEMMA ImportInsertStep ==
    ASSUME IInv, Next, NEW p \in Procs, NEW id \in ItemIds, ImportInsert(p, id)
    PROVE  IInv'
<1>1. PICK rows : rows = req[p].dto.rows
      OBVIOUS
<1>2. /\ req[p] \in Request /\ RowOK(req[p]) /\ req[p].pc = "inserting"
      /\ rows \in Seq(SheetRow) /\ rows # <<>> /\ Head(rows).bl \in Bls
      BY <1>1 DEF ImportInsert, At, IInv, TypeOK, RequestOK, RowOK, SheetOK
<1>3. PICK new, r :
        /\ new = ReceivedRow(Head(rows), req[p].loc, "UNPAID")
        /\ r = [Idle EXCEPT !.pc = "importing", !.dto = [rows |-> Tail(rows)]]
      OBVIOUS
<1>4. /\ item[id] = None /\ Refers(req[p].loc) /\ item' = [item EXCEPT ![id] = new]
      /\ req' = [req EXCEPT ![p] = r] /\ UNCHANGED <<movements, location>>
      BY <1>1, <1>3 DEF ImportInsert, Placed
<1>5. Head(rows) \in SheetRow /\ Tail(rows) \in Seq(SheetRow)
      BY <1>2
<1>6. Head(rows).quantity \in Int \cup {None} /\ req[p].loc \in LocationIds \cup {None}
      BY <1>2, <1>5 DEF SheetRow, Request
<1>7. PICK row : row = Head(rows)
      OBVIOUS
<1>8. /\ new \in Row /\ new.location = req[p].loc /\ new.releasedQty = 0
      /\ new.stockBalance = new.quantity /\ new.duty = new.stated /\ new.since = 0
  <2>1. PICK duty \in Duties : duty = "UNPAID"
        BY DEF Duties
  <2> QED BY <1>2, <1>3, <1>6, <1>7, <2>1, ReceivedOK
<1>9. /\ item' \in [ItemIds -> Row \cup {None, Gone}] /\ item'[id] = new
      /\ \A i \in ItemIds \ {id} : item'[i] = item[i]
      BY <1>4, <1>8 DEF IInv, TypeOK
<1>10. ItemOK(id)'
  <2>1. StockRight(new, <<>>) /\ DutyRight(new, <<>>)
        BY <1>8, ReceivedRight
  <2>2. movements'[id] = <<>>
        BY <1>4 DEF IInv, ItemOK
  <2> QED BY <1>8, <1>9, <2>1, <2>2 DEF ItemOK
<1>11. /\ req' \in [Procs -> Request]
       /\ \A q \in Procs : (RequestOK(req[q]) /\ Fresh(req[q]) /\ LocationOK(req[q]))'
  <2>1. /\ r \in Request /\ r.pc = "importing" /\ r.dto = [rows |-> Tail(rows)] /\ r.loc = None
        /\ r.read = Idle.read
        BY <1>3, <1>5, IdleOK DEF Request, Idle
  <2>2. Held(r) = {} /\ RequestOK(r)
        BY <2>1, <1>5, IdleOK DEF Held, RequestOK, SheetOK
  <2>3. /\ \A i \in ItemIds \ Held(req[p]) : Kept(i) \/ item[i] = None
        /\ \A l \in LocationIds \ {req[p].loc} : LocationKept(l)
        BY <1>4, <1>9 DEF Kept, Live, SameStock, LocationKept
  <2>4. \A i \in Held(req[p]) : item'[i] # None
    <3>1. \A i \in Held(req[p]) : i \in ItemIds /\ item[i] # None
          BY DEF Held, IInv, Fresh
    <3> QED BY <3>1, <1>4, <1>9
  <2> QED BY <1>4, <2>1, <2>2, <2>3, <2>4, WriterRequests
<1>12. /\ \A i \in ItemIds : item'[i] = item[i] \/ (Live(i)' => Refers(item'[i].location))
       /\ \A i \in ItemIds : (item'[i] = item[i] /\ movements'[i] = movements[i]) \/ ItemOK(i)'
       BY <1>4, <1>8, <1>9, <1>10
<1>13. UNCHANGED location /\ movements' \in [ItemIds -> Seq(MovementRow)]
       BY <1>4 DEF IInv, TypeOK
<1> QED BY <1>9, <1>11, <1>12, <1>13, RowsStep

LEMMA RemoveItemStep ==
    ASSUME IInv, Next, NEW id \in ItemIds, RemoveItem(id)
    PROVE  IInv'
<1>1. /\ item' = [item EXCEPT ![id] = Gone] /\ movements' = [movements EXCEPT ![id] = <<>>]
      /\ UNCHANGED <<location, req>>
      BY DEF RemoveItem
<1>2. /\ item' \in [ItemIds -> Row \cup {None, Gone}]
      /\ movements' \in [ItemIds -> Seq(MovementRow)]
      /\ \A i \in ItemIds : item'[i] = item[i] \/ item'[i] = Gone
      /\ \A i \in ItemIds \ {id} : item'[i] = item[i] /\ movements'[i] = movements[i]
      /\ item'[id] = Gone
      BY <1>1 DEF IInv, TypeOK
<1>3. \A i \in ItemIds : item'[i] = item[i] \/ ~Live(i)'
      BY <1>2 DEF Live
<1>4. /\ \A i \in ItemIds : item[i] # None => Kept(i)
      /\ \A l \in LocationIds : LocationKept(l)
      BY <1>1, <1>2 DEF Kept, LocationKept, Live, SameStock
<1>5. \A i \in ItemIds : (item'[i] = item[i] /\ movements'[i] = movements[i]) \/ ItemOK(i)'
  <2>1. ItemOK(id)'
        BY <1>2 DEF ItemOK, Live
  <2> QED BY <2>1, <1>2
<1> QED BY <1>1, <1>2, <1>3, <1>4, <1>5, RequestsKept, RowsStep

LEMMA UpdateShipmentStep ==
    ASSUME IInv, Next, NEW dto \in HeaderDtos, UpdateShipment(dto)
    PROVE  IInv'
<1>1. /\ Refers(dto.location) /\ UNCHANGED <<movements, location, req>>
      /\ item' = [id \in ItemIds |->
            IF id \notin OfShipment(dto.bl) THEN item[id]
            ELSE Restated(item[id], dto, Len(movements[id]))]
      BY DEF UpdateShipment
<1>2. ASSUME NEW id \in ItemIds
      PROVE  \/ item'[id] = item[id]
             \/ /\ Live(id) /\ item'[id] \in Row /\ Refers(item'[id].location)
                /\ SameStock(item'[id], item[id])
                /\ DutyRight(item'[id], movements[id])
  <2> SUFFICES ASSUME id \in OfShipment(dto.bl)
               PROVE  /\ Live(id) /\ item'[id] \in Row /\ Refers(item'[id].location)
                      /\ SameStock(item'[id], item[id])
                      /\ DutyRight(item'[id], movements[id])
      BY <1>1
  <2>1. PICK row, log, new : /\ row = item[id] /\ log = movements[id]
                             /\ new = Restated(row, dto, Len(log))
        OBVIOUS
  <2>2. /\ Live(id) /\ row \in Row /\ Refers(row.location)
        /\ log \in Seq(MovementRow) /\ DutyRight(row, log)
        BY <2>1 DEF OfShipment, IInv, TypeOK, Live, ItemOK
  <2>3. item'[id] = new /\ dto.duty \in Duties \cup {None}
        BY <1>1, <2>1
  <2> QED BY <1>1, <2>1, <2>2, <2>3, RestatedOK
<1>3. item' \in [ItemIds -> Row \cup {None, Gone}]
  <2>1. item' = [id \in ItemIds |-> item'[id]]
        BY <1>1
  <2>2. \A id \in ItemIds : item'[id] \in Row \cup {None, Gone}
        BY <1>2 DEF IInv, TypeOK
  <2> QED BY <2>1, <2>2
<1>4. /\ \A id \in ItemIds : item[id] # None => Kept(id)
      /\ \A l \in LocationIds : LocationKept(l)
      BY <1>1, <1>2 DEF Kept, LocationKept, Live, SameStock
<1>5. ASSUME NEW id \in ItemIds
      PROVE  (item'[id] = item[id] /\ movements'[id] = movements[id]) \/ ItemOK(id)'
  <2>1. CASE item'[id] # item[id]
        BY <2>1, <1>1, <1>2, ItemSame
  <2> QED BY <2>1, <1>1
<1>6. \A id \in ItemIds : item'[id] = item[id] \/ (Live(id)' => Refers(item'[id].location))
      BY <1>2
<1>7. UNCHANGED <<movements, location, req>> /\ movements \in [ItemIds -> Seq(MovementRow)]
      BY <1>1 DEF IInv, TypeOK
<1> QED BY <1>3, <1>4, <1>5, <1>6, <1>7, RequestsKept, RowsStep

\* Nothing or a location that is still there after the step.
RefersNext(l) == l \in {None} \cup {m \in LocationIds : Standing(m)'}

LEMMA RemoveLocationStep ==
    ASSUME IInv, Next, NEW l \in LocationIds, RemoveLocation(l)
    PROVE  IInv'
<1>1. /\ location' = [location EXCEPT ![l] = Gone] /\ UNCHANGED <<movements, req>>
      /\ item' = [id \in ItemIds |->
            IF Live(id) THEN [item[id] EXCEPT !.location = Unlinked(l, @)] ELSE item[id]]
      BY DEF RemoveLocation
<1>2. /\ location' \in [LocationIds -> Names \cup {"KWB", None, Gone}] /\ location'[l] = Gone
      /\ \A m \in LocationIds \ {l} : location'[m] = location[m]
      BY <1>1 DEF IInv, TypeOK
<1>3. ASSUME NEW id \in ItemIds
      PROVE  \/ ~Live(id) /\ item'[id] = item[id]
             \/ /\ Live(id) /\ item'[id] \in Row /\ RefersNext(item'[id].location)
                /\ SameStock(item'[id], item[id]) /\ DutyRight(item'[id], movements[id])
  <2> DEFINE row == item[id]
             loc == Unlinked(l, row.location)
  <2>1. CASE Live(id)
    <3>1. row \in Row /\ Refers(row.location) /\ DutyRight(row, movements[id])
          BY <2>1 DEF IInv, TypeOK, Live, ItemOK
    <3>2. loc \in LocationIds \cup {None} /\ RefersNext(loc)
          BY <1>2, <3>1 DEF Unlinked, Refers, RefersNext, Row, Standing
    <3>3. item'[id] = [row EXCEPT !.location = loc]
          BY <1>1, <2>1
    <3> HIDE DEF row, loc
    <3>4. item'[id] \in Row /\ item'[id].location = loc /\ SameStock(item'[id], row)
          /\ item'[id].duty = row.duty /\ item'[id].stated = row.stated
          /\ item'[id].since = row.since
          BY <3>1, <3>2, <3>3 DEF Row, SameStock
    <3>5. DutyRight(item'[id], movements[id])
          BY <3>1, <3>4 DEF DutyRight
    <3> QED BY <2>1, <3>2, <3>4, <3>5 DEF row
  <2>2. CASE ~Live(id)
        BY <2>2, <1>1
  <2> QED BY <2>1, <2>2
<1>4. disturbed \subseteq disturbed' /\ Exclusive'
      BY OverlapMarked
<1>5. /\ req' \in [Procs -> Request]
      /\ \A q \in Procs : (RequestOK(req[q]) /\ Fresh(req[q]) /\ LocationOK(req[q]))'
  <2>1. \A id \in ItemIds : item[id] # None => Kept(id)
        BY <1>3 DEF Kept, Live, SameStock
  <2>2. \A m \in LocationIds : LocationKept(m)
        BY <1>2 DEF LocationKept
  <2> QED BY <1>1, <2>1, <2>2, RequestsKept
<1>6. TypeOK'
  <2>1. item' \in [ItemIds -> Row \cup {None, Gone}]
    <3>1. item' = [id \in ItemIds |-> item'[id]]
          BY <1>1
    <3>2. \A id \in ItemIds : item'[id] \in Row \cup {None, Gone}
          BY <1>3 DEF IInv, TypeOK
    <3> QED BY <3>1, <3>2
  <2>2. \A id \in ItemIds : Live(id)' => Refers(item[id].location)'
        BY <1>1, <1>3 DEF Live, Refers, RefersNext
  <2> QED BY <1>1, <1>2, <1>5, <2>1, <2>2 DEF IInv, TypeOK
<1>7. \A id \in ItemIds : ItemOK(id)'
      BY <1>1, <1>3, ItemKept, ItemSame
<1> QED BY <1>4, <1>5, <1>6, <1>7 DEF IInv

----------------------------------------------------------------------------
(* The invariant *)

LEMMA InitIInv == Init => IInv
<1> SUFFICES ASSUME Init PROVE IInv
    OBVIOUS
<1>1. /\ \A id \in ItemIds : item[id] = None
      /\ \A p \in Procs : req[p] = Idle
      /\ req \in [Procs -> Request]
      BY IdleOK DEF Init
<1>2. PICK seeded \in SUBSET (LocationIds \ {Kwb}) :
         /\ \A l, m \in seeded : l = m
         /\ location = [l \in LocationIds |-> IF l = Kwb THEN "KWB"
                                            ELSE IF l \in seeded THEN "RELEASED" ELSE None]
      BY DEF Init
<1>3. location \in [LocationIds -> Names \cup {"KWB", None, Gone}]
      BY <1>2
<1>4. TypeOK
      BY <1>1, <1>3 DEF Init, TypeOK, Live
<1>5. Exclusive
      BY <1>1, IdleOK DEF Exclusive, Idle
<1>6. \A id \in ItemIds : ItemOK(id)
      BY <1>1 DEF Init, ItemOK, Live
<1> QED BY <1>1, <1>4, <1>5, <1>6, IdleOK DEF IInv

LEMMA AtOnceStep == IInv /\ Next /\ AtOnce => IInv'
BY CreateStep, RemoveItemStep, UpdateShipmentStep, RemoveLocationStep DEF AtOnce

LEMMA RequestsStep == IInv /\ Next /\ (\E p \in Procs : Step(p)) => IInv'
<1> SUFFICES ASSUME IInv, Next, NEW p \in Procs, Step(p) PROVE IInv'
    OBVIOUS
<1> QED BY UpdateReadStep, UpdateCommitStep, MoveReadStep, BatchReadStep, FindLocationStep,
           AddLocationStep, MoveCommitStep, BatchCommitStep, ImportStartStep, ImportRowStep,
           ImportInsertStep, NameCheckStep, NameCommitStep, AbortStep DEF Step

LEMMA NextIInv == IInv /\ [Next]_vars => IInv'
<1>1. IInv /\ Next => IInv'
      BY AtOnceStep, RequestsStep DEF Next
<1>2. IInv /\ UNCHANGED vars => IInv'
  <2> SUFFICES ASSUME IInv, UNCHANGED vars PROVE IInv'
      OBVIOUS
  <2>1. UNCHANGED <<item, movements, location, req, disturbed>>
        BY DEF vars
  <2>2. TypeOK' /\ Exclusive'
        BY <2>1 DEF IInv, TypeOK, Exclusive, Live, Refers, Standing, Held
  <2>4. \A id \in ItemIds : ItemOK(id)'
        BY <2>1 DEF IInv, ItemOK, Live
  <2>3. ASSUME NEW p \in Procs PROVE (RequestOK(req[p]) /\ Fresh(req[p]) /\ LocationOK(req[p]))'
    <3>1. RequestOK(req[p]) /\ Fresh(req[p]) /\ LocationOK(req[p])
          BY DEF IInv
    <3>2. RequestOK(req[p])'
          BY <2>1, <3>1 DEF RequestOK, MoveOK, HoldsOne, TakesLast, BatchOK, SheetOK, RowOK, Importing,
                            Held, Remaining
    <3>3. Fresh(req[p])'
          BY <2>1, <3>1 DEF Fresh, Held, Live, SameStock
    <3>4. LocationOK(req[p])'
          BY <2>1, <3>1 DEF LocationOK, Sought, Importing
    <3> QED BY <3>2, <3>3, <3>4
  <2> QED BY <2>2, <2>3, <2>4 DEF IInv
<1> QED BY <1>1, <1>2

LEMMA Invariance == Spec => []IInv
BY InitIInv, NextIInv, PTL DEF Spec

----------------------------------------------------------------------------
(* What holds for every instance *)

\* The rows, the movements, the locations and what every request in flight has
\* read have their types, and no item refers to a location that is not there.
THEOREM BondedTypeCorrect == Spec => []TypeOK
<1>1. IInv => TypeOK
      BY DEF IInv
<1> QED BY <1>1, Invariance, PTL

\* The stock of an item no two requests worked on at once is what was received
\* less what was released, after any edits, releases and clearances.
THEOREM StockAlwaysAddsUp == Spec => []StockAddsUp
<1>1. IInv => StockAddsUp
      BY DEF IInv, StockAddsUp, CalmItems, ItemOK, StockRight
<1> QED BY <1>1, Invariance, PTL

\* What an item has released is what its movements say, whatever releases of
\* some units, clearances of the rest and edits came after each other.
THEOREM ReleasesAlwaysAddUp == Spec => []ReleasesAddUp
<1>1. IInv => ReleasesAddUp
      BY DEF IInv, ReleasesAddUp, CalmItems, ItemOK, StockRight, LoggedReleases, Logged
<1> QED BY <1>1, Invariance, PTL

\* The duty of every item is accounted for by the last body that named one and the
\* releases logged since, however requests overlap: a release logs itself and settles
\* the duty in one transaction, over the row as it is.
THEOREM DutyAlwaysAccountedFor == Spec => []DutyIsAccountedFor
<1>1. IInv => DutyIsAccountedFor
      BY DEF IInv, DutyIsAccountedFor, ItemOK, DutyRight, PaidRelease
<1> QED BY <1>1, Invariance, PTL

\* Only a movement or a clearance changes the movements of an item that keeps any.
LEMMA MovementsChange ==
    ASSUME IInv, Next, NEW id \in ItemIds, movements'[id] # movements[id], movements'[id] # <<>>
    PROVE  \E p \in Procs : id \in Held(req[p]) /\ (MoveCommit(p) \/ BatchCommit(p))
<1>1. movements[id] \in Seq(MovementRow) /\ movements'[id] # movements[id]
      BY DEF IInv, TypeOK
<1>2. ASSUME NEW p \in Procs, Step(p), ~MoveCommit(p), ~BatchCommit(p)
      PROVE  UNCHANGED movements
      BY <1>2 DEF Step, UpdateRead, UpdateCommit, MoveRead, BatchRead, FindLocation, AddLocation,
                  ImportStart, ImportRow, ImportInsert, Done, NameCheck, NameCommit, Abort, Reads, table
<1>3. CASE AtOnce
  <2>1. UNCHANGED movements \/ movements' = [movements EXCEPT ![id] = <<>>]
           \/ \E i \in ItemIds \ {id} : movements' = [movements EXCEPT ![i] = <<>>]
        BY <1>3 DEF AtOnce, Create, RemoveItem, UpdateShipment, RemoveLocation
  <2>2. movements'[id] = movements[id] \/ movements'[id] = <<>>
        BY <2>1 DEF IInv, TypeOK
  <2> QED BY <1>1, <2>2
<1>4. CASE \E p \in Procs : Step(p)
  <2>1. PICK p \in Procs : MoveCommit(p) \/ BatchCommit(p)
        BY <1>1, <1>2, <1>4
  <2>2. CASE MoveCommit(p)
    <3>1. MoveOK(req[p])
          BY <2>2 DEF MoveCommit, At, IInv, RequestOK
    <3>2. PICK i \in ItemIds : Held(req[p]) = {i}
          BY <3>1 DEF MoveOK, HoldsOne
    <3>3. movements' = [movements EXCEPT ![i] = movements'[i]]
          BY <2>2, <3>2 DEF MoveCommit, ReadBy, Held, IInv, TypeOK
    <3> QED BY <1>1, <2>2, <3>2, <3>3 DEF IInv, TypeOK
  <2>3. CASE BatchCommit(p)
    <3>1. movements'[id] = movements[id] \/ id \in Held(req[p])
          BY <2>3 DEF BatchCommit, ReadBy, Held
    <3> QED BY <1>1, <2>3, <3>1
  <2> QED BY <2>1, <2>2, <2>3
<1> QED BY <1>3, <1>4 DEF Next

\* Releases of an item somebody else does not work on.
LEMMA WithinStep ==
    ASSUME IInv, Next, NEW id \in ItemIds, Live(id), id \notin disturbed,
           Logged(movements'[id]) > Logged(movements[id])
    PROVE  Logged(movements'[id]) <= item'[id].quantity
<1>1. movements[id] \in Seq(MovementRow) /\ StockRight(item[id], movements[id]) /\ item[id] \in Row
      BY DEF IInv, TypeOK, ItemOK, Live
<1>2. CASE movements'[id] = <<>>
      BY <1>1, <1>2, LoggedNothing DEF StockRight
<1>3. CASE movements'[id] # <<>>
  <2>0. movements'[id] # movements[id]
        BY <1>1 DEF StockRight
  <2>1. PICK p \in Procs : id \in Held(req[p]) /\ (MoveCommit(p) \/ BatchCommit(p))
        BY <1>3, <2>0, MovementsChange
  <2>2. PICK r, row, read : r = req[p] /\ row = item[id] /\ read = r.read[id]
        OBVIOUS
  <2>3. /\ RequestOK(r) /\ Held(r) = Held(req[p]) /\ SameStock(row, read)
        BY <2>1, <2>2 DEF IInv, Fresh
  <2>4. row.quantity \in Int /\ row.releasedQty \in Nat /\ row.stockBalance \in Int
        BY <1>1, <2>2 DEF Row, StockRight
  <2>5. CASE MoveCommit(p)
    <3>1. MoveOK(r) /\ r.dto \in MovementDto
          BY <2>2, <2>3, <2>5 DEF MoveCommit, At, RequestOK, MoveOK
    <3>2. Held(r) = {id}
          BY <2>1, <2>3, <3>1 DEF MoveOK, HoldsOne
    <3>3. PICK m : m = Movement(r.dto.type, r.dto.quantity, r.dto.dutyPaid)
          OBVIOUS
    <3>4. /\ m \in MovementRow /\ m.type = r.dto.type /\ m.quantity = r.dto.quantity
          BY <3>1, <3>3 DEF Movement, MovementRow, MovementDto
    <3>5. /\ item'[id] = Moved(row, read, r.dto, r.loc)
          /\ movements'[id] = Append(movements[id], m)
          BY <2>1, <2>2, <2>5, <3>3 DEF MoveCommit, ReadBy, Held, IInv, TypeOK
    <3>6. Logged(movements'[id]) = Logged(movements[id]) + (IF m.type = "RELEASE" THEN m.quantity ELSE 0)
          /\ Logged(movements[id]) \in Int
          BY <1>1, <3>4, <3>5, LoggedAppend
    <3>7. r.dto.type = "RELEASE"
          BY <3>4, <3>6
    <3>8. PICK n \in Nat \ {0} : n = r.dto.quantity /\ n <= row.stockBalance
          BY <2>3, <3>1, <3>2, <3>7, <2>2 DEF MovementDto, MoveOK, SameStock
    <3>9. /\ item'[id].quantity = row.quantity /\ item'[id].releasedQty = row.releasedQty + n
          /\ item'[id].stockBalance = row.quantity - (row.releasedQty + n)
          BY <1>1, <2>2, <2>3, <3>5, <3>7, <3>8 DEF Moved, Row, Remaining, SameStock
    <3>10. Logged(movements'[id]) = Logged(movements[id]) + n
           BY <3>4, <3>6, <3>7, <3>8
    <3>11. StockRight(row, movements[id])
           BY <1>1, <2>2
    <3>12. StockRight(item'[id], movements'[id]) /\ item'[id].releasedQty <= item'[id].quantity
           BY <2>4, <3>8, <3>9, <3>10, <3>11, ReleaseRight
    <3> QED BY <3>12 DEF StockRight
  <2>6. CASE BatchCommit(p)
    <3>1. BatchOK(r) /\ r.dto.dutyPaid \in BOOLEAN
          BY <2>2, <2>3, <2>6 DEF BatchCommit, At, RequestOK, BatchOK
    <3>2. PICK m : m = BatchMovement(read, r.dto.dutyPaid)
          OBVIOUS
    <3>3. /\ item'[id] = Cleared(row, read, r.loc, r.dto.dutyPaid)
          /\ movements'[id] = Append(movements[id], m)
          BY <2>1, <2>2, <2>6, <3>2 DEF BatchCommit, ReadBy, Held
    <3>4. m \in MovementRow /\ m.type = "RELEASE" /\ m.quantity = row.stockBalance
          BY <2>3, <2>4, <3>1, <3>2 DEF BatchMovement, Movement, MovementRow, SameStock
    <3>5. Logged(movements'[id]) = Logged(movements[id]) + row.stockBalance
          /\ Logged(movements[id]) \in Int
          BY <1>1, <3>3, <3>4, LoggedAppend
    <3>6. row.stockBalance > 0
          BY <2>1, <2>2, <2>3, <3>1 DEF BatchOK, SameStock
    <3>7. /\ row.quantity >= 0 /\ row.stockBalance = Max({0, row.quantity - row.releasedQty})
          /\ row.quantity - row.releasedQty \in Int /\ row.releasedQty = Logged(movements[id])
      <4>1. StockRight(row, movements[id])
            BY <1>1, <2>2
      <4>2. row.quantity >= 0
            BY <4>1, <2>4, <3>6 DEF StockRight
      <4> QED BY <4>1, <4>2, <2>4 DEF StockRight
    <3>8. row.stockBalance = row.quantity - row.releasedQty
          BY <3>6, <3>7, StockLeft
    <3>9. item'[id].quantity = row.quantity
          BY <1>1, <2>2, <3>3 DEF Cleared, Row
    <3> QED BY <2>4, <3>5, <3>7, <3>8, <3>9
  <2> QED BY <2>1, <2>5, <2>6
<1> QED BY <1>2, <1>3

\* The location a release puts an emptied item in.
LEMMA EmptiedStep ==
    ASSUME IInv, Next, NEW id \in ItemIds,
           item[id].stockBalance > 0,
           Len(movements'[id]) > Len(movements[id]), item'[id].stockBalance = 0
    PROVE  \E l \in LocationIds :
              /\ item'[id].location = l
              /\ location'[l] = "RELEASED" \/ l \in disturbed
<1>1. PICK p \in Procs : id \in Held(req[p]) /\ (MoveCommit(p) \/ BatchCommit(p))
  <2>1. movements'[id] # movements[id]
        OBVIOUS
  <2>2. movements[id] \in Seq(MovementRow) /\ Len(movements[id]) \in Nat
        BY DEF IInv, TypeOK
  <2>3. movements'[id] # <<>>
        BY <2>2
  <2> QED BY <2>1, <2>3, MovementsChange
<1> DEFINE r   == req[p]
           row == item[id]
           read == r.read[id]
<1>2. r \in Request /\ RequestOK(r) /\ LocationOK(r)
      BY DEF IInv, TypeOK
<1>3. r.loc # None /\ Standing(r.loc) => /\ r.loc \in LocationIds
                                         /\ r.pc \in {"moving", "clearing"} =>
                                               location[r.loc] = Sought(r) \/ r.loc \in disturbed
      BY <1>2 DEF Request, LocationOK, Standing
<1>6. r.pc \in {"moving", "clearing"} => Sought(r) = "RELEASED"
  <2>1. r.pc \in {"moving", "clearing"} => "rows" \notin DOMAIN r.dto
        BY <1>2 DEF RequestOK, MoveOK, BatchOK, MovementDto
  <2> QED BY <2>1 DEF Sought, Importing
<1>4. CASE MoveCommit(p)
  <2>1. r.pc = "moving" /\ MoveOK(r) /\ (r.loc # None <=> TakesLast(r)) /\ UNCHANGED location
        BY <1>2, <1>4 DEF MoveCommit, At, RequestOK
  <2>2. Held(r) = {id}
        BY <1>1, <2>1 DEF MoveOK, HoldsOne
  <2>3. /\ Live(id) /\ Refers(r.loc)
        /\ item' = [item EXCEPT ![id] = Moved(row, read, r.dto, r.loc)]
        BY <1>4, <2>2 DEF MoveCommit, ReadBy, Held
  <2>4. row \in Row /\ item'[id] = Moved(row, read, r.dto, r.loc)
        BY <2>3 DEF IInv, TypeOK, Live
  <2> HIDE DEF r, row, read
  <2>5. CASE r.dto.type = "RELEASE"
    <3>1. /\ item'[id].stockBalance = Remaining(read, r.dto.quantity)
          /\ item'[id].location = Given(r.loc, row.location)
          BY <2>4, <2>5 DEF Moved, Stored, Row
    <3>2. TakesLast(r)
          BY <2>2, <2>5, <3>1 DEF TakesLast, read
    <3> QED BY <1>3, <1>6, <2>1, <2>3, <3>1, <3>2 DEF Given, Refers
  <2>6. CASE r.dto.type # "RELEASE"
        BY <2>4, <2>6 DEF Moved, Row, row
  <2> QED BY <2>5, <2>6
<1>5. CASE BatchCommit(p)
  <2>1. r.pc = "clearing" /\ r.loc # None /\ Standing(r.loc) /\ Live(id) /\ UNCHANGED location
        BY <1>1, <1>2, <1>5 DEF BatchCommit, At, RequestOK, ReadBy, Held
  <2>2. row \in Row /\ item'[id] = Cleared(row, read, r.loc, r.dto.dutyPaid)
        BY <1>1, <1>5, <2>1 DEF BatchCommit, ReadBy, Held, IInv, TypeOK, Live
  <2> HIDE DEF r, row, read
  <2>3. item'[id].location = r.loc
        BY <2>2 DEF Cleared, Row
  <2> QED BY <1>3, <1>6, <2>1, <2>3
<1> QED BY <1>1, <1>4, <1>5

\* The release or clearance that takes the last unit of an item leaves it in the
\* location named RELEASED at that moment, found or made since the row was read.
THEOREM EmptiedGoesToReleased == Spec => EmptiedIsReleased
<1> DEFINE Emptied(id) ==
             /\ Live(id) /\ item[id].stockBalance > 0 /\ id \notin disturbed
             /\ Len(movements'[id]) > Len(movements[id])
             /\ item'[id].stockBalance = 0
             => \E l \in LocationIds :
                   /\ item'[id].location = l
                   /\ location'[l] = "RELEASED" \/ l \in disturbed
<1>1. IInv /\ Next => \A id \in ItemIds : Emptied(id)
      BY EmptiedStep
<1>2. IInv /\ [Next]_vars => [\A id \in ItemIds : Emptied(id)]_vars
      BY <1>1
<1> QED BY <1>2, Invariance, PTL DEF Spec, EmptiedIsReleased

\* No unit of an item nobody else works on is released twice: its releases never
\* come to more than it had when the last of them was made.
THEOREM ReleasesWithin == Spec => ReleasedWithinReceived
<1> DEFINE Within(id) ==
             /\ Live(id) /\ id \notin disturbed
             /\ LoggedReleases(id)' > LoggedReleases(id)
             => LoggedReleases(id)' <= item'[id].quantity
<1>1. IInv /\ Next => \A id \in ItemIds : Within(id)
  <2> SUFFICES ASSUME IInv, Next, NEW id \in ItemIds PROVE Within(id)
      OBVIOUS
  <2>1. /\ LoggedReleases(id) = Logged(movements[id])
        /\ LoggedReleases(id)' = Logged(movements'[id])
        BY DEF LoggedReleases, Logged
  <2> QED BY <2>1, WithinStep
<1>2. IInv /\ [Next]_vars => [\A id \in ItemIds : Within(id)]_vars
      BY <1>1
<1> QED BY <1>2, Invariance, PTL DEF Spec, ReleasedWithinReceived

\* Where the insertion of a row of a sheet puts it.
LEMMA InsertedStep ==
    ASSUME IInv, Next, NEW p \in Procs, NEW id \in ItemIds,
           At(p, "inserting"), item[id] = None, item'[id] # None, req'[p] # req[p]
    PROVE  \/ Sought(req[p]) = None /\ item'[id].location = None
           \/ \E l \in LocationIds :
                 /\ item'[id].location = l
                 /\ location'[l] = Sought(req[p]) \/ l \in disturbed
<1>1. req[p] \in Request /\ RequestOK(req[p]) /\ LocationOK(req[p]) /\ req[p].pc = "inserting"
      BY DEF IInv, TypeOK, At
<1>2. \E i \in ItemIds : ImportInsert(p, i)
  <2>1. \/ AtOnce /\ UNCHANGED req
        \/ \E q \in Procs : Step(q)
        BY DEF Next, AtOnce, Create, RemoveItem, UpdateShipment, RemoveLocation
  <2>2. PICK q \in Procs : Step(q)
        BY <2>1
  <2>3. q = p
    <3>1. ASSUME q # p PROVE req'[p] = req[p]
          BY <2>2, <3>1 DEF Step, UpdateRead, UpdateCommit, MoveRead, BatchRead, FindLocation, AddLocation,
             ImportStart, ImportRow, ImportInsert, NameCheck, NameCommit, MoveCommit, BatchCommit, Abort,
             Done, IInv, TypeOK
    <3> QED BY <3>1
  <2>4. ~Abort(p)
        BY DEF Abort, Reads, table
  <2> QED BY <1>1, <2>2, <2>3, <2>4 DEF Step, UpdateRead, UpdateCommit, MoveRead, BatchRead, FindLocation,
             AddLocation, ImportStart, ImportRow, NameCheck, NameCommit, MoveCommit, BatchCommit, At
<1>3. PICK i \in ItemIds : ImportInsert(p, i)
      BY <1>2
<1>4. i = id
      BY <1>3 DEF ImportInsert, IInv, TypeOK
<1>5. PICK row : row = Head(req[p].dto.rows)
      OBVIOUS
<1>6. /\ item'[id] = ReceivedRow(row, req[p].loc, "UNPAID") /\ Refers(req[p].loc) /\ UNCHANGED location
      BY <1>3, <1>4, <1>5 DEF ImportInsert, Placed, IInv, TypeOK
<1>7. item'[id].location = req[p].loc
      BY <1>6 DEF ReceivedRow
<1>8. Sought(req[p]) = row.name /\ (req[p].loc = None <=> row.name = None)
      BY <1>1, <1>5 DEF RequestOK, RowOK, SheetOK, Sought, Importing
<1>9. CASE req[p].loc # None
  <2>1. req[p].loc \in LocationIds /\ Standing(req[p].loc)
        BY <1>6, <1>9 DEF Refers
  <2> QED BY <1>1, <1>6, <1>7, <1>9, <2>1 DEF LocationOK, Standing
<1> QED BY <1>7, <1>8, <1>9

\* A row of a sheet goes to a location of the name it gives, whatever was made,
\* renamed or deleted since the import looked for it.
THEOREM ImportsGoInPlace == Spec => ImportedInPlace
<1> DEFINE InPlace(p, id) ==
             At(p, "inserting") /\ item[id] = None /\ item'[id] # None /\ req'[p] # req[p]
             => \/ Sought(req[p]) = None /\ item'[id].location = None
                \/ \E l \in LocationIds :
                      /\ item'[id].location = l
                      /\ location'[l] = Sought(req[p]) \/ l \in disturbed
<1>1. IInv /\ Next => \A p \in Procs, id \in ItemIds : InPlace(p, id)
      BY InsertedStep
<1>2. IInv /\ [Next]_vars => [\A p \in Procs, id \in ItemIds : InPlace(p, id)]_vars
      BY <1>1
<1> QED BY <1>2, Invariance, PTL DEF Spec, ImportedInPlace

=============================================================================
