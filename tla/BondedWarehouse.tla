--------------------------- MODULE BondedWarehouse ---------------------------
(***************************************************************************)
(* Duty-suspended stock: bonded-warehouse/bonded-warehouse.service.ts, the *)
(* import of bonded-warehouse-excel.service.ts, and the locations of       *)
(* warehouse-locations/warehouse-locations.service.ts.                     *)
(*                                                                         *)
(* Every operation reads first, outside any transaction, and then writes   *)
(* in one statement or one batch.  A release writes the released quantity  *)
(* and the stock that follow from the row it read.  The "RELEASED"         *)
(* location is looked up, and created if missing, in between.  An import   *)
(* goes row by row and does the same with the location of every row.       *)
(***************************************************************************)
EXTENDS Requests, Integers, FiniteSets, SequencesExt

CONSTANTS
    ItemIds,        \* primary keys of stock items, never used twice
    LocationIds,    \* primary keys of locations, never used twice
    Names,          \* names a location may be given
    Bls,            \* bills of lading
    Kwb,            \* a location that is there from the start
    CreateDtos,     \* bodies of POST /items and /shipments, the header merged into the
                    \* rows: sequences of [bl, quantity, location, duty]
    Sheets,         \* uploads of POST /import: sequences of [bl, quantity, name]
    UpdateDtos,     \* bodies of PATCH /items/:id: [quantity, location, duty]
    HeaderDtos,     \* bodies of PATCH /shipments: [bl, location, duty]
    MovementDtos,   \* bodies of POST /items/:id/movements: [type, quantity, to, dutyPaid]
    BatchDtos,      \* bodies of POST /release: [bl, dutyPaid]
    MaxMovements,   \* bound on the movements of an item
    Gone            \* a row that was deleted

VARIABLES
    item,       \* the BondedWarehouseItem table
    movements,  \* the BondedWarehouseMovement rows of every item, oldest first
    location,   \* the WarehouseLocation table: the name of each
    disturbed   \* history: items and locations two requests worked on at once

table == <<item, movements, location>>
vars  == <<item, movements, location, req, disturbed>>

Duties == {"UNPAID", "PAID"}

\* stated and since are history: the duty that the last body to name one gave, and
\* how many movements the item had then.
Row == [bl : Bls, quantity : Int, releasedQty : Int, stockBalance : Int,
        location : LocationIds \cup {None}, duty : Duties, stated : Duties, since : Nat]

ReceiptDto == [bl : Bls, quantity : Nat \cup {None}, location : LocationIds \cup {None},
               duty : Duties \cup {None}]

\* Cells that are blank are None; no validator sees the quantity.
SheetRow == [bl : Bls \cup {None}, quantity : Int \cup {None}, name : Names \cup {"KWB", None}]

MovementDto == [type : {"RELEASE", "TRANSFER", "LOCATION_UPDATE"}, quantity : Nat \ {0},
                to : LocationIds \cup {None}, dutyPaid : BOOLEAN]

ASSUME BondedAssumption ==
    /\ Kwb \in LocationIds
    /\ "RELEASED" \in Names
    /\ MaxMovements \in Nat
    /\ CreateDtos \subseteq Seq(ReceiptDto)
    /\ Sheets \subseteq Seq(SheetRow)
    /\ \A dto \in UpdateDtos : dto.quantity \in Nat \cup {None}
    /\ \A dto \in UpdateDtos \cup HeaderDtos : dto.duty \in Duties \cup {None}
    /\ MovementDtos \subseteq MovementDto
    /\ \A dto \in BatchDtos : DOMAIN dto \cap {"type", "rows"} = {} /\ dto.dutyPaid \in BOOLEAN

ASSUME NoneAssumption ==
    /\ None # Gone
    /\ \A v \in {None, Gone} : v \notin Row \cup Names \cup LocationIds \cup {"KWB"}

----------------------------------------------------------------------------
(* Rows and requests *)

Live(id)     == item[id] \notin {None, Gone}
Standing(l)  == location[l] \notin {None, Gone}
NameTaken(n) == \E l \in LocationIds : location[l] = n

\* The unique index on the name of a location.
Unique(l, name) == \A m \in LocationIds \ {l} : location[m] # name

\* A foreign key to a location.
Refers(l) == l \in {None} \cup {m \in LocationIds : Standing(m)}

Given(v, default) == IF v = None THEN default ELSE v

ReceivedRow(dto, loc, duty) ==
    LET quantity == Given(dto.quantity, 1)
    IN  [bl |-> dto.bl, quantity |-> quantity, releasedQty |-> 0, stockBalance |-> quantity,
         location |-> loc, duty |-> duty, stated |-> duty, since |-> 0]

\* A row of a body: it may say where the unit stands and that its duty is settled.
DeliveredRow(dto) == ReceivedRow(dto, dto.location, Given(dto.duty, "UNPAID"))

\* What a request has read of some items.
RowsRead(ids) == [id \in ItemIds |-> IF id \in ids THEN item[id] ELSE None]

Idle == [pc |-> "idle", dto |-> None, read |-> [id \in ItemIds |-> None], loc |-> None]

Done(p)   == req' = [req EXCEPT ![p] = Idle]
Reads     == UNCHANGED table

\* The items a request has read.
ReadBy(p) == {id \in ItemIds : req[p].read[id] # None}

\* The migration that makes the table seeds RELEASED; it may be gone by now.
Init ==
    /\ item = [id \in ItemIds |-> None]
    /\ movements = [id \in ItemIds |-> <<>>]
    /\ \E seeded \in SUBSET (LocationIds \ {Kwb}) :
          /\ \A l, m \in seeded : l = m
          /\ location = [l \in LocationIds |-> IF l = Kwb THEN "KWB"
                                             ELSE IF l \in seeded THEN "RELEASED" ELSE None]
    /\ req = [p \in Procs |-> Idle]
    /\ disturbed = {}

----------------------------------------------------------------------------
(* create and createShipment; update; remove; updateShipment *)

\* All rows of a shipment are inserted in one batch.
Create(dto) ==
    \E ids \in [DOMAIN dto -> ItemIds] :
        /\ \A i, j \in DOMAIN dto : i # j => ids[i] # ids[j]
        /\ \A i \in DOMAIN dto : item[ids[i]] = None
        /\ \A i \in DOMAIN dto : Refers(dto[i].location)
        /\ item' = [id \in ItemIds |->
                IF \E i \in DOMAIN dto : ids[i] = id
                THEN DeliveredRow(dto[CHOOSE i \in DOMAIN dto : ids[i] = id])
                ELSE item[id]]
        /\ UNCHANGED <<movements, location, req>>

UpdateRead(p, id, dto) ==
    /\ At(p, "idle")
    /\ Live(id)
    /\ req' = [req EXCEPT ![p] =
            [Idle EXCEPT !.pc = "updating", !.dto = dto, !.read = RowsRead({id})]]
    /\ Reads

\* The columns a body of either PATCH may write over a row of so many movements.
Restated(row, dto, count) ==
    [row EXCEPT !.location = Given(dto.location, @),
                !.duty     = Given(dto.duty, @),
                !.stated   = Given(dto.duty, @),
                !.since    = IF dto.duty = None THEN @ ELSE count]

\* Mutant: a new quantity leaves the stock as it was.
EditedKeepsStock(row, read, dto, count) ==
    [Restated(row, dto, count) EXCEPT !.quantity = Given(dto.quantity, @)]

\* The stock follows a new quantity, less what had been released when it was read.
Edited(row, read, dto, count) ==
    [Restated(row, dto, count) EXCEPT
        !.quantity     = Given(dto.quantity, @),
        !.stockBalance = IF dto.quantity = None THEN @
                         ELSE Max({0, dto.quantity - read.releasedQty})]

UpdateCommit(p) ==
    /\ At(p, "updating")
    /\ \A id \in ReadBy(p) :
          /\ Live(id)
          /\ Refers(req[p].dto.location)
          /\ item' = [item EXCEPT ![id] =
                  Edited(@, req[p].read[id], req[p].dto, Len(movements[id]))]
    /\ Done(p)
    /\ UNCHANGED <<movements, location>>

\* The movements of the item go with it.
RemoveItem(id) ==
    /\ Live(id)
    /\ item' = [item EXCEPT ![id] = Gone]
    /\ movements' = [movements EXCEPT ![id] = <<>>]
    /\ UNCHANGED <<location, req>>

OfShipment(bl) == {id \in ItemIds : Live(id) /\ item[id].bl = bl}

\* One updateMany: no read comes before it.
UpdateShipment(dto) ==
    /\ Refers(dto.location)
    /\ item' = [id \in ItemIds |->
            IF id \notin OfShipment(dto.bl) THEN item[id]
            ELSE Restated(item[id], dto, Len(movements[id]))]
    /\ UNCHANGED <<movements, location, req>>

----------------------------------------------------------------------------
(* addMovement and batchRelease *)

\* The locations a movement names are left out: nothing reads them again.
MovementRow == [type : {"RELEASE", "TRANSFER", "LOCATION_UPDATE"}, quantity : Int, dutyPaid : BOOLEAN]

Movement(type, quantity, dutyPaid) ==
    [type |-> type, quantity |-> quantity, dutyPaid |-> dutyPaid]

\* Mutant: the stock is not asked for enough units.
WithinStockNot(row, quantity) == TRUE

WithinStock(row, quantity) == quantity <= row.stockBalance

\* What is left of a row after a release of so many units.
Remaining(row, quantity) == row.quantity - (row.releasedQty + quantity)

\* LOCATION_UPDATE takes the same branch as TRANSFER.
MoveRead(p, id, dto) ==
    /\ At(p, "idle")
    /\ Live(id)
    /\ dto.type = "RELEASE" => WithinStock(item[id], dto.quantity)
    /\ req' = [req EXCEPT ![p] =
            [Idle EXCEPT !.pc = IF dto.type = "RELEASE" /\ Remaining(item[id], dto.quantity) = 0
                                THEN "finding" ELSE "moving",
                         !.dto = dto, !.read = RowsRead({id})]]
    /\ Reads

BatchRead(p, dto) ==
    LET inStock == {id \in OfShipment(dto.bl) : item[id].stockBalance > 0}
    IN  /\ At(p, "idle")
        /\ inStock # {}
        /\ req' = [req EXCEPT ![p] =
                [Idle EXCEPT !.pc = "finding", !.dto = dto, !.read = RowsRead(inStock)]]
        /\ Reads

\* The upload of an import has rows; a batch body has no movement type.
Importing(r) == "rows" \in DOMAIN r.dto

Then(p) == IF Importing(req[p]) THEN "inserting"
           ELSE IF "type" \in DOMAIN req[p].dto THEN "moving" ELSE "clearing"

\* The name of the location a request looks for.
Sought(r) == IF Importing(r) THEN Head(r.dto.rows).name ELSE "RELEASED"

\* getReleasedLocation, and what the import does with the name in a row.
FindLocation(p) ==
    /\ At(p, "finding")
    /\ IF NameTaken(Sought(req[p]))
       THEN \E l \in LocationIds :
               /\ location[l] = Sought(req[p])
               /\ req' = [req EXCEPT ![p].loc = l, ![p].pc = Then(p)]
       ELSE req' = [req EXCEPT ![p].pc = "adding"]
    /\ Reads

AddLocation(p, l) ==
    /\ At(p, "adding")
    /\ location[l] = None
    /\ Unique(l, Sought(req[p]))
    /\ location' = [location EXCEPT ![l] = Sought(req[p])]
    /\ req' = [req EXCEPT ![p].loc = l, ![p].pc = Then(p)]
    /\ UNCHANGED <<item, movements>>

\* Mutant: the last unit leaves, the row stays where it was.
StoredInPlace(row, loc) == row.location

\* loc is the RELEASED location if the release takes the last unit, else None.
Stored(row, loc) == Given(loc, row.location)

\* Mutant: every release settles the duty.
SettledAnyway(row, dutyPaid) == "PAID"

Settled(row, dutyPaid) == IF dutyPaid THEN "PAID" ELSE row.duty

Moved(row, read, dto, loc) ==
    IF dto.type = "RELEASE"
    THEN [row EXCEPT !.releasedQty  = read.releasedQty + dto.quantity,
                     !.stockBalance = Remaining(read, dto.quantity),
                     !.location     = Stored(row, loc),
                     !.duty         = Settled(row, dto.dutyPaid)]
    ELSE [row EXCEPT !.location = Given(dto.to, @)]

MoveCommit(p) ==
    LET dto == req[p].dto
    IN  /\ At(p, "moving")
        /\ \A id \in ReadBy(p) :
              LET read == req[p].read[id]
              IN  /\ Live(id)
                  /\ Len(movements[id]) < MaxMovements
                  /\ Refers(read.location) /\ Refers(dto.to) /\ Refers(req[p].loc)
                  /\ item' = [item EXCEPT ![id] = Moved(@, read, dto, req[p].loc)]
                  /\ movements' = [movements EXCEPT ![id] = Append(@,
                        Movement(dto.type, dto.quantity, dto.dutyPaid))]
        /\ Done(p)
        /\ UNCHANGED location

\* Mutant: the movement counts the units ever received.
BatchMovementWhole(read, dutyPaid) == Movement("RELEASE", read.quantity, dutyPaid)

BatchMovement(read, dutyPaid) == Movement("RELEASE", read.stockBalance, dutyPaid)

Cleared(row, read, loc, dutyPaid) ==
    [row EXCEPT !.releasedQty = read.quantity, !.stockBalance = 0, !.location = loc,
                !.duty = Settled(row, dutyPaid)]

\* One transaction: an item that is gone, or a location, fails all of it.
BatchCommit(p) ==
    LET loc  == req[p].loc
        read == req[p].read
    IN  /\ At(p, "clearing")
        /\ Standing(loc)
        /\ \A id \in ReadBy(p) :
              Live(id) /\ Refers(read[id].location) /\ Len(movements[id]) < MaxMovements
        /\ item' = [id \in ItemIds |->
              IF id \in ReadBy(p) THEN Cleared(item[id], read[id], loc, req[p].dto.dutyPaid)
              ELSE item[id]]
        /\ movements' = [id \in ItemIds |->
              IF id \in ReadBy(p)
              THEN Append(movements[id], BatchMovement(read[id], req[p].dto.dutyPaid))
              ELSE movements[id]]
        /\ Done(p)
        /\ UNCHANGED location

----------------------------------------------------------------------------
(* BondedWarehouseExcelService.import: no transaction holds its rows together *)

ImportStart(p, rows) ==
    /\ At(p, "idle")
    /\ req' = [req EXCEPT ![p] = [Idle EXCEPT !.pc = "importing", !.dto = [rows |-> rows]]]
    /\ Reads

\* A row without a bill of lading is skipped; one with a location looks for it.
ImportRow(p) ==
    /\ At(p, "importing")
    /\ LET rows == req[p].dto.rows
       IN  IF rows = <<>> THEN Done(p)
           ELSE req' = [req EXCEPT ![p] =
                   IF Head(rows).bl = None THEN [@ EXCEPT !.dto = [rows |-> Tail(rows)]]
                   ELSE [@ EXCEPT !.pc = IF Head(rows).name = None THEN "inserting" ELSE "finding"]]
    /\ Reads

\* Mutant: the row is inserted where stock is received.
PlacedInKwb(loc) == Kwb

Placed(loc) == loc

ImportInsert(p, id) ==
    /\ At(p, "inserting")
    /\ item[id] = None
    /\ Refers(req[p].loc)
    /\ item' = [item EXCEPT ![id] = ReceivedRow(Head(req[p].dto.rows), Placed(req[p].loc), "UNPAID")]
    /\ req' = [req EXCEPT ![p] =
          [Idle EXCEPT !.pc = "importing", !.dto = [rows |-> Tail(req[p].dto.rows)]]]
    /\ UNCHANGED <<movements, location>>

----------------------------------------------------------------------------
(* WarehouseLocationsService *)

\* create checks the name, update the location and its new name, before they write.
NameCheck(p, l, name) ==
    /\ At(p, "idle")
    /\ Refers(l)
    /\ \A m \in LocationIds \ {l} : location[m] # name
    /\ req' = [req EXCEPT ![p] = [Idle EXCEPT !.pc = "naming", !.dto = [name |-> name],
                                              !.loc = l]]
    /\ Reads

NameCommit(p) ==
    /\ At(p, "naming")
    /\ Unique(req[p].loc, req[p].dto.name)
    /\ \E l \in LocationIds :
          /\ IF req[p].loc = None THEN location[l] = None ELSE l = req[p].loc /\ Standing(l)
          /\ location' = [location EXCEPT ![l] = req[p].dto.name]
    /\ Done(p)
    /\ UNCHANGED <<item, movements>>

\* Mutant: the item still points at the location.
UnlinkedNot(l, l2) == l2

\* The foreign keys to a location are ON DELETE SET NULL.
Unlinked(l, l2) == IF l2 = l THEN None ELSE l2

RemoveLocation(l) ==
    /\ Standing(l)
    /\ location' = [location EXCEPT ![l] = Gone]
    /\ item' = [id \in ItemIds |->
            IF Live(id) THEN [item[id] EXCEPT !.location = Unlinked(l, @)] ELSE item[id]]
    /\ UNCHANGED <<movements, req>>

----------------------------------------------------------------------------

\* A check fails, a name is taken, a row is gone, the process dies.
Abort(p) == ~At(p, "idle") /\ Done(p) /\ Reads

Step(p) ==
    \/ \E id \in ItemIds, dto \in UpdateDtos : UpdateRead(p, id, dto)
    \/ UpdateCommit(p)
    \/ \E id \in ItemIds, dto \in MovementDtos : MoveRead(p, id, dto)
    \/ \E dto \in BatchDtos : BatchRead(p, dto)
    \/ FindLocation(p)
    \/ \E l \in LocationIds : AddLocation(p, l)
    \/ MoveCommit(p)
    \/ BatchCommit(p)
    \/ \E rows \in Sheets : ImportStart(p, rows)
    \/ ImportRow(p)
    \/ \E id \in ItemIds : ImportInsert(p, id)
    \/ \E l \in LocationIds \cup {None}, name \in Names : NameCheck(p, l, name)
    \/ NameCommit(p)
    \/ Abort(p)

\* Operations that read nothing they depend on, or lock what they read.
AtOnce ==
    \/ \E dto \in CreateDtos : Create(dto)
    \/ \E id \in ItemIds : RemoveItem(id)
    \/ \E dto \in HeaderDtos : UpdateShipment(dto)
    \/ \E l \in LocationIds : RemoveLocation(l)

Touched(p) == ReadBy(p) \cup ({req[p].loc} \cap LocationIds)

Overlapping ==
    UNION {Touched(p) \cap UNION {Touched(q) : q \in Procs \ {p}} : p \in Procs}

Next == (AtOnce \/ \E p \in Procs : Step(p)) /\ disturbed' = disturbed \cup Overlapping'

Spec == Init /\ [][Next]_vars

Request ==
    [pc   : {"idle", "updating", "finding", "adding", "moving", "clearing", "importing",
             "inserting", "naming"},
     dto  : UpdateDtos \cup MovementDtos \cup BatchDtos \cup [rows : Seq(SheetRow)]
               \cup [name : Names] \cup {None},
     read : [ItemIds -> Row \cup {None}],
     loc  : LocationIds \cup {None}]

TypeOK ==
    /\ item \in [ItemIds -> Row \cup {None, Gone}]
    /\ \A id \in ItemIds : Live(id) => Refers(item[id].location)
    /\ movements \in [ItemIds -> Seq(MovementRow)]
    /\ location \in [LocationIds -> Names \cup {"KWB", None, Gone}]
    /\ req \in [Procs -> Request]

----------------------------------------------------------------------------
(* Properties *)

CalmItems == {id \in ItemIds : Live(id)} \ disturbed

\* The units the movement log says were released.
LoggedReleases(id) ==
    SumFunction([i \in DOMAIN movements[id] |->
                    IF movements[id][i].type = "RELEASE" THEN movements[id][i].quantity ELSE 0])

\* The released quantity of an item is what its RELEASE movements add up to:
\* releases of some units, of the rest of a shipment, and edits of the quantity
\* in between included.
ReleasesAddUp ==
    \A id \in CalmItems : item[id].releasedQty = LoggedReleases(id)

\* The stock is what was received less what was released, and never negative,
\* also when an edit puts the quantity below what has left; but an import takes
\* a negative quantity as it is.
StockAddsUp ==
    \A id \in CalmItems :
        item[id].quantity >= 0 =>
            item[id].stockBalance = Max({0, item[id].quantity - item[id].releasedQty})

\* The release that takes the last unit of an item puts it in the location
\* named RELEASED at that moment, whether the location was there or is made.
EmptiedIsReleased ==
    [][\A id \in ItemIds :
          /\ Live(id) /\ item[id].stockBalance > 0 /\ id \notin disturbed
          /\ Len(movements'[id]) > Len(movements[id])
          /\ item'[id].stockBalance = 0
          => \E l \in LocationIds :
                /\ item'[id].location = l
                /\ location'[l] = "RELEASED" \/ l \in disturbed]_vars

\* A row of a sheet goes to a location of the name it gives, found or made by the
\* import, however locations are made, renamed and deleted since it looked.
ImportedInPlace ==
    [][\A p \in Procs, id \in ItemIds :
          At(p, "inserting") /\ item[id] = None /\ item'[id] # None /\ req'[p] # req[p]
          => \/ Sought(req[p]) = None /\ item'[id].location = None
             \/ \E l \in LocationIds :
                   /\ item'[id].location = l
                   /\ location'[l] = Sought(req[p]) \/ l \in disturbed]_vars

\* No unit is released twice: the RELEASE movements of an item never exceed the
\* quantity it had when the last of them was made.
ReleasedWithinReceived ==
    [][\A id \in ItemIds :
          /\ Live(id) /\ id \notin disturbed
          /\ LoggedReleases(id)' > LoggedReleases(id)
          => LoggedReleases(id)' <= item'[id].quantity]_vars

\* The duty of an item is accounted for: it is PAID exactly when the last body that
\* named a duty, at receipt or later, said so, or a release under duty payment, of the
\* item or with its shipment, is in the movement log since.  A transfer settles none.
DutyIsAccountedFor ==
    \A id \in ItemIds : Live(id) =>
        (item[id].duty = "PAID" <=>
            \/ item[id].stated = "PAID"
            \/ \E i \in DOMAIN movements[id] :
                  i > item[id].since /\ movements[id][i].type = "RELEASE" /\ movements[id][i].dutyPaid)

----------------------------------------------------------------------------
(* What the code says of itself, and does not keep *)

\* "@Min(0) quantity": no item has less than nothing.
QuantitiesNatural == \A id \in ItemIds : Live(id) => item[id].quantity >= 0

\* "This location has linked items or movements and cannot be deleted": a
\* location that stock stands in is not deleted from under it.
LinkedLocationStays ==
    [][\A id \in ItemIds :
          Live(id) /\ item[id].location # None /\ item'[id] # Gone
             => location'[item[id].location] # Gone]_vars

\* "Cannot release ... unit(s); only ... remain in stock": no release, also of two that
\* overlap, takes the log of an item beyond the quantity it has.
OnlyStockIsReleased ==
    [][\A id \in ItemIds :
          Live(id) /\ LoggedReleases(id)' > LoggedReleases(id)
             => LoggedReleases(id)' <= item'[id].quantity]_vars

============================================================================
