------------------------------ MODULE MCBonded ------------------------------
(* Model values and bounds for BondedWarehouse. *)
EXTENDS BondedWarehouse, TLC

CONSTANTS kwb, l2

Units(n) == [bl |-> "BL", quantity |-> n, location |-> kwb, duty |-> None]

\* Two units on their own; a shipment of two items, of one unit, its duty settled and
\* its place not known yet, and of two.
MCCreateDtos ==
    {<<Units(2)>>, <<[Units(1) EXCEPT !.location = None, !.duty = "PAID"], Units(2)>>}

\* The quantity is lowered, below what may have left, or raised again.
MCUpdateDtos == {[quantity |-> q, location |-> None, duty |-> None] : q \in {1, 3}}

\* The duty of a shipment is suspended again.
MCHeaderDtos == {[bl |-> "BL", location |-> kwb, duty |-> "UNPAID"]}

MCMovementDtos ==
    {[type |-> "RELEASE", quantity |-> n, to |-> None, dutyPaid |-> n = 1] : n \in {1, 2}}
      \cup {[type |-> "TRANSFER", quantity |-> 1, to |-> l2, dutyPaid |-> TRUE]}

MCBatchDtos == {[bl |-> "BL", dutyPaid |-> FALSE]}

\* A row without a bill of lading, one for a location that may not be there, one
\* without a location and with a quantity below zero.
MCSheets ==
    {<<[bl |-> None, quantity |-> 1, name |-> "KWB"],
       [bl |-> "SHEET", quantity |-> 2, name |-> "RELEASED"],
       [bl |-> "SHEET", quantity |-> -1, name |-> None]>>}

Symmetry == Permutations(Procs) \cup Permutations(ItemIds)

Of(bl) == {id \in ItemIds : Live(id) /\ item[id].bl = bl}

\* Bounds: a request overlaps another on an item only before the first movement;
\* with two items, which one batch may release, one request follows the other,
\* for two movements in all; items come by sheets or by bodies, not by both.
Moderate ==
    LET made == SumFunction([id \in ItemIds |-> Len(movements[id])])
    IN  /\ disturbed \cap ItemIds # {} => made = 0
        /\ Cardinality({id \in ItemIds : item[id] # None}) = 2 =>
              /\ disturbed = {}
              /\ Cardinality({p \in Procs : ~At(p, "idle")}) <= 1
              /\ made <= 2
        /\ Of("BL") # {} => Of("SHEET") = {} /\ \A p \in Procs : At(p, "idle") \/ ~Importing(req[p])

=============================================================================
