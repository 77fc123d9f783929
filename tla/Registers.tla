----------------------------- MODULE Registers -----------------------------
(***************************************************************************)
(* The small registers: the tax rates of settings/settings.service.ts, the *)
(* service types and expense types (service-types.service.ts and           *)
(* expense-types.service.ts, which do the same) with the income and        *)
(* expense records that name them, and the status of a customer            *)
(* (customers.service.ts).                                                 *)
(*                                                                         *)
(* Each operation decides by what it reads and writes afterwards.  A rate  *)
(* is made the default in a transaction whose first statement clears the   *)
(* flag of the rows it sees and locks them to the end; a row inserted      *)
(* meanwhile is not among them.  The row of a request in flight is         *)
(* outdated once what it decided by has changed: history, no guard.        *)
(***************************************************************************)
EXTENDS Requests, Integers, FiniteSets

CONSTANTS
    RateIds,   \* primary keys of tax rates
    Percents,  \* values of a tax rate
    SeededRates, \* the rates of the seed script: percent -> default or not
    TypeIds,   \* primary keys of types
    Bases,     \* codes as typed, or made of a name
    Other,     \* the code that invoice-linked income gets
    Copies,    \* bound on the copies of a base code
    Records,   \* primary keys of records
    Customers  \* primary keys of customers

VARIABLES
    rate,     \* the TaxRate table
    type,     \* the ServiceType table
    record,   \* the code each record names
    customer, \* the Customer table
    missed,   \* history: a default that the last one to be made did not see
    chosen,   \* history: a default was made and not taken back
    slipped   \* history: codes that a record and a removal decided on at once

rates     == <<rate, missed, chosen>>
types     == <<type, record, slipped>>
registersVars == <<rate, type, record, customer, req, missed, chosen, slipped>>

ASSUME RegistersAssumption ==
    /\ IsFiniteSet(RateIds)
    /\ SeededRates \in [DOMAIN SeededRates -> BOOLEAN] /\ DOMAIN SeededRates \subseteq Percents
    /\ \A x, y \in DOMAIN SeededRates : SeededRates[x] /\ SeededRates[y] => x = y
    /\ Copies \in Nat \ {0} /\ Other \in Bases
    /\ None \notin Percents \cup Customers

\* What is no flag and no row.
ASSUME NoneAssumption ==
    /\ None \notin BOOLEAN
    /\ None \notin [percent : Percents, isDefault : BOOLEAN]
    /\ None \notin [code : Bases \X (1..Copies), isActive : BOOLEAN]
    /\ None \notin Bases \X (1..Copies)

IdleRegister == [pc |-> "idle", id |-> None, body |-> None, seen |-> {}, outdated |-> FALSE]

\* p has its answer, and the requests of P have decided by what it changed.
Answers(p, P) ==
    req' = [q \in Procs |-> IF q = p THEN IdleRegister
                            ELSE IF q \in P THEN [req[q] EXCEPT !.outdated = TRUE]
                            ELSE req[q]]

\* A key that no row has ever had: none in a table, none that a request holds.
Fresh(k) == \A p \in Procs : req[p].id # k /\ k \notin req[p].seen

----------------------------------------------------------------------------
(* Tax rates *)

IsRate(r) == rate[r] # None

Defaults == {r \in RateIds : IsRate(r) /\ rate[r].isDefault}

\* The column is unique.
FreePercent(percent, r) == \A s \in RateIds \ {r} : IsRate(s) => rate[s].percent # percent

\* createTaxRate, updateTaxRate and setDefaultTaxRate up to the rows whose flag
\* they clear: all, or all others.  A body leaves out what it does not change.
RateRead(p, kind, r, body) ==
    /\ At(p, "idle")
    /\ IF kind = "create" THEN ~IsRate(r) /\ Fresh(r) ELSE IsRate(r)
    /\ Goes(p, [IdleRegister EXCEPT !.pc = kind, !.id = r, !.body = body,
                  !.seen = IF body.isDefault = TRUE THEN {s \in RateIds : IsRate(s)} \ {r} ELSE {}])
    /\ UNCHANGED <<rates, types, customer>>

\* Mutant: the other rates keep the flag.
DemotedNot(row) == row

Demoted(row) == [row EXCEPT !.isDefault = FALSE]

Given(new, old) == IF new = None THEN old ELSE new

RateRow(old, body) ==
    [percent |-> Given(body.percent, old.percent),
     isDefault |-> Given(body.isDefault, old.isDefault)]

RateCommit(p) ==
    /\ At(p, "create") \/ At(p, "update")
    /\ LET r     == req[p].id
           old   == IF At(p, "create") THEN [percent |-> None, isDefault |-> FALSE] ELSE rate[r]
           row   == RateRow(old, req[p].body)
           makes == req[p].body.isDefault = TRUE
       IN  /\ IF At(p, "create") THEN ~IsRate(r) ELSE IsRate(r)
           /\ FreePercent(row.percent, r)
           /\ rate' = [s \in RateIds |-> IF s = r THEN row
                                         ELSE IF s \in req[p].seen /\ IsRate(s) THEN Demoted(rate[s])
                                         ELSE rate[s]]
           /\ missed' = IF makes THEN Defaults \ (req[p].seen \cup {r}) # {} ELSE missed
           /\ chosen' = (makes \/ (chosen /\ ~(r \in Defaults /\ ~row.isDefault)))
           /\ Answers(p, {q \in Procs : At(q, "removing") /\ req[q].id = r /\ makes})
    /\ UNCHANGED <<types, customer>>

\* Mutant: the default can be deleted.
RemovableAlways(r) == TRUE

Removable(r) == ~rate[r].isDefault

RemoveRateRead(p, r) ==
    /\ At(p, "idle")
    /\ IsRate(r)
    /\ Removable(r)
    /\ Goes(p, [IdleRegister EXCEPT !.pc = "removing", !.id = r])
    /\ UNCHANGED <<rates, types, customer>>

RemoveRateCommit(p) ==
    /\ At(p, "removing")
    /\ IsRate(req[p].id)
    /\ rate' = [rate EXCEPT ![req[p].id] = None]
    /\ chosen' = (chosen /\ ~(req[p].outdated /\ req[p].id \in Defaults))
    /\ Goes(p, IdleRegister)
    /\ UNCHANGED <<missed, types, customer>>

\* The seed script inserts a rate that is missing, with its flag, and clears
\* no other.
SeedRate(r, percent) ==
    /\ ~IsRate(r) /\ Fresh(r)
    /\ FreePercent(percent, r)
    /\ rate' = [rate EXCEPT ![r] = [percent |-> percent, isDefault |-> SeededRates[percent]]]
    /\ missed' = (missed \/ (SeededRates[percent] /\ Defaults # {}))
    /\ chosen' = (chosen \/ SeededRates[percent])
    /\ UNCHANGED <<types, customer, req>>

RateStep(p) ==
    \/ \E r \in RateIds, percent \in Percents, flag \in BOOLEAN :
          RateRead(p, "create", r, [percent |-> percent, isDefault |-> flag])
    \/ \E r \in RateIds, percent \in {None} \cup Percents, flag \in {None} \cup BOOLEAN :
          RateRead(p, "update", r, [percent |-> percent, isDefault |-> flag])
    \/ RateCommit(p)
    \/ \E r \in RateIds : RemoveRateRead(p, r)
    \/ RemoveRateCommit(p)

----------------------------------------------------------------------------
(* Service types and expense types *)

IsType(t) == type[t] # None

TypeOf(code) == {t \in TypeIds : IsType(t) /\ type[t].code = code}

\* uniqueCode: the base or its first copy that no type has.
uniqueCode(base, code) ==
    /\ code[1] = base /\ TypeOf(code) = {}
    /\ \A n \in 1..(code[2] - 1) : TypeOf(<<base, n>>) # {}

TypeRead(p, base) ==
    /\ At(p, "idle")
    /\ \E n \in 1..Copies :
          /\ uniqueCode(base, <<base, n>>)
          /\ Goes(p, [IdleRegister EXCEPT !.pc = "typing", !.body = <<base, n>>])
    /\ UNCHANGED <<rates, types, customer>>

TypeCommit(p, t, isActive) ==
    /\ At(p, "typing")
    /\ ~IsType(t) /\ Fresh(t)
    /\ TypeOf(req[p].body) = {}
    /\ type' = [type EXCEPT ![t] = [code |-> req[p].body, isActive |-> isActive]]
    /\ Goes(p, IdleRegister)
    /\ UNCHANGED <<rates, record, slipped, customer>>

\* update leaves the code as it is.
UpdateType(t, isActive) ==
    /\ IsType(t)
    /\ type' = [type EXCEPT ![t].isActive = isActive]
    /\ UNCHANGED <<rates, record, slipped, customer, req>>

\* Mutant: a type in use can be deleted.
UnusedAlways(code) == TRUE

Unused(code) == \A i \in Records : record[i] # code

RemoveTypeRead(p, t) ==
    /\ At(p, "idle")
    /\ IsType(t)
    /\ Unused(type[t].code)
    /\ Goes(p, [IdleRegister EXCEPT !.pc = "untyping", !.id = t, !.body = type[t].code])
    /\ UNCHANGED <<rates, types, customer>>

RemoveTypeCommit(p) ==
    /\ At(p, "untyping")
    /\ IsType(req[p].id)
    /\ type' = [type EXCEPT ![req[p].id] = None]
    /\ slipped' = IF req[p].outdated THEN slipped \cup {req[p].body} ELSE slipped
    /\ Answers(p, {q \in Procs : At(q, "recording") /\ req[q].body = req[p].body})
    /\ UNCHANGED <<rates, record, customer>>

\* assertServiceType, assertExpenseType.
ValidRate(code) == \E t \in TypeOf(code) : type[t].isActive

\* A record is created or edited: the type is looked for, then it is written.
RecordRead(p, i, code) ==
    /\ At(p, "idle")
    /\ ValidRate(code)
    /\ Goes(p, [IdleRegister EXCEPT !.pc = "recording", !.id = i, !.body = code])
    /\ UNCHANGED <<rates, types, customer>>

Deciding(code) == {q \in Procs : At(q, "untyping") /\ req[q].body = code}

RecordCommit(p) ==
    /\ At(p, "recording")
    /\ record' = [record EXCEPT ![req[p].id] = req[p].body]
    /\ slipped' = IF req[p].outdated THEN slipped \cup {req[p].body} ELSE slipped
    /\ Answers(p, Deciding(req[p].body))
    /\ UNCHANGED <<rates, type, customer>>

\* A settled invoice leaves a record of type OTHER, and nothing is looked for.
RecordOther(p, i) ==
    /\ At(p, "idle")
    /\ record[i] = None
    /\ record' = [record EXCEPT ![i] = <<Other, 1>>]
    /\ slipped' = IF TypeOf(<<Other, 1>>) = {} THEN slipped \cup {<<Other, 1>>} ELSE slipped
    /\ Answers(p, Deciding(<<Other, 1>>))
    /\ UNCHANGED <<rates, type, customer>>

\* A cost line is deleted.
RemoveRecord(i) ==
    /\ record[i] # None
    /\ record' = [record EXCEPT ![i] = None]
    /\ UNCHANGED <<rates, type, slipped, customer, req>>

TypeStep(p) ==
    \/ \E base \in Bases : TypeRead(p, base)
    \/ \E t \in TypeIds, isActive \in BOOLEAN : TypeCommit(p, t, isActive)
    \/ \E t \in TypeIds : RemoveTypeRead(p, t)
    \/ RemoveTypeCommit(p)
    \/ \E i \in Records, t \in TypeIds : IsType(t) /\ RecordRead(p, i, type[t].code)
    \/ RecordCommit(p)
    \/ \E i \in Records : RecordOther(p, i)

----------------------------------------------------------------------------
(* The status of a customer *)

\* Mutant: no remark is asked for.
AllowedAlways(row, body) == TRUE

\* A remark of blanks counts as none, and so does the remark the row has.
Allowed(row, body) == body.isActive \in {None, row.isActive} \/ body.remark = "text"

UpdateRead(p, c, body) ==
    /\ At(p, "idle")
    /\ Allowed(customer[c], body)
    /\ Goes(p, [IdleRegister EXCEPT !.pc = "customer", !.id = c, !.body = body])
    /\ UNCHANGED <<rates, types, customer>>

Updated(row, body) ==
    [isActive |-> Given(body.isActive, row.isActive), remark |-> Given(body.remark, row.remark)]

\* explained: history, the last change of status came with a remark or after
\* another change that its request had not seen.
UpdateCommit(p) ==
    /\ At(p, "customer")
    /\ LET c       == req[p].id
           row     == Updated(customer[c], req[p].body)
           changes == row.isActive # customer[c].isActive
       IN  /\ customer' = [customer EXCEPT ![c] =
                 [isActive |-> row.isActive, remark |-> row.remark,
                  explained |-> IF changes THEN req[p].body.remark = "text" \/ req[p].outdated
                                ELSE @.explained]]
           /\ Answers(p, {q \in Procs : At(q, "customer") /\ req[q].id = c /\ changes})
    /\ UNCHANGED <<rates, types>>

CustomerStep(p) ==
    \/ \E c \in Customers, isActive \in {None} \cup BOOLEAN, remark \in {None, "blank", "text"} :
          UpdateRead(p, c, [isActive |-> isActive, remark |-> remark])
    \/ UpdateCommit(p)

----------------------------------------------------------------------------

RegistersInit ==
    /\ rate \in [RateIds -> {None} \cup [percent : Percents, isDefault : BOOLEAN]]
    /\ \A r \in RateIds : IsRate(r) =>
          /\ rate[r].percent \in DOMAIN SeededRates /\ rate[r].isDefault = SeededRates[rate[r].percent]
          /\ FreePercent(rate[r].percent, r)
    /\ \A percent \in DOMAIN SeededRates : \E r \in RateIds : IsRate(r) /\ rate[r].percent = percent
    /\ \E other \in TypeIds :
          type = [t \in TypeIds |-> IF t = other THEN [code |-> <<Other, 1>>, isActive |-> TRUE]
                                    ELSE None]
    /\ record = [i \in Records |-> None]
    /\ customer = [c \in Customers |-> [isActive |-> TRUE, remark |-> None, explained |-> TRUE]]
    /\ req = [p \in Procs |-> IdleRegister]
    /\ missed = FALSE
    /\ chosen = (\E percent \in DOMAIN SeededRates : SeededRates[percent])
    /\ slipped = {}

\* A row that is gone, a value that is taken, a lost connection.
AbortRegister(p) ==
    /\ ~At(p, "idle")
    /\ Goes(p, IdleRegister)
    /\ UNCHANGED <<rates, types, customer>>

RegistersNext ==
    \/ \E p \in Procs : RateStep(p) \/ TypeStep(p) \/ CustomerStep(p) \/ AbortRegister(p)
    \/ \E r \in RateIds, percent \in DOMAIN SeededRates : SeedRate(r, percent)
    \/ \E t \in TypeIds, isActive \in BOOLEAN : UpdateType(t, isActive)
    \/ \E i \in Records : RemoveRecord(i)

RegistersSpec == RegistersInit /\ [][RegistersNext]_registersVars

----------------------------------------------------------------------------
(* Properties *)

\* Rows keep their types, and percents and codes are not used twice.
RegistersTypeOK ==
    /\ \A r \in RateIds : IsRate(r) =>
          /\ rate[r].percent \in Percents /\ rate[r].isDefault \in BOOLEAN
          /\ FreePercent(rate[r].percent, r)
    /\ \A t \in TypeIds : IsType(t) => TypeOf(type[t].code) = {t}
    /\ \A i \in Records : record[i] \in {None} \cup (Bases \X (1..Copies))
    /\ \A c \in Customers : customer[c].isActive \in BOOLEAN

\* "Mark one rate as the single default", "Cannot delete the default tax rate":
\* however creates, updates, marks and removals overlap, there is at most one
\* default, unless a rate was inserted as the default behind the back of the
\* last request that made one; and once there is one there is one, unless a
\* PATCH cleared its flag or it became the default while it was being removed.
DefaultIsSingle ==
    ~missed => Cardinality(Defaults) <= 1 /\ (chosen => Defaults # {})

\* "references ServiceType.code", "used by income records and cannot be
\* deleted": a code that a record names is that of a type, unless the record
\* was written while a removal of the type had counted its records, or the
\* type removed while the record had looked for it, or an invoice left it.
NamedTypeExists ==
    \A i \in Records : record[i] # None /\ record[i] \notin slipped => TypeOf(record[i]) # {}

\* "A remark is required when changing customer status": every status of a
\* customer came with a remark of its own, unless the status had changed since
\* the request compared it.
StatusHasRemark == \A c \in Customers : customer[c].explained

\* "Exactly one row is the default" (tax.prisma).  It is not: a PATCH may clear the
\* flag of the default, and no other rate takes its place.
ExactlyOneDefault == Cardinality(Defaults) = 1

\* "This service type is used by income records and cannot be deleted": a type
\* that records name stays.  It does not, for a record written after the count.
UsedTypeStays ==
    [][\A i \in Records, t \in TypeIds :
          record[i] # None /\ t \in TypeOf(record[i]) /\ record'[i] = record[i]
              => t \in TypeOf(record[i])']_registersVars

=============================================================================
