-------------------------------- MODULE Jobs --------------------------------
(***************************************************************************)
(* Clearance jobs: operations/operations.service.ts and the input of       *)
(* operations/dto/create-clearance-job.dto.ts, with the customers and the  *)
(* users a job refers to, which other services delete.                     *)
(*                                                                         *)
(* A create counts the jobs of its series, asks for the name of its staff  *)
(* and then inserts, in one transaction that locks nothing before the      *)
(* insert.  An update asks for the name before its transaction begins.     *)
(* The containers of a job are in ClearancePlans.                          *)
(***************************************************************************)
EXTENDS Requests, Integers, FiniteSets, Sequences

CONSTANTS
    JobIds,    \* primary keys of jobs, which no operation deletes
    Customers, \* primary keys of customers
    Users,     \* primary keys of users
    Years,     \* years of job dates
    TypedNumbers, \* job numbers entered by hand
    Texts,     \* B/L numbers as typed
    Trim,      \* each text without the blanks around it
    Blank,     \* the empty text
    Creates,   \* bodies of POST /clearance-jobs
    Updates,   \* bodies of PATCH /clearance-jobs/:id
    ByHand,    \* a staff name that is typed
    Absent     \* undefined: not in the body

VARIABLES
    job,       \* the ClearanceJob table
    customers, \* the customers there are
    users,     \* the users there are
    handmade   \* history: the series a number was typed in

jobsVars == <<job, customers, users, req, handmade>>

----------------------------------------------------------------------------
(* Numbers *)

\* What the transaction text starts with, REEXPORT before EXP, and the prefix.
Prefix == [IMP |-> "IMP", REEXPORT |-> "REEXPORT", EXP |-> "EXP", other |-> "JOB"]

Series == {<<Prefix[t], y>> : t \in DOMAIN Prefix, y \in Years}

\* <prefix>-<year>-<seq>.  A seq below one stands for a text that begins like
\* the series and ends in no number a count gives; series None for a text that
\* begins otherwise.
JobNumber == [series : Series \cup {None}, seq : Int]

SeriesOf(dto) == <<Prefix[dto.transaction], dto.year>>

NoJob == [number |-> None, customer |-> None, staff |-> None, staffName |-> None, bls |-> <<>>,
          bl |-> None, recordItems |-> <<>>, expenseItems |-> <<>>, fields |-> None]

JobExists(j) == job[j].number # None

JobsOf(s) == {j \in JobIds : JobExists(j) /\ job[j].number.series = s}

Seqs(s) == {job[j].number.seq : j \in JobsOf(s)}

nextJobNumber(s) == [series |-> s, seq |-> Cardinality(JobsOf(s)) + 1]

\* Mutant: two jobs may have one number.
FreeAlways(number) == TRUE

\* The unique index.
Free(number) == \A j \in JobIds : JobExists(j) => job[j].number # number

----------------------------------------------------------------------------
(* Bodies and rows *)

\* What a save computes of each inline row; the texts of a row are copied.
Numbered(items) ==
    [i \in DOMAIN items |->
        [items[i] EXCEPT !.itemNumber = IF @ \in {None, Absent} THEN i ELSE @]]

\* quantity in ten-thousandths, hsCode (the unit price) in cents; half up.
round2(n) == (n + 5000) \div 10000

withComputedAmount(items) ==
    [i \in DOMAIN items |->
        [Numbered(items)[i] EXCEPT !.amount = round2(items[i].quantity * items[i].hsCode)]]

BillRecordItem  == [itemNumber : Nat \cup {None, Absent}, quantity : Nat, hsCode : Nat, amount : Int]
BillExpenseItem == [itemNumber : Nat \cup {None, Absent}, amount : Nat]

\* fields: the columns a save copies as they come, the status among them.
CreateClearanceJobDto ==
    [jobNumber : {None} \cup TypedNumbers, transaction : DOMAIN Prefix, year : Years,
     customerId : Customers, assignedStaffId : {None} \cup Users,
     assignedStaff : {None, Absent, ByHand},
     blBookingNumber : {None, Absent} \cup Texts, blBookingNumbers : {Absent} \cup Seq(Texts),
     recordItems : Seq(BillRecordItem), expenseItems : Seq(BillExpenseItem), fields : STRING]

\* Every part may be missing.
UpdateClearanceJobDto ==
    [jobNumber : {Absent} \cup TypedNumbers, customerId : {Absent} \cup Customers, assignedStaffId : {None, Absent} \cup Users,
     assignedStaff : {None, Absent, ByHand},
     blBookingNumber : {None, Absent} \cup Texts, blBookingNumbers : {Absent} \cup Seq(Texts),
     recordItems : {Absent} \cup Seq(BillRecordItem),
     expenseItems : {Absent} \cup Seq(BillExpenseItem), fields : {Absent} \cup STRING]

ASSUME JobsAssumption ==
    /\ IsFiniteSet(JobIds)
    /\ TypedNumbers \subseteq JobNumber /\ None \notin JobNumber
    /\ Trim \in [Texts -> Texts] /\ Blank \in Texts
    /\ None # Absent
    /\ {None, Absent, ByHand} \cap (Customers \cup Users \cup Texts) = {}
    /\ \A text \in Texts : <<text>> # Absent

ASSUME BodiesAssumption ==
    /\ \A d \in Creates :
          /\ d.jobNumber \in {None} \cup TypedNumbers
          /\ d.transaction \in DOMAIN Prefix /\ d.year \in Years
          /\ d.customerId \in Customers /\ d.assignedStaffId \in {None} \cup Users
          /\ d.assignedStaff \in {None, Absent, ByHand}
          /\ d.blBookingNumber \in {None, Absent} \cup Texts
          /\ d.blBookingNumbers = Absent \/ d.blBookingNumbers \in Seq(Texts)
    /\ \A d \in Updates :
          /\ d.jobNumber \in {Absent} \cup TypedNumbers
          /\ d.customerId \in {Absent} \cup Customers
          /\ d.assignedStaffId \in {None, Absent} \cup Users
          /\ d.assignedStaff \in {None, Absent, ByHand}
          /\ d.blBookingNumber \in {None, Absent} \cup Texts
          /\ d.blBookingNumbers = Absent \/ d.blBookingNumbers \in Seq(Texts)

\* blWrites: the texts to store, Absent to leave those stored.
BlSource(dto) ==
    IF dto.blBookingNumbers # Absent THEN dto.blBookingNumbers
    ELSE IF dto.blBookingNumber \notin {None, Absent} THEN <<dto.blBookingNumber>>
    ELSE Absent

Cleaned(source) ==
    SelectSeq([i \in DOMAIN source |-> Trim[source[i]]], LAMBDA text : text # Blank)

\* Mutant: the primary B/L is the first text, before the blank ones are dropped.
PrimaryAsTyped(source) == IF source = <<>> THEN None ELSE Trim[Head(source)]

Primary(source) == LET bls == Cleaned(source) IN IF bls = <<>> THEN None ELSE Head(bls)

JobRow(number, dto, name) ==
    LET source == IF BlSource(dto) = Absent THEN <<>> ELSE BlSource(dto)
    IN  [number |-> number, customer |-> dto.customerId, staff |-> dto.assignedStaffId,
         staffName |-> name, bls |-> Cleaned(source), bl |-> Primary(source),
         recordItems |-> withComputedAmount(dto.recordItems),
         expenseItems |-> Numbered(dto.expenseItems), fields |-> dto.fields]

\* jobNumber is dropped from the body of an update.
NumberOf(row, dto) == row.number

Given(new, old) == IF new = Absent THEN old ELSE new

\* What a PATCH makes of a row: each part it has replaces the stored one, the
\* inline rows as a whole.  blBookingNumber: null alone clears the primary B/L.
Patched(row, dto, name) ==
    LET source == BlSource(dto)
    IN  [number |-> NumberOf(row, dto),
         customer |-> Given(dto.customerId, row.customer),
         staff |-> Given(dto.assignedStaffId, row.staff),
         staffName |-> Given(name, row.staffName),
         bls |-> IF source = Absent THEN row.bls ELSE Cleaned(source),
         bl |-> IF source # Absent THEN Primary(source) ELSE Given(dto.blBookingNumber, row.bl),
         recordItems |-> IF dto.recordItems = Absent THEN row.recordItems
                         ELSE withComputedAmount(dto.recordItems),
         expenseItems |-> IF dto.expenseItems = Absent THEN row.expenseItems
                          ELSE Numbered(dto.expenseItems),
         fields |-> Given(dto.fields, row.fields)]

----------------------------------------------------------------------------
(* Requests *)

IdleJob == [pc |-> "idle", dto |-> None, id |-> None, number |-> None, name |-> Absent]

JobsInit ==
    /\ job = [j \in JobIds |-> NoJob]
    /\ customers = Customers
    /\ users = Users
    /\ req = [p \in Procs |-> IdleJob]
    /\ handmade = {}

\* The first and last name of a user, if there is such a user: the key stands
\* for the name.
NameOf(user, otherwise) == IF user \in users THEN user ELSE otherwise

\* What the row refers to exists when it is written: the foreign keys.
Refers(row) == row.customer \in customers /\ row.staff \in {None} \cup users

CreateNumber(p, dto) ==
    /\ At(p, "idle")
    /\ Goes(p, [IdleJob EXCEPT !.pc = "naming", !.dto = dto,
                   !.number = IF dto.jobNumber # None THEN dto.jobNumber
                              ELSE nextJobNumber(SeriesOf(dto))])
    /\ UNCHANGED <<job, customers, users, handmade>>

\* A name in the body is taken; without one the user is asked for.
CreateName(p) ==
    /\ At(p, "naming")
    /\ LET dto == req[p].dto
            typed == IF dto.assignedStaff = Absent THEN None ELSE dto.assignedStaff
       IN  Goes(p, [IdleJob EXCEPT !.pc = "creating", !.dto = dto, !.number = req[p].number,
                      !.name = IF dto.assignedStaffId # None /\ typed = None
                               THEN NameOf(dto.assignedStaffId, None) ELSE typed])
    /\ UNCHANGED <<job, customers, users, handmade>>

CreateCommit(p, j) ==
    /\ At(p, "creating")
    /\ ~JobExists(j)
    /\ Free(req[p].number)
    /\ job' = [job EXCEPT ![j] = JobRow(req[p].number, req[p].dto, req[p].name)]
    /\ Refers(job'[j])
    /\ handmade' = IF req[p].dto.jobNumber = None THEN handmade
                   ELSE handmade \cup {req[p].number.series}
    /\ Goes(p, IdleJob)
    /\ UNCHANGED <<customers, users>>

\* Mutant: no name is looked up for a new member of staff.
UpdateNameKept(dto) == dto.assignedStaff

\* The name an update stores, Absent for none.
UpdateName(dto) ==
    IF dto.assignedStaffId \notin {None, Absent} /\ dto.assignedStaff = Absent
    THEN NameOf(dto.assignedStaffId, Absent) ELSE dto.assignedStaff

UpdateRead(p, j, dto) ==
    /\ At(p, "idle")
    /\ JobExists(j)
    /\ Goes(p, [IdleJob EXCEPT !.pc = "updating", !.dto = dto, !.id = j, !.name = UpdateName(dto)])
    /\ UNCHANGED <<job, customers, users, handmade>>

UpdateCommit(p) ==
    /\ At(p, "updating")
    /\ job' = [job EXCEPT ![req[p].id] = Patched(@, req[p].dto, req[p].name)]
    /\ Refers(job'[req[p].id])
    /\ Goes(p, IdleJob)
    /\ UNCHANGED <<customers, users, handmade>>

\* A number that is taken, a customer or a user that is gone, a lost connection.
AbortJob(p) ==
    /\ ~At(p, "idle")
    /\ Goes(p, IdleJob)
    /\ UNCHANGED <<job, customers, users, handmade>>

\* CustomersService.create and remove: a customer that a job refers to stays.
AddCustomer(c) ==
    /\ customers' = customers \cup {c}
    /\ UNCHANGED <<job, users, req, handmade>>

RemoveCustomer(c) ==
    /\ c \in customers
    /\ \A j \in JobIds : JobExists(j) => job[j].customer # c
    /\ customers' = customers \ {c}
    /\ UNCHANGED <<job, users, req, handmade>>

\* ON DELETE SET NULL: the job keeps the name.
Unassigned(row, u) == IF row.staff = u THEN [row EXCEPT !.staff = None] ELSE row

\* UsersService.remove.
RemoveUser(u) ==
    /\ u \in users
    /\ users' = users \ {u}
    /\ job' = [j \in JobIds |-> Unassigned(job[j], u)]
    /\ UNCHANGED <<customers, req, handmade>>

JobStep(p) ==
    \/ \E dto \in Creates : CreateNumber(p, dto)
    \/ CreateName(p)
    \/ \E j \in JobIds : CreateCommit(p, j)
    \/ \E j \in JobIds, dto \in Updates : UpdateRead(p, j, dto)
    \/ UpdateCommit(p)
    \/ AbortJob(p)

Elsewhere ==
    \/ \E c \in Customers : AddCustomer(c) \/ RemoveCustomer(c)
    \/ \E u \in Users : RemoveUser(u)

JobsNext == Elsewhere \/ \E p \in Procs : JobStep(p)

JobsSpec == JobsInit /\ [][JobsNext]_jobsVars

----------------------------------------------------------------------------
(* Properties *)

\* The tables, with the foreign keys of a job.
JobsTypeOK ==
    /\ customers \subseteq Customers /\ users \subseteq Users
    /\ handmade \subseteq Series \cup {None}
    /\ \A j \in JobIds : JobExists(j) =>
          /\ job[j].number \in JobNumber
          /\ Refers(job[j])
          /\ job[j].staffName \in {None, ByHand} \cup Users
    /\ \A p \in Procs : req[p].pc \in {"idle", "naming", "creating", "updating"}

\* The numbers of a series nobody typed in run from 1 without a gap or a
\* repetition, however the creates that counted them overlap, fail or are
\* retried: nextJobNumber with the unique index of create.
NumbersConsecutive ==
    \A s \in Series \ handmade : Seqs(s) = 1..Cardinality(JobsOf(s))

\* blWrites, through every mix of the two B/L fields in creates and updates:
\* the primary B/L of a job is the first of its B/Ls, unless it was cleared.
PrimaryIsFirst ==
    \A j \in JobIds : JobExists(j) /\ job[j].bl # None =>
        job[j].bls # <<>> /\ job[j].bl = Head(job[j].bls)

\* blWrites "keeps blBookingNumber in sync as the primary (first) entry".  It
\* does not when a PATCH has blBookingNumber: null and no array.
PrimaryInSync ==
    \A j \in JobIds : JobExists(j) =>
        job[j].bl = (IF job[j].bls = <<>> THEN None ELSE Head(job[j].bls))

\* The name that was looked up for a job is that of the member of staff it is
\* assigned to, through updates that overlap and users that are removed between
\* the look-up, outside the transaction, and the write.
NameIsAssigned ==
    \A j \in JobIds :
        JobExists(j) /\ job[j].staff # None /\ job[j].staffName \in Users =>
            job[j].staffName = job[j].staff

=============================================================================
