----------------------- MODULE JobsPlansUploadsProofs ----------------------
(***************************************************************************)
(* Proofs about three components that share nothing but the requests: Jobs *)
(* (numbers, B/Ls, staff), Uploads (rows, objects, links) and              *)
(* ClearancePlans (the containers of a job).                               *)
(***************************************************************************)
EXTENDS Jobs, Uploads, ClearancePlans, FiniteSetTheorems, TLAPS

----------------------------------------------------------------------------
(***************************************************************************)
(* Proofs about Jobs: its foreign keys, its numbers, its B/Ls and the name *)
(* of its staff, for any requests, bodies, customers, users and jobs.      *)
(*                                                                         *)
(* The numbers need to know of every request in flight that the number it  *)
(* was given is at most one more than the jobs its series has by now: jobs *)
(* are never deleted, so a count only falls behind.  A free number that is *)
(* at most one more than a run without gaps is the next one.               *)
(***************************************************************************)

Counts == [s \in Series |-> Cardinality(JobsOf(s))]

Made == {j \in JobIds : JobExists(j)}

\* A create in flight: the number it was given and the name it looked up.
Creating(r, counts) ==
    /\ r.dto \in Creates
    /\ r.number \in JobNumber
    /\ r.dto.jobNumber # None => r.number = r.dto.jobNumber
    /\ r.dto.jobNumber = None =>
          /\ r.number.series \in Series
          /\ r.number.seq \in 1..(counts[r.number.series] + 1)
    /\ r.pc = "creating" =>
          /\ r.name \in {None, ByHand} \cup Users
          /\ r.name \in Users => r.name = r.dto.assignedStaffId

\* An update in flight: without a name, the user it assigns is gone.
Updating(r, made, present) ==
    /\ r.dto \in Updates
    /\ r.id \in made
    /\ r.name \in {None, Absent, ByHand} \cup Users
    /\ r.name \in Users => r.name = r.dto.assignedStaffId
    /\ r.name = Absent /\ r.dto.assignedStaffId \in Users => r.dto.assignedStaffId \notin present

JobRequestOK(r, counts, made, present) ==
    \/ r.pc = "idle"
    \/ r.pc \in {"naming", "creating"} /\ Creating(r, counts)
    \/ r.pc = "updating" /\ Updating(r, made, present)

JobRequestsOK == \A p \in Procs : JobRequestOK(req[p], Counts, Made, users)

RowFields == {"number", "customer", "staff", "staffName", "bls", "bl", "recordItems",
              "expenseItems", "fields"}

JobShapes == DOMAIN req = Procs /\ DOMAIN job = JobIds /\ \A j \in JobIds : DOMAIN job[j] = RowFields

RowOK(row) ==
    /\ row.number \in JobNumber
    /\ Refers(row)
    /\ row.staffName \in {None, ByHand} \cup Users
    /\ row.bl # None => row.bls # <<>> /\ row.bl = Head(row.bls)
    /\ row.staff # None /\ row.staffName \in Users => row.staffName = row.staff

RowsOK == \A j \in JobIds : JobExists(j) => RowOK(job[j])

SetsOK == customers \subseteq Customers /\ users \subseteq Users /\ handmade \subseteq Series \cup {None}

JobsInv == JobShapes /\ SetsOK /\ RowsOK /\ JobRequestsOK /\ NumbersConsecutive

----------------------------------------------------------------------------
(* Counting *)

LEMMA CountsNat == \A s : IsFiniteSet(JobsOf(s)) /\ Cardinality(JobsOf(s)) \in Nat
<1> TAKE s
<1>1. JobsOf(s) \in SUBSET JobIds
      BY DEF JobsOf
<1> QED BY <1>1, JobsAssumption, FS_Subset, FS_CardinalityType

LEMMA Grows ==
    ASSUME NEW r, NEW made, NEW made2, NEW present, NEW present2,
           NEW counts \in [Series -> Nat], NEW counts2 \in [Series -> Nat],
           JobRequestOK(r, counts, made, present),
           \A s \in Series : counts[s] <= counts2[s],
           made \subseteq made2, present2 \subseteq present
    PROVE  JobRequestOK(r, counts2, made2, present2)
<1>1. ASSUME Creating(r, counts) PROVE Creating(r, counts2)
  <2>1. ASSUME r.number.series \in Series, r.number.seq \in 1..(counts[r.number.series] + 1)
        PROVE  r.number.seq \in 1..(counts2[r.number.series] + 1)
    <3>1. counts[r.number.series] \in Nat /\ counts2[r.number.series] \in Nat
          BY <2>1
    <3> QED BY <2>1, <3>1
  <2> QED BY <1>1, <2>1 DEF Creating
<1>2. ASSUME Updating(r, made, present) PROVE Updating(r, made2, present2)
      BY <1>2 DEF Updating
<1> QED BY <1>1, <1>2 DEF JobRequestOK

\* A step of one request that leaves the jobs alone.
LEMMA JobsQuiet ==
    ASSUME JobsInv, NEW p \in Procs, NEW r, Goes(p, r), JobRequestOK(r, Counts, Made, users),
           UNCHANGED <<job, customers, users, handmade>>
    PROVE  JobsInv'
<1>1. DOMAIN req' = Procs /\ req'[p] = r /\ \A q \in Procs \ {p} : req'[q] = req[q]
      BY DEF JobsInv, JobShapes, Goes
<1>2. Counts' = Counts /\ Made' = Made
      BY DEF Counts, Made, JobsOf, JobExists
<1>3. JobRequestsOK'
      BY <1>1, <1>2 DEF JobsInv, JobRequestsOK
<1>4. JobShapes' /\ SetsOK' /\ RowsOK'
      BY <1>1 DEF JobsInv, JobShapes, SetsOK, RowsOK, RowOK, Refers, JobExists
<1>5. NumbersConsecutive'
      BY DEF JobsInv, NumbersConsecutive, Seqs, JobsOf, JobExists
<1> QED BY <1>3, <1>4, <1>5 DEF JobsInv

LEMMA IdleJobOK == \A counts, made, present : JobRequestOK(IdleJob, counts, made, present)
BY DEF JobRequestOK, IdleJob

\* A step that keeps every number, or gives no job one.
LEMMA SameNumbers ==
    ASSUME \A j \in JobIds : job'[j].number = job[j].number,
           UNCHANGED handmade
    PROVE  Counts' = Counts /\ Made' = Made /\ (NumbersConsecutive => NumbersConsecutive')
<1>1. \A s : JobsOf(s)' = JobsOf(s) /\ Seqs(s)' = Seqs(s)
      BY DEF JobsOf, Seqs, JobExists
<1> QED BY <1>1 DEF Counts, Made, JobExists, NumbersConsecutive

----------------------------------------------------------------------------
(* The steps *)

LEMMA JobsInitInv == JobsInit => JobsInv
<1> SUFFICES ASSUME JobsInit PROVE JobsInv
    OBVIOUS
<1>1. \A j \in JobIds : ~JobExists(j)
      BY DEF JobsInit, NoJob, JobExists
<1>2. NumbersConsecutive
  <2>1. \A s : JobsOf(s) = {} /\ Seqs(s) = {}
        BY <1>1 DEF JobsOf, Seqs
  <2>2. Cardinality({}) = 0 /\ 1..0 = {}
        BY FS_EmptySet
  <2> QED BY <2>1, <2>2 DEF NumbersConsecutive
<1>3. JobShapes
      BY DEF JobsInit, JobShapes, NoJob, RowFields
<1>4. SetsOK /\ RowsOK
      BY <1>1 DEF JobsInit, SetsOK, RowsOK
<1>5. JobRequestsOK
      BY IdleJobOK DEF JobsInit, JobRequestsOK
<1> QED BY <1>2, <1>3, <1>4, <1>5 DEF JobsInv

LEMMA CreateNumberInv ==
    ASSUME JobsInv, NEW p \in Procs, NEW dto \in Creates, CreateNumber(p, dto)
    PROVE  JobsInv'
<1> DEFINE number == IF dto.jobNumber # None THEN dto.jobNumber ELSE nextJobNumber(SeriesOf(dto))
           r == [IdleJob EXCEPT !.pc = "naming", !.dto = dto, !.number = number]
<1>1. r.pc = "naming" /\ r.dto = dto /\ r.number = number
      BY DEF IdleJob
<1>2. SeriesOf(dto) \in Series
      BY BodiesAssumption DEF SeriesOf, Series
<1>3. CASE dto.jobNumber # None
      BY <1>3, <1>1, JobsAssumption, BodiesAssumption, JobsQuiet
         DEF CreateNumber, JobRequestOK, Creating
<1>4. CASE dto.jobNumber = None
  <2> DEFINE n == Cardinality(JobsOf(SeriesOf(dto)))
  <2>1. n \in Nat /\ Counts[SeriesOf(dto)] = n
        BY <1>2, CountsNat DEF Counts
  <2>2. number = [series |-> SeriesOf(dto), seq |-> n + 1]
        BY <1>4 DEF nextJobNumber
  <2>3. number \in JobNumber /\ number.series = SeriesOf(dto) /\ number.seq = n + 1
        BY <1>2, <2>1, <2>2 DEF JobNumber
  <2>4. number.seq \in 1..(Counts[number.series] + 1)
        BY <2>1, <2>3
  <2> HIDE DEF n, number
  <2>5. JobRequestOK(r, Counts, Made, users)
        BY <1>1, <1>2, <1>4, <2>3, <2>4 DEF JobRequestOK, Creating
  <2> QED BY <2>5, JobsQuiet DEF CreateNumber, number
<1> QED BY <1>3, <1>4

LEMMA CreateNameInv ==
    ASSUME JobsInv, NEW p \in Procs, CreateName(p)
    PROVE  JobsInv'
<1> DEFINE dto   == req[p].dto
           typed == IF dto.assignedStaff = Absent THEN None ELSE dto.assignedStaff
           name  == IF dto.assignedStaffId # None /\ typed = None
                    THEN NameOf(dto.assignedStaffId, None) ELSE typed
           r     == [IdleJob EXCEPT !.pc = "creating", !.dto = dto, !.number = req[p].number,
                       !.name = name]
<1>1. req[p].pc = "naming" /\ Creating(req[p], Counts)
      BY DEF JobsInv, JobRequestsOK, JobRequestOK, CreateName, At
<1>2. name \in {None, ByHand} \cup Users /\ (name \in Users => name = dto.assignedStaffId)
      BY <1>1, BodiesAssumption, JobsAssumption DEF Creating, NameOf, JobsInv, SetsOK
<1>3. r.pc = "creating" /\ r.dto = dto /\ r.number = req[p].number /\ r.name = name
      BY DEF IdleJob
<1>4. Goes(p, r) /\ UNCHANGED <<job, customers, users, handmade>>
      BY DEF CreateName
<1> HIDE DEF r, name, typed
<1>5. JobRequestOK(r, Counts, Made, users)
      BY <1>1, <1>2, <1>3 DEF JobRequestOK, Creating
<1> QED BY <1>4, <1>5, JobsQuiet

\* The row of a create, which has the number, the customer, the staff and the
\* name of its request.
LEMMA RowFacts ==
    ASSUME NEW number, NEW dto, NEW name
    PROVE  /\ DOMAIN JobRow(number, dto, name) = RowFields
           /\ JobRow(number, dto, name).number = number
           /\ JobRow(number, dto, name).staff = dto.assignedStaffId
           /\ JobRow(number, dto, name).staffName = name
           /\ LET row == JobRow(number, dto, name)
              IN  row.bl # None => row.bls # <<>> /\ row.bl = Head(row.bls)
BY DEF JobRow, RowFields, Primary

LEMMA CreateCommitInv ==
    ASSUME JobsInv, NEW p \in Procs, NEW j \in JobIds, CreateCommit(p, j)
    PROVE  JobsInv'
<1> SUFFICES ASSUME NEW r, r = req[p] PROVE JobsInv'
    OBVIOUS
<1> DEFINE row == JobRow(r.number, r.dto, r.name)
           s   == r.number.series
           n   == Cardinality(JobsOf(s))
<1>1. r.pc = "creating" /\ Creating(r, Counts)
      BY DEF JobsInv, JobRequestsOK, JobRequestOK, CreateCommit, At
<1>2. /\ DOMAIN job' = JobIds /\ job'[j] = row
      /\ \A i \in JobIds \ {j} : job'[i] = job[i]
      BY DEF CreateCommit, JobsInv, JobShapes
<1>3. r.number \in JobNumber /\ row.number = r.number /\ row.number # None
      BY <1>1, RowFacts, JobsAssumption DEF Creating
<1> HIDE DEF row
<1>4. JobsOf(s)' = JobsOf(s) \cup {j} /\ j \notin JobsOf(s)
      BY <1>2, <1>3 DEF JobsOf, JobExists, CreateCommit
<1>5. \A x : x # s => JobsOf(x)' = JobsOf(x) /\ Seqs(x)' = Seqs(x)
      BY <1>2, <1>3 DEF JobsOf, Seqs, JobExists, CreateCommit
<1>6. n \in Nat /\ Cardinality(JobsOf(s))' = n + 1
      BY <1>4, CountsNat, FS_AddElement
<1>7. \A x \in Series : Counts[x] \in Nat /\ Counts'[x] \in Nat /\ Counts[x] <= Counts'[x]
      BY <1>5, <1>6, CountsNat DEF Counts
<1>8. Counts \in [Series -> Nat] /\ Counts' \in [Series -> Nat]
      BY <1>7 DEF Counts
<1>9. Made \subseteq Made'
      BY <1>2, <1>3 DEF Made, JobExists, CreateCommit
<1>10. JobRequestsOK'
  <2>1. users' = users /\ DOMAIN req' = Procs /\ req'[p] = IdleJob
        /\ \A q \in Procs \ {p} : req'[q] = req[q]
        BY DEF CreateCommit, Goes, JobsInv, JobShapes
  <2>2. \A q \in Procs \ {p} : JobRequestOK(req[q], Counts', Made', users)
        BY <1>7, <1>8, <1>9, Grows DEF JobsInv, JobRequestsOK
  <2> QED BY <2>1, <2>2, IdleJobOK DEF JobRequestsOK
<1>11. Seqs(s)' = Seqs(s) \cup {r.number.seq}
  <2>1. \A i \in JobsOf(s) : i # j /\ i \in JobIds /\ job'[i].number.seq = job[i].number.seq
        BY <1>2, <1>4 DEF JobsOf
  <2> QED BY <1>2, <1>3, <1>4, <2>1 DEF Seqs
<1>12. NumbersConsecutive'
  <2> SUFFICES ASSUME NEW x \in Series \ handmade'
               PROVE  Seqs(x)' = 1..Cardinality(JobsOf(x))'
      BY DEF NumbersConsecutive
  <2>1. x \in Series \ handmade
        BY DEF CreateCommit
  <2>2. Seqs(x) = 1..Cardinality(JobsOf(x))
        BY <2>1 DEF JobsInv, NumbersConsecutive
  <2>3. CASE x # s
        BY <2>2, <2>3, <1>5
  <2>4. CASE x = s
    <3>1. r.dto.jobNumber = None
          BY <2>4 DEF CreateCommit
    <3>2. r.number.seq \in 1..(n + 1)
          BY <3>1, <1>1, <2>4, <2>1 DEF Creating, Counts
    <3>3. r.number.seq \notin Seqs(s)
      <4> SUFFICES ASSUME NEW i \in JobsOf(s), job[i].number.seq = r.number.seq PROVE FALSE
          BY DEF Seqs
      <4>1. i \in JobIds /\ JobExists(i) /\ job[i].number.series = s
            BY DEF JobsOf
      <4>2. job[i].number \in JobNumber
            BY <4>1 DEF JobsInv, RowsOK, RowOK
      <4>3. job[i].number = r.number
            BY <4>1, <4>2, <1>3 DEF JobNumber
      <4> QED BY <4>1, <4>3 DEF CreateCommit, Free
    <3>4. r.number.seq = n + 1
          BY <3>2, <3>3, <2>2, <2>4, <1>6
    <3>5. (1..n) \cup {n + 1} = 1..(n + 1)
          BY <1>6
    <3> QED BY <3>4, <3>5, <1>6, <1>11, <2>2, <2>4
  <2> QED BY <2>3, <2>4
<1>13. JobShapes'
      BY <1>2, RowFacts DEF JobShapes, JobsInv, CreateCommit, Goes, row
<1>14. handmade' \subseteq Series \cup {None}
      BY <1>1, <1>3 DEF CreateCommit, JobsInv, SetsOK, JobNumber
<1>15. RowOK(row)'
  <2>1. Refers(row)'
        BY <1>2 DEF CreateCommit, Refers
  <2> QED BY <2>1, <1>1, <1>3, RowFacts DEF RowOK, Creating, row
<1>16. RowsOK' /\ SetsOK'
      BY <1>2, <1>14, <1>15 DEF CreateCommit, JobsInv, SetsOK, RowsOK, RowOK, Refers, JobExists
<1> QED BY <1>10, <1>12, <1>13, <1>16 DEF JobsInv

LEMMA UpdateReadInv ==
    ASSUME JobsInv, NEW p \in Procs, NEW j \in JobIds, NEW dto \in Updates, UpdateRead(p, j, dto)
    PROVE  JobsInv'
<1> DEFINE name == UpdateName(dto)
           r    == [IdleJob EXCEPT !.pc = "updating", !.dto = dto, !.id = j, !.name = name]
<1>1. r.pc = "updating" /\ r.dto = dto /\ r.id = j /\ r.name = name
      BY DEF IdleJob
<1>2. Goes(p, r) /\ UNCHANGED <<job, customers, users, handmade>> /\ j \in Made
      BY DEF UpdateRead, Made
<1>3. /\ name \in {None, Absent, ByHand} \cup Users
      /\ name \in Users => name = dto.assignedStaffId
      /\ name = Absent /\ dto.assignedStaffId \in Users => dto.assignedStaffId \notin users
      BY BodiesAssumption, JobsAssumption DEF UpdateName, NameOf, JobsInv, SetsOK
<1> HIDE DEF name, r
<1>4. JobRequestOK(r, Counts, Made, users)
      BY <1>1, <1>2, <1>3 DEF JobRequestOK, Updating
<1> QED BY <1>2, <1>4, JobsQuiet

\* A row that is patched is sound if what it refers to is there.
LEMMA PatchedOK ==
    ASSUME JobsInv, NEW row, RowOK(row), NEW dto \in Updates, NEW name,
           name \in {None, Absent, ByHand} \cup Users,
           name \in Users => name = dto.assignedStaffId,
           name = Absent /\ dto.assignedStaffId \in Users => dto.assignedStaffId \notin users,
           Refers(Patched(row, dto, name))
    PROVE  RowOK(Patched(row, dto, name))
<1> DEFINE new    == Patched(row, dto, name)
           source == BlSource(dto)
<1>1. /\ new.number = row.number
      /\ new.staff = Given(dto.assignedStaffId, row.staff)
      /\ new.staffName = Given(name, row.staffName)
      /\ new.bls = (IF source = Absent THEN row.bls ELSE Cleaned(source))
      /\ new.bl = (IF source # Absent THEN Primary(source) ELSE Given(dto.blBookingNumber, row.bl))
      BY DEF Patched, NumberOf
<1>2. dto.assignedStaffId \in {None, Absent} \cup Users
      BY BodiesAssumption
<1>3. new.staff \in {None} \cup users
      BY DEF Refers
<1> HIDE DEF new
<1>4. new.staffName \in {None, ByHand} \cup Users
      BY <1>1 DEF Given, RowOK
<1>5. new.staff # None /\ new.staffName \in Users => new.staffName = new.staff
  <2> SUFFICES ASSUME new.staff # None, new.staffName \in Users PROVE new.staffName = new.staff
      OBVIOUS
  <2>1. CASE name = Absent
    <3>1. dto.assignedStaffId \notin Users
          BY <1>1, <1>2, <1>3, <2>1, JobsAssumption DEF Given
    <3>2. new.staff = row.staff /\ new.staffName = row.staffName
          BY <1>1, <1>2, <2>1, <3>1 DEF Given
    <3> QED BY <3>2 DEF RowOK
  <2>2. CASE name # Absent
    <3>1. new.staffName = name /\ name = dto.assignedStaffId
          BY <1>1, <2>2 DEF Given
    <3> QED BY <1>1, <3>1, <2>2 DEF Given
  <2> QED BY <2>1, <2>2
<1>6. new.bl # None => new.bls # <<>> /\ new.bl = Head(new.bls)
  <2>1. CASE source # Absent
        BY <1>1, <2>1 DEF Primary
  <2>2. CASE source = Absent
    <3>1. dto.blBookingNumber \in {None, Absent}
          BY <2>2, BodiesAssumption, JobsAssumption DEF BlSource
    <3> QED BY <1>1, <2>2, <3>1 DEF Given, RowOK
  <2> QED BY <2>1, <2>2
<1> QED BY <1>1, <1>4, <1>5, <1>6 DEF RowOK, new

LEMMA UpdateCommitInv ==
    ASSUME JobsInv, NEW p \in Procs, UpdateCommit(p)
    PROVE  JobsInv'
<1> SUFFICES ASSUME NEW r, r = req[p] PROVE JobsInv'
    OBVIOUS
<1>1. r.pc = "updating" /\ Updating(r, Made, users)
      BY DEF JobsInv, JobRequestsOK, JobRequestOK, UpdateCommit, At
<1>2. r.id \in JobIds /\ JobExists(r.id)
      BY <1>1 DEF Updating, Made
<1>3. /\ DOMAIN job' = JobIds /\ job'[r.id] = Patched(job[r.id], r.dto, r.name)
      /\ \A i \in JobIds \ {r.id} : job'[i] = job[i]
      BY <1>2 DEF UpdateCommit, JobsInv, JobShapes
<1>4. RowOK(job'[r.id])
      BY <1>1, <1>2, <1>3, PatchedOK DEF UpdateCommit, Updating, JobsInv, RowsOK
<1>5. \A i \in JobIds : job'[i].number = job[i].number
      BY <1>3 DEF Patched, NumberOf
<1>6. Counts' = Counts /\ Made' = Made /\ NumbersConsecutive'
      BY <1>5, SameNumbers DEF UpdateCommit, JobsInv
<1>7. JobRequestsOK'
      BY <1>6, IdleJobOK DEF UpdateCommit, Goes, JobsInv, JobShapes, JobRequestsOK
<1>8. JobShapes'
      BY <1>3 DEF UpdateCommit, Goes, JobsInv, JobShapes, Patched, RowFields
<1>9. RowsOK' /\ SetsOK'
      BY <1>3, <1>4, <1>5 DEF UpdateCommit, JobsInv, SetsOK, RowsOK, RowOK, Refers, JobExists
<1> QED BY <1>6, <1>7, <1>8, <1>9 DEF JobsInv

LEMMA AbortJobInv ==
    ASSUME JobsInv, NEW p \in Procs, AbortJob(p)
    PROVE  JobsInv'
BY IdleJobOK, JobsQuiet DEF AbortJob

LEMMA CustomerInv ==
    ASSUME JobsInv, NEW c \in Customers, AddCustomer(c) \/ RemoveCustomer(c)
    PROVE  JobsInv'
<1>1. Counts' = Counts /\ Made' = Made /\ NumbersConsecutive'
      BY SameNumbers DEF AddCustomer, RemoveCustomer, JobsInv
<1>2. JobRequestsOK' /\ JobShapes' /\ SetsOK'
      BY <1>1 DEF AddCustomer, RemoveCustomer, JobsInv, JobRequestsOK, JobShapes, SetsOK
<1>3. RowsOK'
      BY DEF AddCustomer, RemoveCustomer, JobsInv, RowsOK, RowOK, Refers, JobExists
<1> QED BY <1>1, <1>2, <1>3 DEF JobsInv

LEMMA RemoveUserInv ==
    ASSUME JobsInv, NEW u \in Users, RemoveUser(u)
    PROVE  JobsInv'
<1>1. /\ DOMAIN job' = JobIds /\ \A j \in JobIds : job'[j] = Unassigned(job[j], u)
      /\ users' = users \ {u} /\ UNCHANGED <<customers, req, handmade>>
      BY DEF RemoveUser
<1>2. \A j \in JobIds : LET new == Unassigned(job[j], u)
                        IN  /\ DOMAIN new = RowFields /\ new.number = job[j].number
                            /\ new.customer = job[j].customer /\ new.staffName = job[j].staffName
                            /\ new.bl = job[j].bl /\ new.bls = job[j].bls
                            /\ new.staff = (IF job[j].staff = u THEN None ELSE job[j].staff)
      BY DEF Unassigned, JobsInv, JobShapes, RowFields
<1>3. Counts' = Counts /\ Made' = Made /\ NumbersConsecutive'
      BY <1>1, <1>2, SameNumbers DEF JobsInv
<1>4. JobRequestsOK'
  <2>1. Counts \in [Series -> Nat]
        BY CountsNat DEF Counts
  <2> QED BY <1>1, <1>3, <2>1, Grows DEF JobsInv, JobRequestsOK
<1>5. JobShapes' /\ SetsOK'
      BY <1>1, <1>2 DEF JobsInv, JobShapes, SetsOK
<1>6. RowsOK'
  <2> SUFFICES ASSUME NEW j \in JobIds, JobExists(j)' PROVE RowOK(job[j])'
      BY DEF RowsOK
  <2>1. RowOK(job[j])
        BY <1>1, <1>2 DEF JobExists, JobsInv, RowsOK
  <2> QED BY <1>1, <1>2, <2>1 DEF RowOK, Refers
<1> QED BY <1>3, <1>4, <1>5, <1>6 DEF JobsInv

----------------------------------------------------------------------------
(* Theorems *)

LEMMA JobsNextInv == JobsInv /\ [JobsNext]_jobsVars => JobsInv'
<1> SUFFICES ASSUME JobsInv, [JobsNext]_jobsVars PROVE JobsInv'
    OBVIOUS
<1>1. ASSUME NEW p \in Procs, JobStep(p) PROVE JobsInv'
      BY <1>1, CreateNumberInv, CreateNameInv, CreateCommitInv, UpdateReadInv, UpdateCommitInv,
         AbortJobInv DEF JobStep
<1>2. CASE Elsewhere
      BY <1>2, CustomerInv, RemoveUserInv DEF Elsewhere
<1>3. CASE UNCHANGED jobsVars
  <2>1. Counts' = Counts /\ Made' = Made /\ NumbersConsecutive'
        BY <1>3, SameNumbers DEF jobsVars, JobsInv
  <2>2. JobRequestsOK' /\ JobShapes' /\ SetsOK' /\ RowsOK'
        BY <1>3, <2>1 DEF jobsVars, JobsInv, JobRequestsOK, JobShapes, SetsOK, RowsOK, RowOK, Refers, JobExists
  <2> QED BY <2>1, <2>2 DEF JobsInv
<1> QED BY <1>1, <1>2, <1>3 DEF JobsNext

LEMMA JobsAlwaysInv == JobsSpec => []JobsInv
BY JobsInitInv, JobsNextInv, PTL DEF JobsSpec

\* Every job refers to a customer and a user that there are, through all creates and
\* updates of jobs and all deletions of customers and users.
THEOREM JobsTypeCorrect == JobsSpec => []JobsTypeOK
<1>1. JobsInv => JobsTypeOK
      BY DEF JobsInv, SetsOK, RowsOK, RowOK, JobRequestsOK, JobRequestOK, JobsTypeOK
<1> QED BY <1>1, JobsAlwaysInv, PTL

\* In a series that nobody typed a number in, the jobs are numbered from 1 without a gap
\* or a repetition, whatever creates overlap, collide and fail (nextJobNumber).
THEOREM JobNumbersConsecutive == JobsSpec => []NumbersConsecutive
<1>1. JobsInv => NumbersConsecutive
      BY DEF JobsInv
<1> QED BY <1>1, JobsAlwaysInv, PTL

\* The primary B/L of a job is the first of its B/Ls or absent (blWrites).
THEOREM PrimaryAlwaysFirst == JobsSpec => []PrimaryIsFirst
<1>1. JobsInv => PrimaryIsFirst
      BY DEF JobsInv, RowsOK, RowOK, PrimaryIsFirst
<1> QED BY <1>1, JobsAlwaysInv, PTL

\* A looked-up name is that of the assigned user, although update looks it up before its
\* transaction begins.
THEOREM NameAlwaysAssigned == JobsSpec => []NameIsAssigned
<1>1. JobsInv => NameIsAssigned
      BY DEF JobsInv, RowsOK, RowOK, NameIsAssigned
<1> QED BY <1>1, JobsAlwaysInv, PTL

----------------------------------------------------------------------------
(***************************************************************************)
(* Proofs about Uploads: rows, objects and links, for any requests, files, *)
(* sizes, owners and bodies.                                               *)
(*                                                                         *)
(* What a request in flight knows of its file stays true in spite of the   *)
(* others, and RequestOK says how far: a row that is being inserted has no *)
(* rival, a size that was measured is that of the object unless the client *)
(* put again or the object was deleted, and an object deleted ahead of its *)
(* row comes back only as a stray.                                         *)
(***************************************************************************)

\* A file that was found: removed since, or still that of its owner.
Found(r) ==
    /\ r.id \in Files
    /\ \/ file[r.id] = Gone
       \/ file[r.id] \in FileUpload /\ file[r.id].owner = r.row.owner

RequestOK(r) ==
    \/ r.pc = "idle" /\ r.id = None
    \/ /\ r.pc = "inserting" /\ r.id \in Files /\ r.id \in stray
       /\ file[r.id] = None
       /\ r.row \in FileUpload /\ r.row.status = "UPLOADED" /\ r.row.size = r.size
       /\ bucket[r.id] = r.size /\ r.size \in Sizes /\ ~TooLarge(r.size)
    \/ r.pc = "linking" /\ Found(r) /\ (file[r.id] # Gone => file[r.id].status = "UPLOADED")
    \/ r.pc = "heading" /\ Found(r)
    \/ /\ r.pc = "marking" /\ Found(r)
       /\ r.size \in Sizes /\ ~TooLarge(r.size)
       /\ ~r.outdated /\ r.id \notin torn => bucket[r.id] = r.size
    \/ r.pc = "evicting" /\ r.id \in Files /\ file[r.id] # None
    \/ r.pc = "deleting" /\ r.id \in Files /\ file[r.id] # None /\ r.id \in torn \cup stray
    \/ r.pc = "wiping" /\ r.id = None /\ \A f \in r.doomed : f \in Files /\ file[f] # None
    \/ /\ r.pc = "wiped" /\ r.id = None
       /\ \A f \in r.doomed : f \in Files /\ file[f] # None /\ f \in torn \cup stray

RequestsOK == \A p \in Procs : RequestOK(req[p])

\* A row that is being inserted is known to one request alone.
Alone == \A p, q \in Procs : p # q /\ At(p, "inserting") => req[q].id # req[p].id

FileOK(f) ==
    /\ file[f] \in {None, Gone} \cup FileUpload
    /\ bucket[f] \in {None} \cup Sizes
    /\ Uploaded(f) => file[f].size # None
    /\ f \in urls => file[f] # None
    /\ f \in torn => file[f] # None /\ bucket[f] = None

FilesOK == \A f \in Files : FileOK(f)

\* Only a body writes a text that is no file's key.
LinksOK ==
    \A o \in Owners :
        /\ link[o] \in [key : {None} \cup Files \cup LinkTexts, by : {"upload", "body"}]
        /\ link[o].by = "upload" => link[o].key \in Files

Fields == {"pc", "id", "row", "size", "outdated", "doomed"}

Shapes ==
    /\ DOMAIN req = Procs /\ \A p \in Procs : DOMAIN req[p] = Fields
    /\ DOMAIN file = Files /\ DOMAIN bucket = Files /\ urls \subseteq Files
    /\ DOMAIN link = Owners

Inv ==
    /\ Shapes /\ FilesOK /\ LinksOK /\ RequestsOK /\ Alone
    /\ UploadedIsStored /\ ObjectHasRow /\ LinkShowsUpload

----------------------------------------------------------------------------
(* What steps keep *)

\* A step never takes a file back: not its row, its owner, its status, nor the
\* record of an object deleted ahead of its row.
Moves(f) ==
    /\ file[f] # None => file'[f] # None
    /\ file[f] = Gone => file'[f] = Gone
    /\ file[f] \in FileUpload =>
          \/ file'[f] = Gone
          \/ /\ file'[f] \in FileUpload /\ file'[f].owner = file[f].owner
             /\ file[f].status = "UPLOADED" => file'[f].status = "UPLOADED"
    /\ file[f] # None /\ f \in torn \cup stray => f \in torn' \cup stray'

\* The object of a file stays, or is deleted.
Keeps(f) == f \in torn' \/ (f \notin torn /\ bucket'[f] = bucket[f])

LEMMA StaysOK ==
    ASSUME NEW r, RequestOK(r), \A f \in Files : Moves(f),
           r.pc = "inserting" => /\ file'[r.id] = file[r.id] /\ bucket'[r.id] = bucket[r.id]
                                 /\ r.id \in stray',
           r.pc = "marking" => r.outdated \/ Keeps(r.id)
    PROVE  RequestOK(r)'
<1>1. CASE r.pc \in {"idle", "inserting", "evicting", "deleting", "wiping", "wiped"}
      BY <1>1 DEF RequestOK, Moves
<1>2. Found(r) => Found(r)'
      BY NoneAssumption DEF Found, Moves
<1>3. CASE r.pc = "linking"
      BY <1>2, <1>3, NoneAssumption DEF RequestOK, Found, Moves
<1>4. CASE r.pc \in {"heading", "marking"}
      BY <1>2, <1>4 DEF RequestOK, Keeps
<1>5. r.pc \in {"idle", "inserting", "linking", "heading", "marking", "evicting", "deleting",
                "wiping", "wiped"}
      BY DEF RequestOK
<1> QED BY <1>1, <1>3, <1>4, <1>5

\* A request that does not insert, and knows a file that has a row, has no rival.
LEMMA NoRival ==
    ASSUME Inv, NEW p \in Procs, NEW r, Goes(p, r), r.pc # "inserting",
           r.id \in {req[p].id, None} \/ file[r.id] # None
    PROVE  Alone'
<1> SUFFICES ASSUME NEW a \in Procs, NEW b \in Procs, a # b, req'[a].pc = "inserting",
                    req'[b].id = req'[a].id
             PROVE  FALSE
    BY DEF Alone, At
<1>1. a # p /\ req'[a] = req[a]
      BY DEF Goes, Inv, Shapes
<1>2. req[a].id \in Files /\ file[req[a].id] = None
      BY <1>1 DEF Inv, RequestsOK, RequestOK
<1>3. CASE b # p
      BY <1>1, <1>3 DEF Goes, Inv, Shapes, Alone, At
<1>4. CASE b = p
  <2>1. req'[b] = r
        BY <1>4 DEF Goes, Inv, Shapes
  <2> QED BY <1>1, <1>2, <1>4, <2>1, NoneAssumption DEF Inv, Alone, At
<1> QED BY <1>3, <1>4

\* A step of one request that leaves the tables and the bucket alone.
LEMMA Quiet ==
    ASSUME Inv, NEW p \in Procs, NEW r, Goes(p, r), DOMAIN r = Fields,
           RequestOK(r), r.pc # "inserting",
           r.id \in {req[p].id, None} \/ file[r.id] # None,
           UNCHANGED <<file, bucket, urls, link, torn, stray, rewritten>>
    PROVE  Inv'
<1>1. DOMAIN req' = Procs /\ req'[p] = r /\ \A q \in Procs \ {p} : req'[q] = req[q]
      BY DEF Goes, Inv, Shapes
<1>2. \A q \in Procs : RequestOK(req'[q])
      BY <1>1 DEF Inv, RequestsOK
<1>3. RequestsOK'
      BY <1>2 DEF RequestsOK, RequestOK, Found
<1>4. Shapes' /\ FilesOK' /\ LinksOK'
      BY <1>1 DEF Inv, Shapes, FilesOK, FileOK, LinksOK, Uploaded, Exists
<1>5. UploadedIsStored' /\ ObjectHasRow' /\ LinkShowsUpload'
      BY DEF Inv, UploadedIsStored, ObjectHasRow, LinkShowsUpload, Uploaded, Exists
<1> QED BY <1>3, <1>4, <1>5, NoRival DEF Inv

LEMMA IdleOK == RequestOK(Idle) /\ DOMAIN Idle = Fields /\ Idle.pc = "idle" /\ Idle.id = None
BY DEF RequestOK, Idle, Fields

LEMMA InitInv == Init => Inv
<1> SUFFICES ASSUME Init PROVE Inv
    OBVIOUS
<1>1. Shapes /\ RequestsOK /\ Alone
      BY IdleOK DEF Init, Shapes, RequestsOK, Alone, At
<1>2. FilesOK /\ LinksOK /\ UploadedIsStored /\ ObjectHasRow /\ LinkShowsUpload
      BY DEF Init, FilesOK, FileOK, LinksOK, UploadedIsStored, ObjectHasRow, LinkShowsUpload,
             Uploaded, Exists
<1> QED BY <1>1, <1>2 DEF Inv

----------------------------------------------------------------------------
(* Steps that leave the tables and the bucket alone *)

LEMMA FoundNow == ASSUME Inv, NEW f \in Files, Exists(f) PROVE file[f] \in FileUpload /\ file[f] # None
BY DEF Inv, FilesOK, FileOK, Exists

LEMMA ConfirmFindInv ==
    ASSUME Inv, NEW p \in Procs, NEW f \in Files, ConfirmFind(p, f) PROVE Inv'
<1> DEFINE r == [Idle EXCEPT !.pc = "heading", !.id = f, !.row = file[f]]
<1>1. DOMAIN r = Fields /\ RequestOK(r) /\ r.pc # "inserting" /\ file[r.id] # None
      BY FoundNow DEF ConfirmFind, RequestOK, Found, Idle, Fields
<1> QED BY <1>1, Quiet DEF ConfirmFind

LEMMA RemoveFindInv ==
    ASSUME Inv, NEW p \in Procs, NEW f \in Files, RemoveFind(p, f) PROVE Inv'
<1> DEFINE r == [Idle EXCEPT !.pc = "evicting", !.id = f]
<1>1. DOMAIN r = Fields /\ RequestOK(r) /\ r.pc # "inserting" /\ file[r.id] # None
      BY FoundNow DEF RemoveFind, RequestOK, Idle, Fields
<1> QED BY <1>1, Quiet DEF RemoveFind

LEMMA ResetFindInv ==
    ASSUME Inv, NEW p \in Procs, ResetFind(p) PROVE Inv'
<1> DEFINE r == [Idle EXCEPT !.pc = "wiping", !.doomed = Doomed]
<1>1. DOMAIN r = Fields /\ RequestOK(r) /\ r.pc # "inserting" /\ r.id = None
      BY FoundNow DEF ResetFind, RequestOK, Idle, Fields, Doomed
<1> QED BY <1>1, Quiet DEF ResetFind

LEMMA AbortInv ==
    ASSUME Inv, NEW p \in Procs, Abort(p) PROVE Inv'
BY IdleOK, Quiet DEF Abort

\* The size is that of the object, which a deletion has not taken yet.
LEMMA ConfirmHeadInv ==
    ASSUME Inv, NEW p \in Procs, ConfirmHead(p) PROVE Inv'
<1> DEFINE f == req[p].id
           size == bucket[f]
           r == [req[p] EXCEPT !.pc = IF TooLarge(size) THEN "evicting" ELSE "marking", !.size = size]
<1>1. req[p].pc = "heading" /\ DOMAIN req[p] = Fields /\ Found(req[p]) /\ bucket[f] # None
      BY DEF ConfirmHead, headObject, At, Inv, RequestsOK, RequestOK, Shapes
<1>2. f \in Files /\ file[f] # None /\ size \in Sizes /\ f \notin torn
      BY <1>1, NoneAssumption, UploadsAssumption DEF Found, Inv, FilesOK, FileOK
<1>3. /\ DOMAIN r = Fields /\ r.id = f /\ r.size = size /\ r.row = req[p].row
      /\ r.pc = IF TooLarge(size) THEN "evicting" ELSE "marking"
      BY <1>1 DEF Fields
<1>4. RequestOK(r) /\ r.pc # "inserting"
      BY <1>1, <1>2, <1>3 DEF RequestOK, Found
<1> QED BY <1>2, <1>3, <1>4, Quiet DEF ConfirmHead

----------------------------------------------------------------------------
(* Steps that change them *)

LEMMA Others ==
    ASSUME Inv, NEW p \in Procs, NEW r, Goes(p, r), DOMAIN r = Fields, RequestOK(r)',
           \A f \in Files : Moves(f),
           \A q \in Procs \ {p} : At(q, "inserting") =>
               /\ file'[req[q].id] = file[req[q].id] /\ bucket'[req[q].id] = bucket[req[q].id]
               /\ req[q].id \in stray',
           \A q \in Procs \ {p} : At(q, "marking") => req[q].outdated \/ Keeps(req[q].id)
    PROVE  RequestsOK' /\ DOMAIN req' = Procs /\ \A q \in Procs : DOMAIN req'[q] = Fields
<1>1. DOMAIN req' = Procs /\ req'[p] = r /\ \A q \in Procs \ {p} : req'[q] = req[q]
      BY DEF Goes, Inv, Shapes
<1>2. ASSUME NEW q \in Procs PROVE RequestOK(req[q])'
  <2>1. CASE q = p
        BY <1>1, <2>1
  <2>2. CASE q # p
    <3>1. PICK s : s = req[q]
          OBVIOUS
    <3>2. RequestOK(s)
          BY <3>1 DEF Inv, RequestsOK
    <3>3. RequestOK(s)'
          BY <2>2, <3>1, <3>2, StaysOK DEF At
    <3>4. req'[q] = s
          BY <1>1, <2>2, <3>1
    <3> QED BY <3>3, <3>4
  <2> QED BY <2>1, <2>2
<1> QED BY <1>1, <1>2 DEF RequestsOK, Inv, Shapes

LEMMA CreatePutInv ==
    ASSUME Inv, NEW p \in Procs, NEW f \in Files, NEW body \in Bodies, NEW size \in Sizes,
           CreatePut(p, f, body, size)
    PROVE  Inv'
<1> DEFINE r == [Idle EXCEPT !.pc = "inserting", !.id = f, !.size = size,
                             !.row = Row("UPLOADED", size, body)]
<1>1. /\ file[f] = None /\ ~InUse(f) /\ ~TooLarge(size) /\ stray' = stray \cup {f}
      /\ bucket' = [bucket EXCEPT ![f] = size] /\ Goes(p, r)
      /\ UNCHANGED <<file, urls, link, torn, rewritten>>
      BY DEF CreatePut, Put
<1>2. bucket'[f] = size /\ \A g \in Files \ {f} : bucket'[g] = bucket[g]
      BY <1>1 DEF Inv, Shapes
<1>3. Row("UPLOADED", size, body) \in FileUpload
      BY DEF Row, FileUpload
<1>4. /\ DOMAIN r = Fields /\ r.pc = "inserting" /\ r.id = f /\ r.size = size
      /\ r.row = Row("UPLOADED", size, body)
      BY DEF Idle, Fields
<1>5. r.row.status = "UPLOADED" /\ r.row.size = size
      BY <1>4 DEF Row
<1> HIDE DEF r
<1>6. RequestOK(r)'
      BY <1>1, <1>2, <1>3, <1>4, <1>5 DEF RequestOK
<1>7. \A g \in Files : Moves(g)
      BY <1>1 DEF Moves
<1>8. \A q \in Procs : req[q].id # f
      BY <1>1 DEF InUse
<1>9. \A q \in Procs : At(q, "inserting") \/ At(q, "marking") => req[q].id \in Files
      BY DEF At, Inv, RequestsOK, RequestOK, Found
<1>10. \A q \in Procs : At(q, "inserting") => req[q].id \in stray
      BY DEF At, Inv, RequestsOK, RequestOK
<1>11. \A q \in Procs \ {p} : At(q, "inserting") =>
               /\ file'[req[q].id] = file[req[q].id] /\ bucket'[req[q].id] = bucket[req[q].id]
               /\ req[q].id \in stray'
      BY <1>1, <1>2, <1>8, <1>9, <1>10
<1>12. \A q \in Procs \ {p} : At(q, "marking") => req[q].outdated \/ Keeps(req[q].id)
      BY <1>1, <1>2, <1>8, <1>9 DEF Keeps
<1>13. RequestsOK' /\ DOMAIN req' = Procs /\ \A q \in Procs : DOMAIN req'[q] = Fields
      BY <1>1, <1>4, <1>6, <1>7, <1>11, <1>12, Others
<1>14. Alone'
      BY <1>1, <1>4, <1>8 DEF Alone, At, Goes, Inv, Shapes
<1>15. Shapes' /\ FilesOK' /\ LinksOK'
      BY <1>1, <1>2, <1>13 DEF Inv, Shapes, FilesOK, FileOK, LinksOK, Uploaded, Exists
<1>16. UploadedIsStored' /\ ObjectHasRow' /\ LinkShowsUpload'
      BY <1>1, <1>2 DEF Inv, UploadedIsStored, ObjectHasRow, LinkShowsUpload, Uploaded, Exists
<1> QED BY <1>13, <1>14, <1>15, <1>16 DEF Inv

LEMMA CreateInsertInv ==
    ASSUME Inv, NEW p \in Procs, CreateInsert(p) PROVE Inv'
<1> DEFINE f == req[p].id
           r == [req[p] EXCEPT !.pc = "linking"]
<1>1. /\ f \in Files /\ file[f] = None /\ f \in stray
      /\ req[p].row \in FileUpload /\ req[p].row.status = "UPLOADED" /\ req[p].row.size = req[p].size
      /\ bucket[f] = req[p].size /\ req[p].size \in Sizes /\ ~TooLarge(req[p].size)
      /\ At(p, "inserting")
      BY DEF CreateInsert, At, Inv, RequestsOK, RequestOK
<1>2. /\ file'[f] = req[p].row /\ \A g \in Files \ {f} : file'[g] = file[g]
      /\ stray' = stray \ {f} /\ UNCHANGED <<bucket, urls, link, torn, rewritten>>
      /\ DOMAIN file' = Files
      BY <1>1 DEF CreateInsert, Inv, Shapes
<1>3. DOMAIN r = Fields /\ r.pc = "linking" /\ r.id = f /\ r.row = req[p].row
      BY DEF Inv, Shapes, Fields
<1>0. PICK s : s = r
      OBVIOUS
<1>14. Goes(p, s)
      BY <1>0 DEF CreateInsert
<1>15. DOMAIN s = Fields /\ s.pc = "linking" /\ s.id = f /\ s.row = req[p].row
      BY <1>0, <1>3
<1> HIDE DEF r
<1>4. RequestOK(s)'
      BY <1>1, <1>2, <1>15 DEF RequestOK, Found
<1>5. \A g \in Files : Moves(g)
      BY <1>1, <1>2, NoneAssumption, UploadsAssumption DEF Moves
<1>6. \A q \in Procs \ {p} : req[q].id # f
      BY <1>1 DEF Inv, Alone
<1>7. \A q \in Procs \ {p} : At(q, "inserting") =>
               /\ file'[req[q].id] = file[req[q].id] /\ bucket'[req[q].id] = bucket[req[q].id]
               /\ req[q].id \in stray'
      BY <1>2, <1>6 DEF At, Inv, RequestsOK, RequestOK
<1>8. \A q \in Procs \ {p} : At(q, "marking") => req[q].outdated \/ Keeps(req[q].id)
      BY <1>2 DEF Keeps
<1>9. RequestsOK' /\ DOMAIN req' = Procs /\ \A q \in Procs : DOMAIN req'[q] = Fields
      BY <1>14, <1>15, <1>4, <1>5, <1>7, <1>8, Others
<1>10. Alone'
      BY <1>14, <1>15, NoRival
<1>11. Shapes' /\ FilesOK' /\ LinksOK'
  <2>1. Shapes' /\ LinksOK'
        BY <1>2, <1>9 DEF Inv, Shapes, LinksOK
  <2>2. ASSUME NEW g \in Files, g = f PROVE FileOK(g)'
    <3>1. file'[g] \in FileUpload /\ file'[g] # None /\ file'[g].size # None
          BY <1>1, <1>2, <2>2, NoneAssumption, UploadsAssumption
    <3>2. bucket'[g] \in Sizes /\ g \notin torn'
          BY <1>1, <1>2, <2>2 DEF Inv, FilesOK, FileOK
    <3> QED BY <3>1, <3>2 DEF FileOK
  <2>3. ASSUME NEW g \in Files, g # f PROVE FileOK(g)'
        BY <1>2, <2>3 DEF Inv, FilesOK, FileOK, Uploaded, Exists
  <2> QED BY <2>1, <2>2, <2>3 DEF FilesOK
<1>12. UploadedIsStored'
      BY <1>1, <1>2 DEF Inv, UploadedIsStored, Uploaded, Exists, TooLarge
<1>16. file'[f] \notin {None, Gone} /\ ~Exists(f) /\ file[f] # Gone
      BY <1>1, <1>2, NoneAssumption, UploadsAssumption DEF Exists
<1>17. ObjectHasRow'
      BY <1>2, <1>16 DEF Inv, ObjectHasRow, Exists
<1>18. LinkShowsUpload'
  <2>1. \A o \in Owners : link[o].by = "upload" => link[o].key \in Files \ {f}
        BY <1>16 DEF Inv, LinkShowsUpload, LinksOK, Uploaded
  <2> QED BY <1>2, <2>1 DEF Inv, LinkShowsUpload, Uploaded, Exists
<1> QED BY <1>9, <1>10, <1>11, <1>12, <1>17, <1>18 DEF Inv

LEMMA LinkInv ==
    ASSUME Inv, NEW p \in Procs, Link(p) PROVE Inv'
<1>1. Found(req[p]) /\ (file[req[p].id] # Gone => file[req[p].id].status = "UPLOADED")
      BY DEF Link, At, Inv, RequestsOK, RequestOK
<1>2. /\ Goes(p, Idle) /\ UNCHANGED <<file, bucket, urls, torn, stray, rewritten>>
      /\ DOMAIN link' = Owners
      /\ \A o \in Owners : \/ link'[o] = link[o]
                          \/ /\ req[p].row.owner = o
                             /\ link'[o] = [key |-> req[p].id, by |-> "upload"]
      BY DEF Link
<1>3. \A f \in Files : Moves(f)
      BY <1>2 DEF Moves
<1>4. \A q \in Procs : At(q, "inserting") => req[q].id \in stray
      BY DEF At, Inv, RequestsOK, RequestOK
<1>5. RequestOK(Idle)'
      BY IdleOK DEF RequestOK
<1>6. RequestsOK' /\ DOMAIN req' = Procs /\ \A q \in Procs : DOMAIN req'[q] = Fields
  <2>1. \A q \in Procs \ {p} : At(q, "marking") => req[q].outdated \/ Keeps(req[q].id)
        BY <1>2 DEF Keeps
  <2> QED BY <1>2, <1>3, <1>4, <1>5, <2>1, IdleOK, Others
<1>7. Alone'
      BY <1>2, IdleOK, NoRival
<1>8. Shapes' /\ FilesOK' /\ LinksOK'
      BY <1>1, <1>2, <1>6 DEF Inv, Shapes, FilesOK, FileOK, LinksOK, Uploaded, Exists, Found
<1>9. UploadedIsStored' /\ ObjectHasRow'
      BY <1>2 DEF Inv, UploadedIsStored, ObjectHasRow, Uploaded, Exists
<1>10. LinkShowsUpload'
      BY <1>1, <1>2, NoneAssumption DEF Inv, LinkShowsUpload, Uploaded, Exists, Found
<1> QED BY <1>6, <1>7, <1>8, <1>9, <1>10 DEF Inv

\* A body writes a link as its own, so nothing is promised of it.
LEMMA WriteLinkInv ==
    ASSUME Inv, NEW o \in Owners, NEW text \in {None} \cup LinkTexts, WriteLink(o, text) PROVE Inv'
<1>1. /\ UNCHANGED <<file, bucket, urls, req, torn, stray, rewritten>>
      /\ DOMAIN link' = Owners /\ link'[o] = [key |-> text, by |-> "body"]
      /\ \A a \in Owners \ {o} : link'[a] = link[a]
      BY DEF WriteLink, Inv, Shapes
<1>2. RequestsOK' /\ Alone'
      BY <1>1 DEF Inv, RequestsOK, RequestOK, Found, Alone, At
<1>3. Shapes' /\ FilesOK'
      BY <1>1 DEF Inv, Shapes, FilesOK, FileOK, Uploaded, Exists
<1>4. LinksOK' /\ LinkShowsUpload'
  <2>1. link'[o].by # "upload" /\ link'[o].key \in {None} \cup LinkTexts
        BY <1>1
  <2>2. LinksOK'
        BY <1>1, <2>1 DEF Inv, LinksOK
  <2>3. LinkShowsUpload'
        BY <1>1, <2>1 DEF Inv, LinkShowsUpload, Uploaded, Exists
  <2> QED BY <2>2, <2>3
<1>5. UploadedIsStored' /\ ObjectHasRow'
      BY <1>1 DEF Inv, UploadedIsStored, ObjectHasRow, Uploaded, Exists
<1> QED BY <1>2, <1>3, <1>4, <1>5 DEF Inv

\* Steps of the client: what the requests know is compared with what is left.
LEMMA Clients ==
    ASSUME Inv, UNCHANGED req, \A f \in Files : Moves(f),
           \A q \in Procs : At(q, "inserting") =>
               /\ file'[req[q].id] = file[req[q].id] /\ bucket'[req[q].id] = bucket[req[q].id]
               /\ req[q].id \in stray',
           \A q \in Procs : At(q, "marking") => req[q].outdated \/ Keeps(req[q].id)
    PROVE  RequestsOK' /\ Alone'
<1>1. ASSUME NEW q \in Procs PROVE RequestOK(req[q])'
  <2>1. PICK s : s = req[q]
        OBVIOUS
  <2>2. RequestOK(s)
        BY <2>1 DEF Inv, RequestsOK
  <2>3. RequestOK(s)'
        BY <2>1, <2>2, StaysOK DEF At
  <2> QED BY <2>1, <2>3
<1> QED BY <1>1 DEF RequestsOK, Inv, Alone, At

LEMMA PresignInv ==
    ASSUME Inv, NEW f \in Files, NEW body \in Bodies, Presign(f, body) PROVE Inv'
<1>1. /\ file[f] = None /\ bucket[f] = None /\ ~InUse(f)
      /\ file'[f] = Row("PENDING", None, body) /\ \A g \in Files \ {f} : file'[g] = file[g]
      /\ urls' = urls \cup {f} /\ DOMAIN file' = Files
      /\ UNCHANGED <<bucket, link, req, torn, stray, rewritten>>
      BY DEF Presign, Inv, Shapes
<1>2. Row("PENDING", None, body) \in FileUpload /\ Row("PENDING", None, body).status = "PENDING"
      BY DEF Row, FileUpload
<1>3. file'[f] \in FileUpload /\ file'[f].status # "UPLOADED"
      BY <1>1, <1>2
<1>4. \A g \in Files : Moves(g)
      BY <1>1, <1>3, NoneAssumption, UploadsAssumption DEF Moves
<1>5. \A q \in Procs : At(q, "inserting") => req[q].id \in Files /\ req[q].id # f /\ req[q].id \in stray
      BY <1>1 DEF InUse, At, Inv, RequestsOK, RequestOK
<1>6. RequestsOK' /\ Alone'
  <2>1. \A q \in Procs : At(q, "marking") => req[q].outdated \/ Keeps(req[q].id)
        BY <1>1 DEF Keeps
  <2>2. \A q \in Procs : At(q, "inserting") =>
               /\ file'[req[q].id] = file[req[q].id] /\ bucket'[req[q].id] = bucket[req[q].id]
               /\ req[q].id \in stray'
        BY <1>1, <1>5
  <2> QED BY <1>1, <1>4, <2>1, <2>2, Clients
<1>7. Shapes' /\ FilesOK' /\ LinksOK'
      BY <1>1, <1>3, NoneAssumption DEF Inv, Shapes, FilesOK, FileOK, LinksOK, Uploaded, Exists
<1>9. ~Exists(f) /\ file[f] # Gone
      BY <1>1, UploadsAssumption DEF Exists
<1>10. UploadedIsStored' /\ ObjectHasRow'
      BY <1>1, <1>3 DEF Inv, UploadedIsStored, ObjectHasRow, Uploaded, Exists
<1>8. LinkShowsUpload'
  <2>1. \A o \in Owners : link[o].by = "upload" => link[o].key \in Files \ {f}
        BY <1>9 DEF Inv, LinkShowsUpload, LinksOK, Uploaded
  <2> QED BY <1>1, <2>1 DEF Inv, LinkShowsUpload, Uploaded, Exists
<1> QED BY <1>6, <1>7, <1>8, <1>10 DEF Inv

LEMMA ExpireUrlInv ==
    ASSUME Inv, NEW f \in Files, ExpireUrl(f) PROVE Inv'
<1>1. urls' \subseteq urls /\ UNCHANGED <<file, bucket, link, req, torn, stray, rewritten>>
      BY DEF ExpireUrl
<1>2. RequestsOK' /\ Alone'
      BY <1>1 DEF Inv, RequestsOK, RequestOK, Found, Alone, At
<1>3. Shapes' /\ FilesOK' /\ LinksOK'
      BY <1>1 DEF Inv, Shapes, FilesOK, FileOK, LinksOK, Uploaded, Exists
<1>4. UploadedIsStored' /\ ObjectHasRow' /\ LinkShowsUpload'
      BY <1>1 DEF Inv, UploadedIsStored, ObjectHasRow, LinkShowsUpload, Uploaded, Exists
<1> QED BY <1>2, <1>3, <1>4 DEF Inv

LEMMA updateMetaInv ==
    ASSUME Inv, NEW f \in Files, NEW documentType \in Retags, updateMeta(f, documentType)
    PROVE  Inv'
<1>1. file[f] \in FileUpload /\ file[f] # None
      BY FoundNow DEF updateMeta
<1>2. /\ file'[f] = [file[f] EXCEPT !.documentType = documentType]
      /\ \A g \in Files \ {f} : file'[g] = file[g]
      /\ DOMAIN file' = Files /\ UNCHANGED <<bucket, urls, link, req, torn, stray, rewritten>>
      BY DEF updateMeta, Inv, Shapes
<1>3. /\ file'[f] \in FileUpload /\ file'[f].status = file[f].status
      /\ file'[f].size = file[f].size /\ file'[f].owner = file[f].owner
      BY <1>1, <1>2 DEF FileUpload
<1>4. \A g \in Files : Moves(g)
      BY <1>1, <1>2, <1>3, NoneAssumption DEF Moves
<1>5. \A q \in Procs : At(q, "inserting") => req[q].id \in Files \ {f} /\ req[q].id \in stray
      BY <1>1 DEF At, Inv, RequestsOK, RequestOK
<1>6. RequestsOK' /\ Alone'
  <2>1. \A q \in Procs : At(q, "marking") => req[q].outdated \/ Keeps(req[q].id)
        BY <1>2 DEF Keeps
  <2>2. \A q \in Procs : At(q, "inserting") =>
               /\ file'[req[q].id] = file[req[q].id] /\ bucket'[req[q].id] = bucket[req[q].id]
               /\ req[q].id \in stray'
        BY <1>2, <1>5
  <2> QED BY <1>2, <1>4, <2>1, <2>2, Clients
<1>7. Exists(f) /\ Exists(f)'
      BY <1>1, <1>3, NoneAssumption DEF Exists
<1>8. Shapes' /\ FilesOK' /\ LinksOK'
      BY <1>1, <1>2, <1>3, <1>7 DEF Inv, Shapes, FilesOK, FileOK, LinksOK, Uploaded, Exists
<1>9. \A g \in Files :
          /\ Exists(g)' <=> Exists(g)
          /\ file[g] = Gone => file'[g] = Gone
          /\ Uploaded(g)' <=> Uploaded(g)
          /\ Exists(g) => file'[g].size = file[g].size /\ file'[g].owner = file[g].owner
      BY <1>1, <1>2, <1>3, <1>7, NoneAssumption DEF Exists, Uploaded
<1>10. UploadedIsStored' /\ ObjectHasRow'
      BY <1>2, <1>9 DEF Inv, UploadedIsStored, ObjectHasRow, Uploaded
<1>11. LinkShowsUpload'
      BY <1>2, <1>9 DEF Inv, LinkShowsUpload, LinksOK, Uploaded
<1> QED BY <1>6, <1>8, <1>10, <1>11 DEF Inv

\* A put makes the size that a confirm has measured an outdated one.
LEMMA ClientPutInv ==
    ASSUME Inv, NEW f \in Files, NEW size \in Sizes, ClientPut(f, size) PROVE Inv'
<1>1. /\ file[f] # None /\ bucket'[f] = size /\ \A g \in Files \ {f} : bucket'[g] = bucket[g]
      /\ DOMAIN bucket' = Files /\ torn' = torn \ {f} /\ UNCHANGED <<file, urls, link>>
      /\ stray' = IF Exists(f) /\ f \notin torn THEN stray ELSE stray \cup {f}
      /\ rewritten' = IF Uploaded(f) THEN rewritten \cup {f} ELSE rewritten
      /\ f \in torn => f \in stray'
      BY DEF ClientPut, Put, Inv, Shapes, FilesOK, FileOK
<1>2. \A g \in Files : Moves(g)
      BY <1>1 DEF Moves
<1>3. DOMAIN req' = Procs
      BY DEF ClientPut
<1>4. ASSUME NEW q \in Procs
      PROVE  /\ DOMAIN req'[q] = Fields /\ req'[q].pc = req[q].pc /\ req'[q].id = req[q].id
             /\ RequestOK(req[q])'
  <2>1. PICK s : s = req[q]
        OBVIOUS
  <2>2. RequestOK(s) /\ DOMAIN s = Fields
        BY <2>1 DEF Inv, RequestsOK, Shapes
  <2>3. CASE s.id = f /\ s.pc = "marking"
    <3>1. PICK t : t = [s EXCEPT !.outdated = TRUE]
          OBVIOUS
    <3>2. req'[q] = t
          BY <2>1, <2>3, <3>1 DEF ClientPut, At
    <3>3. /\ DOMAIN t = Fields /\ t.pc = "marking" /\ t.id = s.id /\ t.row = s.row
          /\ t.size = s.size /\ t.outdated = TRUE
          BY <2>2, <2>3, <3>1 DEF Fields
    <3>4. Found(s) /\ s.size \in Sizes /\ ~TooLarge(s.size)
          BY <2>2, <2>3 DEF RequestOK
    <3>5. RequestOK(t)'
          BY <1>1, <3>3, <3>4 DEF RequestOK, Found
    <3> QED BY <2>1, <2>3, <3>2, <3>3, <3>5
  <2>4. CASE ~(s.id = f /\ s.pc = "marking")
    <3>1. req'[q] = s
          BY <2>1, <2>4 DEF ClientPut, At
    <3>2. s.pc = "inserting" => s.id \in Files \ {f} /\ s.id \in stray
          BY <1>1, <2>2 DEF RequestOK
    <3>3. s.pc = "marking" => s.id \in Files \ {f}
          BY <2>2, <2>4 DEF RequestOK, Found
    <3>4. s.pc = "inserting" => /\ file'[s.id] = file[s.id] /\ bucket'[s.id] = bucket[s.id]
                                /\ s.id \in stray'
          BY <1>1, <3>2
    <3>5. s.pc = "marking" => s.outdated \/ Keeps(s.id)
          BY <1>1, <3>3 DEF Keeps
    <3>6. RequestOK(s)'
          BY <1>2, <2>2, <3>4, <3>5, StaysOK
    <3> QED BY <2>1, <2>2, <3>1, <3>6
  <2> QED BY <2>3, <2>4
<1>5. RequestsOK' /\ Alone'
      BY <1>3, <1>4 DEF RequestsOK, Inv, Alone, At
<1>6. Shapes' /\ FilesOK' /\ LinksOK'
      BY <1>1, <1>3, <1>4 DEF Inv, Shapes, FilesOK, FileOK, LinksOK, Uploaded, Exists
<1>7. UploadedIsStored'
      BY <1>1 DEF Inv, UploadedIsStored, Uploaded, Exists
<1>8. ObjectHasRow' /\ LinkShowsUpload'
      BY <1>1 DEF Inv, ObjectHasRow, LinkShowsUpload, LinksOK, Uploaded, Exists
<1> QED BY <1>5, <1>6, <1>7, <1>8 DEF Inv

LEMMA ConfirmMarkInv ==
    ASSUME Inv, NEW p \in Procs, ConfirmMark(p) PROVE Inv'
<1>1. PICK f, size, row : f = req[p].id /\ size = req[p].size /\ row = Marked(file[f], size)
      OBVIOUS
<1>2. PICK s : s = [req[p] EXCEPT !.pc = "linking"]
      OBVIOUS
<1>3. /\ Found(req[p]) /\ size \in Sizes /\ ~TooLarge(size) /\ Exists(f)
      /\ ~req[p].outdated /\ f \notin torn => bucket[f] = size
      BY <1>1 DEF ConfirmMark, At, Inv, RequestsOK, RequestOK
<1>4. f \in Files /\ file[f] \in FileUpload /\ file[f].owner = req[p].row.owner /\ file[f] # None
      BY <1>1, <1>3 DEF Found, Exists
<1>5. row \in FileUpload /\ row.status = "UPLOADED" /\ row.size = size /\ row.owner = file[f].owner
      BY <1>1, <1>3, <1>4 DEF Marked, FileUpload
<1>6. /\ file'[f] = row /\ \A g \in Files \ {f} : file'[g] = file[g]
      /\ DOMAIN file' = Files /\ UNCHANGED <<bucket, urls, link, torn, stray>>
      /\ rewritten' = IF req[p].outdated THEN rewritten \cup {f} ELSE rewritten \ {f}
      BY <1>1, <1>4 DEF ConfirmMark, Inv, Shapes
<1>7. Goes(p, s)
      BY <1>2 DEF ConfirmMark
<1>8. DOMAIN s = Fields /\ s.pc = "linking" /\ s.id = f /\ s.row = req[p].row
      BY <1>1, <1>2 DEF Inv, Shapes, Fields
<1>9. RequestOK(s)'
      BY <1>4, <1>5, <1>6, <1>8 DEF RequestOK, Found
<1>10. \A g \in Files : Moves(g)
      BY <1>4, <1>5, <1>6, NoneAssumption DEF Moves
<1>11. \A q \in Procs : At(q, "inserting") => req[q].id \in Files \ {f} /\ req[q].id \in stray
      BY <1>4 DEF At, Inv, RequestsOK, RequestOK
<1>12. RequestsOK' /\ DOMAIN req' = Procs /\ \A q \in Procs : DOMAIN req'[q] = Fields
  <2>1. \A q \in Procs \ {p} : At(q, "inserting") =>
               /\ file'[req[q].id] = file[req[q].id] /\ bucket'[req[q].id] = bucket[req[q].id]
               /\ req[q].id \in stray'
        BY <1>6, <1>11
  <2>2. \A q \in Procs \ {p} : At(q, "marking") => req[q].outdated \/ Keeps(req[q].id)
        BY <1>6 DEF Keeps
  <2> QED BY <1>7, <1>8, <1>9, <1>10, <2>1, <2>2, Others
<1>13. Alone'
      BY <1>1, <1>7, <1>8, NoRival
<1>14. file'[f] \notin {None, Gone}
      BY <1>5, <1>6, NoneAssumption
<1>15. Shapes' /\ FilesOK' /\ LinksOK'
      BY <1>3, <1>4, <1>5, <1>6, <1>12, <1>14, UploadsAssumption
      DEF Inv, Shapes, FilesOK, FileOK, LinksOK, Uploaded, Exists
<1>16. UploadedIsStored'
      BY <1>3, <1>5, <1>6, <1>14 DEF Inv, UploadedIsStored, Uploaded, Exists, TooLarge
<1>17. ObjectHasRow'
      BY <1>3, <1>6, <1>14 DEF Inv, ObjectHasRow, Exists
<1>18. LinkShowsUpload'
      BY <1>3, <1>5, <1>6, <1>14 DEF Inv, LinkShowsUpload, LinksOK, Uploaded, Exists
<1> QED BY <1>12, <1>13, <1>15, <1>16, <1>17, <1>18 DEF Inv

LEMMA DeleteObjectInv ==
    ASSUME Inv, NEW p \in Procs, DeleteObject(p) PROVE Inv'
<1>1. PICK f : f = req[p].id
      OBVIOUS
<1>2. PICK s : s = [req[p] EXCEPT !.pc = "deleting"]
      OBVIOUS
<1>3. f \in Files /\ file[f] # None
      BY <1>1 DEF DeleteObject, At, Inv, RequestsOK, RequestOK
<1>4. /\ bucket'[f] = None /\ \A g \in Files \ {f} : bucket'[g] = bucket[g]
      /\ DOMAIN bucket' = Files /\ torn' = torn \cup {f} /\ stray' = stray \ {f}
      /\ UNCHANGED <<file, urls, link, rewritten>>
      BY <1>1, <1>3 DEF DeleteObject, deleteObject, Inv, Shapes
<1>5. Goes(p, s)
      BY <1>2 DEF DeleteObject
<1>6. DOMAIN s = Fields /\ s.pc = "deleting" /\ s.id = f
      BY <1>1, <1>2 DEF Inv, Shapes, Fields
<1>7. RequestOK(s)'
      BY <1>3, <1>4, <1>6 DEF RequestOK
<1>8. \A g \in Files : Moves(g)
      BY <1>4 DEF Moves
<1>9. \A q \in Procs : At(q, "inserting") => req[q].id \in Files \ {f} /\ req[q].id \in stray
      BY <1>3 DEF At, Inv, RequestsOK, RequestOK
<1>10. \A q \in Procs : At(q, "marking") => req[q].id \in Files
      BY DEF At, Inv, RequestsOK, RequestOK, Found
<1>11. RequestsOK' /\ DOMAIN req' = Procs /\ \A q \in Procs : DOMAIN req'[q] = Fields
  <2>1. \A q \in Procs \ {p} : At(q, "inserting") =>
               /\ file'[req[q].id] = file[req[q].id] /\ bucket'[req[q].id] = bucket[req[q].id]
               /\ req[q].id \in stray'
        BY <1>4, <1>9
  <2>2. \A q \in Procs \ {p} : At(q, "marking") => req[q].outdated \/ Keeps(req[q].id)
    <3>1. \A g \in Files : Keeps(g)
          BY <1>4 DEF Keeps, Inv, FilesOK, FileOK
    <3> QED BY <1>10, <3>1
  <2> QED BY <1>5, <1>6, <1>7, <1>8, <2>1, <2>2, Others
<1>12. Alone'
      BY <1>1, <1>5, <1>6, NoRival
<1>13. Shapes' /\ FilesOK' /\ LinksOK'
      BY <1>3, <1>4, <1>11 DEF Inv, Shapes, FilesOK, FileOK, LinksOK, Uploaded, Exists
<1>14. UploadedIsStored' /\ ObjectHasRow' /\ LinkShowsUpload'
      BY <1>4 DEF Inv, UploadedIsStored, ObjectHasRow, LinkShowsUpload, Uploaded, Exists
<1> QED BY <1>11, <1>12, <1>13, <1>14 DEF Inv

\* A row goes when its object is gone, or known as a stray.
LEMMA DeleteRowInv ==
    ASSUME Inv, NEW p \in Procs, DeleteRow(p) PROVE Inv'
<1>1. PICK f : f = req[p].id
      OBVIOUS
<1>2. f \in Files /\ file[f] # None /\ f \in torn \cup stray
      BY <1>1 DEF DeleteRow, At, Inv, RequestsOK, RequestOK
<1>3. /\ file'[f] = Gone /\ \A g \in Files \ {f} : file'[g] = file[g]
      /\ DOMAIN file' = Files /\ Goes(p, Idle)
      /\ UNCHANGED <<bucket, urls, link, torn, stray, rewritten>>
      BY <1>1, <1>2 DEF DeleteRow, Inv, Shapes
<1>4. RequestOK(Idle)'
      BY IdleOK DEF RequestOK
<1>5. \A g \in Files : Moves(g)
      BY <1>2, <1>3, UploadsAssumption DEF Moves
<1>6. \A q \in Procs : At(q, "inserting") => req[q].id \in Files \ {f} /\ req[q].id \in stray
      BY <1>2 DEF At, Inv, RequestsOK, RequestOK
<1>7. RequestsOK' /\ DOMAIN req' = Procs /\ \A q \in Procs : DOMAIN req'[q] = Fields
  <2>1. \A q \in Procs \ {p} : At(q, "inserting") =>
               /\ file'[req[q].id] = file[req[q].id] /\ bucket'[req[q].id] = bucket[req[q].id]
               /\ req[q].id \in stray'
        BY <1>3, <1>6
  <2>2. \A q \in Procs \ {p} : At(q, "marking") => req[q].outdated \/ Keeps(req[q].id)
        BY <1>3 DEF Keeps
  <2> QED BY <1>3, <1>4, <1>5, <2>1, <2>2, IdleOK, Others
<1>8. Alone'
      BY <1>3, IdleOK, NoRival
<1>9. Shapes' /\ FilesOK' /\ LinksOK'
      BY <1>2, <1>3, <1>7, UploadsAssumption
      DEF Inv, Shapes, FilesOK, FileOK, LinksOK, Uploaded, Exists
<1>10. UploadedIsStored' /\ LinkShowsUpload'
  <2>1. \A g \in Files : file'[g] = Gone \/ file'[g] = file[g]
        BY <1>3
  <2>2. UploadedIsStored'
        BY <1>3, <2>1 DEF Inv, UploadedIsStored, Uploaded, Exists
  <2>3. LinkShowsUpload'
        BY <1>3, <2>1 DEF Inv, LinkShowsUpload, LinksOK, Uploaded, Exists
  <2> QED BY <2>2, <2>3
<1>11. ObjectHasRow'
      BY <1>2, <1>3 DEF Inv, ObjectHasRow, FilesOK, FileOK, Exists
<1> QED BY <1>7, <1>8, <1>9, <1>10, <1>11 DEF Inv

LEMMA ResetObjectsInv ==
    ASSUME Inv, NEW p \in Procs, ResetObjects(p) PROVE Inv'
<1>1. PICK deleted \in SUBSET req[p].doomed :
          /\ bucket' = [f \in Files |-> IF f \in deleted THEN None ELSE bucket[f]]
          /\ torn' = torn \cup deleted /\ stray' = stray \ deleted
          /\ Goes(p, [Idle EXCEPT !.pc = "wiped", !.doomed = deleted])
      BY DEF ResetObjects
<1>2. PICK s : s = [Idle EXCEPT !.pc = "wiped", !.doomed = deleted]
      OBVIOUS
<1>3. \A f \in deleted : f \in Files /\ file[f] # None
      BY <1>1 DEF ResetObjects, At, Inv, RequestsOK, RequestOK
<1>4. UNCHANGED <<file, urls, link, rewritten>>
      BY DEF ResetObjects
<1>5. Goes(p, s)
      BY <1>1, <1>2
<1>6. DOMAIN s = Fields /\ s.pc = "wiped" /\ s.id = None /\ s.doomed = deleted
      BY <1>2 DEF Idle, Fields
<1>7. RequestOK(s)'
      BY <1>1, <1>3, <1>4, <1>6 DEF RequestOK
<1>8. \A g \in Files : Moves(g)
      BY <1>1, <1>4 DEF Moves
<1>9. \A q \in Procs : At(q, "inserting") => req[q].id \in Files \ deleted /\ req[q].id \in stray
      BY <1>3 DEF At, Inv, RequestsOK, RequestOK
<1>10. \A q \in Procs : At(q, "marking") => req[q].id \in Files
      BY DEF At, Inv, RequestsOK, RequestOK, Found
<1>11. RequestsOK' /\ DOMAIN req' = Procs /\ \A q \in Procs : DOMAIN req'[q] = Fields
  <2>1. \A q \in Procs \ {p} : At(q, "inserting") =>
               /\ file'[req[q].id] = file[req[q].id] /\ bucket'[req[q].id] = bucket[req[q].id]
               /\ req[q].id \in stray'
        BY <1>1, <1>4, <1>9
  <2>2. \A q \in Procs \ {p} : At(q, "marking") => req[q].outdated \/ Keeps(req[q].id)
    <3>1. \A g \in Files : Keeps(g)
          BY <1>1 DEF Keeps
    <3> QED BY <1>10, <3>1
  <2> QED BY <1>5, <1>6, <1>7, <1>8, <2>1, <2>2, Others
<1>12. Alone'
      BY <1>5, <1>6, NoRival
<1>13. Shapes' /\ FilesOK' /\ LinksOK'
      BY <1>1, <1>3, <1>4, <1>11 DEF Inv, Shapes, FilesOK, FileOK, LinksOK, Uploaded, Exists
<1>14. UploadedIsStored' /\ ObjectHasRow' /\ LinkShowsUpload'
      BY <1>1, <1>4 DEF Inv, UploadedIsStored, ObjectHasRow, LinkShowsUpload, Uploaded, Exists
<1> QED BY <1>11, <1>12, <1>13, <1>14 DEF Inv

LEMMA ResetRowsInv ==
    ASSUME Inv, NEW p \in Procs, ResetRows(p) PROVE Inv'
<1>1. /\ file' = [f \in Files |-> IF f \in Doomed THEN Gone ELSE file[f]]
      /\ stray' = stray \cup (Doomed \ req[p].doomed) /\ Goes(p, Idle)
      /\ UNCHANGED <<bucket, urls, link, torn, rewritten>>
      BY DEF ResetRows
<1>2. \A f \in Doomed : f \in Files /\ file[f] \notin {None, Gone}
      BY DEF Doomed, Exists
<1>3. \A f \in req[p].doomed : f \in torn \cup stray
      BY DEF ResetRows, At, Inv, RequestsOK, RequestOK
<1> HIDE DEF Doomed
<1>4. RequestOK(Idle)'
      BY IdleOK DEF RequestOK
<1>5. \A g \in Files : Moves(g)
      BY <1>1, <1>2, UploadsAssumption DEF Moves
<1>6. \A q \in Procs : At(q, "inserting") => req[q].id \in Files \ Doomed /\ req[q].id \in stray
      BY <1>2 DEF At, Inv, RequestsOK, RequestOK
<1>7. RequestsOK' /\ DOMAIN req' = Procs /\ \A q \in Procs : DOMAIN req'[q] = Fields
  <2>1. \A q \in Procs \ {p} : At(q, "inserting") =>
               /\ file'[req[q].id] = file[req[q].id] /\ bucket'[req[q].id] = bucket[req[q].id]
               /\ req[q].id \in stray'
        BY <1>1, <1>6
  <2>2. \A q \in Procs \ {p} : At(q, "marking") => req[q].outdated \/ Keeps(req[q].id)
        BY <1>1 DEF Keeps
  <2> QED BY <1>1, <1>4, <1>5, <2>1, <2>2, IdleOK, Others
<1>8. Alone'
      BY <1>1, IdleOK, NoRival
<1>9. Shapes' /\ FilesOK' /\ LinksOK'
      BY <1>1, <1>2, <1>7, UploadsAssumption
      DEF Inv, Shapes, FilesOK, FileOK, LinksOK, Uploaded, Exists
<1>10. UploadedIsStored' /\ LinkShowsUpload'
  <2>1. \A g \in Files : file'[g] = Gone \/ file'[g] = file[g]
        BY <1>1
  <2>2. UploadedIsStored'
        BY <1>1, <2>1 DEF Inv, UploadedIsStored, Uploaded, Exists
  <2>3. LinkShowsUpload'
        BY <1>1, <2>1 DEF Inv, LinkShowsUpload, LinksOK, Uploaded, Exists
  <2> QED BY <2>2, <2>3
<1>11. ObjectHasRow'
      BY <1>1, <1>2, <1>3 DEF Inv, ObjectHasRow, FilesOK, FileOK, Exists
<1> QED BY <1>7, <1>8, <1>9, <1>10, <1>11 DEF Inv

----------------------------------------------------------------------------

LEMMA NextInv == ASSUME Inv, [Next]_vars PROVE Inv'
<1>1. CASE UNCHANGED vars
      BY <1>1 DEF vars, Inv, Shapes, FilesOK, FileOK, LinksOK, RequestsOK, RequestOK, Found, Alone,
                  At, UploadedIsStored, ObjectHasRow, LinkShowsUpload, Uploaded, Exists
<1>2. CASE Client
      BY <1>2, PresignInv, ClientPutInv, ExpireUrlInv, updateMetaInv, WriteLinkInv DEF Client
<1>3. ASSUME NEW p \in Procs, Step(p) PROVE Inv'
      BY <1>3, CreatePutInv, CreateInsertInv, LinkInv, ConfirmFindInv, ConfirmHeadInv, ConfirmMarkInv,
         RemoveFindInv, DeleteObjectInv, DeleteRowInv, ResetFindInv, ResetObjectsInv, ResetRowsInv,
         AbortInv
      DEF Step
<1> QED BY <1>1, <1>2, <1>3 DEF Next

LEMMA AlwaysInv == Spec => []Inv
BY InitInv, NextInv, PTL DEF Spec

\* Rows of files, stored sizes and links keep their types, however proxied
\* uploads, confirms, evictions, removals and the reset of UploadsService and
\* reset-production-data.ts interleave with the client's puts and with users and
\* customers whose bodies give any text for the link.
THEOREM UploadsTypeCorrect == Spec => []TypeOK
<1>1. Inv => TypeOK
      BY DEF Inv, Shapes, FilesOK, FileOK, LinksOK, TypeOK
<1> QED BY <1>1, AlwaysInv, PTL

\* confirm and create never leave a row that says UPLOADED without an object of
\* its size within the limit, but for a removal that broke off and a put after
\* the measure.
THEOREM UploadedAlwaysStored == Spec => []UploadedIsStored
<1>1. Inv => UploadedIsStored
      BY DEF Inv
<1> QED BY <1>1, AlwaysInv, PTL

\* remove, confirm and the reset script leave no object without a row, but for
\* the named strays.
THEOREM ObjectsHaveRows == Spec => []ObjectHasRow
<1>1. Inv => ObjectHasRow
      BY DEF Inv
<1> QED BY <1>1, AlwaysInv, PTL

\* linkToEntity only ever links a file that was uploaded for the owner: a link it
\* wrote last, which no body has overwritten, shows nothing else.
THEOREM LinksShowUploads == Spec => []LinkShowsUpload
<1>1. Inv => LinkShowsUpload
      BY DEF Inv
<1> QED BY <1>1, AlwaysInv, PTL

----------------------------------------------------------------------------
(***************************************************************************)
(* Proofs about ClearancePlans, for any jobs, rows, containers, payloads   *)
(* and requests.                                                           *)
(*                                                                         *)
(* A sync writes one row after the other, so what it leaves is the end of  *)
(* a recursion over the payload: there is exactly one table of what each   *)
(* write leaves (AfterExists), and what every write passes on holds at the *)
(* end (Rewrites).  What a request decided by when it read is still so     *)
(* unless its job or its row is in disturbed (WaitingKnows).               *)
(***************************************************************************)

\* Induction up to a bound.
LEMMA UpTo ==
    ASSUME NEW N \in Nat, NEW Good, 0 \in Good, \A n \in 1..N : n - 1 \in Good => n \in Good
    PROVE  \A n \in 0..N : n \in Good
<1> DEFINE Bad == {T \in SUBSET (1..N) : \E n \in 0..N : T = 1..n /\ n \notin Good}
<1> SUFFICES ASSUME NEW n \in 0..N, n \notin Good PROVE FALSE
    OBVIOUS
<1>1. IsFiniteSet(1..N)
      BY FS_Interval
<1>2. IsWellFoundedOn(StrictSubsetOrdering(1..N), FiniteSubsetsOf(1..N))
      BY <1>1, FS_StrictSubsetOrderingWellFounded
<1>3. Bad \subseteq FiniteSubsetsOf(1..N)
      BY <1>1, FS_Subset DEF FiniteSubsetsOf
<1>4. 1..n \in Bad
      OBVIOUS
<1>5. PICK T \in Bad : \A U \in Bad : ~(<<U, T>> \in StrictSubsetOrdering(1..N))
  <2> HIDE DEF Bad
  <2> QED BY <1>2, <1>3, <1>4, WFMin
<1>6. PICK b \in 0..N : T = 1..b /\ b \notin Good
      OBVIOUS
<1>7. b # 0 /\ b - 1 \notin Good
      BY <1>6
<1>8. 1..(b - 1) \in Bad
      BY <1>7
<1>9. <<1..(b - 1), T>> \in StrictSubsetOrdering(1..N)
  <2>1. 1..(b - 1) \subseteq T /\ b \in T /\ b \notin 1..(b - 1)
        BY <1>6, <1>7
  <2> QED BY <1>8, <2>1 DEF StrictSubsetOrdering
<1> QED BY <1>5, <1>8, <1>9

\* A bounded set of naturals has a largest element.
LEMMA MaxIn ==
    ASSUME NEW N \in Nat, NEW S, S \subseteq 0..N, S # {}
    PROVE  Max(S) \in S /\ \A x \in S : Max(S) >= x
<1> DEFINE Good == {n \in 0..N : (\E x \in S : x <= n) =>
                                     \E x \in S : x <= n /\ \A y \in S : y <= n => x >= y}
<1>1. 0 \in Good
      OBVIOUS
<1>2. ASSUME NEW n \in 1..N, n - 1 \in Good PROVE n \in Good
  <2>1. CASE n \in S
        BY <2>1
  <2>2. CASE n \notin S
    <3>1. \A x \in S : x <= n <=> x <= n - 1
          BY <2>2
    <3> QED BY <1>2, <3>1
  <2> QED BY <2>1, <2>2
<1>3. N \in Good
  <2> HIDE DEF Good
  <2> QED BY <1>1, <1>2, UpTo
<1>4. \A x \in S : x <= N
      OBVIOUS
<1>5. (\E x \in S : x <= N) => \E x \in S : x <= N /\ \A y \in S : y <= N => x >= y
      BY <1>3
<1>6. \E x \in S : x <= N
      BY <1>4
<1>7. \E x \in S : \A y \in S : x >= y
      BY <1>4, <1>5, <1>6
<1> QED BY <1>7 DEF Max

----------------------------------------------------------------------------
(* Writing the rows of a sync *)

\* Replaced, with its recursion as a table of its own.
AfterEntry(t, j, resolved, drop, ids, after, n) ==
    IF n = 0 THEN {Dropped(t, drop)}
    ELSE IF n \notin DOMAIN resolved THEN after[n - 1]
    ELSE UNION {Written(x, j, resolved[n], ids[n]) : x \in after[n - 1]}

AfterTable(t, j, resolved, drop, ids, N, after) ==
    after = [n \in 0..N |-> AfterEntry(t, j, resolved, drop, ids, after, n)]

\* The places of the payload that rows are written for.
Places(resolved) == \E N \in Nat : DOMAIN resolved \subseteq 1..N

End(resolved) == Max({0} \cup DOMAIN resolved)

\* The last place written.
LEMMA EndIsLast ==
    ASSUME NEW resolved, Places(resolved)
    PROVE  End(resolved) \in Nat /\ DOMAIN resolved \subseteq 1..End(resolved)
<1>1. PICK N \in Nat : DOMAIN resolved \subseteq 1..N
      BY DEF Places
<1>2. PICK S : S = {0} \cup DOMAIN resolved
      OBVIOUS
<1>3. S \subseteq 0..N /\ S # {}
      BY <1>1, <1>2
<1>4. Max(S) \in S /\ \A x \in S : Max(S) >= x
      BY <1>3, MaxIn
<1> QED BY <1>1, <1>2, <1>3, <1>4 DEF End

\* There is a table of what each write leaves.
LEMMA AfterExists ==
    ASSUME NEW t, NEW j, NEW resolved, NEW drop, NEW ids, NEW N \in Nat
    PROVE  \E after : AfterTable(t, j, resolved, drop, ids, N, after)
<1> DEFINE Good == {n \in 0..N : \E after : AfterTable(t, j, resolved, drop, ids, n, after)}
<1>1. 0 \in Good
  <2> DEFINE g == [n \in 0..0 |-> {Dropped(t, drop)}]
  <2>1. AfterTable(t, j, resolved, drop, ids, 0, g)
        BY DEF AfterTable, AfterEntry
  <2> QED BY <2>1
<1>2. ASSUME NEW n \in 1..N, n - 1 \in Good PROVE n \in Good
  <2>1. PICK g : AfterTable(t, j, resolved, drop, ids, n - 1, g)
        BY <1>2
  <2> DEFINE h == [m \in 0..n |-> IF m = n THEN AfterEntry(t, j, resolved, drop, ids, g, n) ELSE g[m]]
  <2>2. ASSUME NEW m \in 0..n PROVE h[m] = AfterEntry(t, j, resolved, drop, ids, h, m)
    <3>1. m # 0 => h[m - 1] = g[m - 1]
          OBVIOUS
    <3>2. AfterEntry(t, j, resolved, drop, ids, g, m) = AfterEntry(t, j, resolved, drop, ids, h, m)
      <4> HIDE DEF h
      <4> QED BY <3>1 DEF AfterEntry
    <3>3. m # n => g[m] = AfterEntry(t, j, resolved, drop, ids, g, m)
          BY <2>1 DEF AfterTable
    <3> QED BY <3>2, <3>3
  <2>3. AfterTable(t, j, resolved, drop, ids, n, h)
        BY <2>2 DEF AfterTable
  <2> QED BY <2>3
<1>3. N \in Good
  <2> HIDE DEF Good
  <2> QED BY <1>1, <1>2, UpTo
<1> QED BY <1>3

\* What each write passes on, the last one leaves behind.
LEMMA Rewrites ==
    ASSUME NEW t, NEW j, NEW resolved, NEW drop, NEW ids, Places(resolved),
           NEW Good, Dropped(t, drop) \in Good[0],
           \A n \in 1..End(resolved) : n \notin DOMAIN resolved => Good[n - 1] \subseteq Good[n],
           \A n \in DOMAIN resolved : \A x \in Good[n - 1] :
              Written(x, j, resolved[n], ids[n]) \subseteq Good[n]
    PROVE  Replaced(t, j, resolved, drop, ids) \subseteq Good[End(resolved)]
<1>1. End(resolved) \in Nat
      BY EndIsLast
<1>2. PICK after : after = CHOOSE g : AfterTable(t, j, resolved, drop, ids, End(resolved), g)
      OBVIOUS
<1>3. Replaced(t, j, resolved, drop, ids) = after[End(resolved)]
      BY <1>2 DEF Replaced, AfterTable, AfterEntry, End
<1>4. AfterTable(t, j, resolved, drop, ids, End(resolved), after)
      BY <1>1, <1>2, AfterExists
<1> DEFINE Fine == {n \in 0..End(resolved) : after[n] \subseteq Good[n]}
<1>5. 0 \in Fine
  <2>1. after[0] = {Dropped(t, drop)}
        BY <1>1, <1>4 DEF AfterTable, AfterEntry
  <2> QED BY <1>1, <2>1
<1>6. ASSUME NEW n \in 1..End(resolved), n - 1 \in Fine PROVE n \in Fine
  <2>1. after[n] = AfterEntry(t, j, resolved, drop, ids, after, n)
        BY <1>1, <1>4 DEF AfterTable
  <2>2. CASE n \notin DOMAIN resolved
        BY <1>1, <1>6, <2>1, <2>2 DEF AfterEntry
  <2>3. CASE n \in DOMAIN resolved
    <3>1. after[n] = UNION {Written(x, j, resolved[n], ids[n]) : x \in after[n - 1]}
          BY <2>1, <2>3 DEF AfterEntry
    <3>2. \A x \in after[n - 1] : Written(x, j, resolved[n], ids[n]) \subseteq Good[n]
          BY <1>6, <2>3
    <3> QED BY <1>1, <3>1, <3>2
  <2> QED BY <2>2, <2>3
<1>7. End(resolved) \in Fine
  <2> HIDE DEF Fine
  <2> QED BY <1>1, <1>5, <1>6, UpTo
<1> QED BY <1>3, <1>7

\* Tables with the rows of jobs J.
Tables(J) == [PlanIds -> [job : J, container : Containers, status : Statuses] \cup {None, Removed}]

\* What is known of what a sync resolved, whenever it is written.
ResolvedOK(resolved) ==
    /\ Places(resolved)
    /\ \A n \in DOMAIN resolved :
          /\ resolved[n].target \in PlanIds \cup {None}
          /\ resolved[n].container \in Containers
    /\ \A n, m \in DOMAIN resolved :
          Key[resolved[n].container] = Key[resolved[m].container] => n = m

\* The status of a new row is one.
LEMMA NewStatusIn == NewStatus \in Statuses
BY DEF NewStatus, Statuses, CLEARANCE_PLAN_LIFECYCLE

\* A row is a record, and None and Removed are none.
LEMMA RowsLive ==
    ASSUME NEW J, J \subseteq Jobs, NEW row \in [job : J, container : Containers, status : Statuses]
    PROVE  row \notin {None, Removed}
BY NoPlanAssumption DEF ClearancePlan

\* Dropping rows leaves a table.
LEMMA DroppedTable ==
    ASSUME NEW J, NEW t \in Tables(J), NEW drop PROVE Dropped(t, drop) \in Tables(J)
BY DEF Tables, Dropped

\* A write changes the row it writes, and what it writes is a row.
LEMMA WriteOne ==
    ASSUME NEW J, J \subseteq Jobs, NEW j \in J, NEW t \in Tables(J), NEW id \in PlanIds,
           NEW r, r.container \in Containers, NEW x \in Written(t, j, r, id)
    PROVE  /\ x \in Tables(J)
           /\ r.target # None => Live(t, id)
           /\ x[id] = IF r.target = None THEN NewPlan(j, r.container)
                      ELSE [t[id] EXCEPT !.container = r.container]
           /\ \A other \in PlanIds \ {id} : x[other] = t[other]
<1>1. /\ r.target # None => Live(t, id)
      /\ x = [t EXCEPT ![id] = IF r.target = None THEN NewPlan(j, r.container)
                               ELSE [@ EXCEPT !.container = r.container]]
      BY DEF Written, toData
<1>2. NewPlan(j, r.container) \in [job : J, container : Containers, status : Statuses]
      BY NewStatusIn DEF NewPlan
<1>3. Live(t, id) => [t[id] EXCEPT !.container = r.container]
                          \in [job : J, container : Containers, status : Statuses]
      BY DEF Live, Tables
<1>4. PICK row : row = IF r.target = None THEN NewPlan(j, r.container)
                       ELSE [t[id] EXCEPT !.container = r.container]
      OBVIOUS
<1>5. row \in [job : J, container : Containers, status : Statuses] /\ x = [t EXCEPT ![id] = row]
      BY <1>1, <1>2, <1>3, <1>4
<1> QED BY <1>1, <1>4, <1>5 DEF Tables

\* No sync changes the status of a row that it leaves.
LEMMA SyncedTyped ==
    ASSUME NEW J, J \subseteq Jobs, NEW j \in J, NEW t \in Tables(J), NEW resolved, ResolvedOK(resolved),
           NEW drop, NEW x \in Synced(t, j, resolved, drop)
    PROVE  /\ x \in Tables(J)
           /\ \A id \in PlanIds : Live(t, id) /\ Live(x, id) => x[id].status = t[id].status
<1> DEFINE Fine == {y \in Tables(J) :
                      \A id \in PlanIds : Live(t, id) /\ Live(y, id) => y[id].status = t[id].status}
           Good == [n \in Nat |-> Fine]
<1>1. PICK ids \in FreshIds(t, resolved) : x \in Replaced(t, j, resolved, drop, ids)
      BY DEF Synced
<1>2. Places(resolved) /\ End(resolved) \in Nat /\ DOMAIN resolved \subseteq 1..End(resolved)
      BY EndIsLast DEF ResolvedOK
<1>3. Dropped(t, drop) \in Fine
  <2>1. \A id \in PlanIds : Live(Dropped(t, drop), id) => Dropped(t, drop)[id] = t[id]
        BY DEF Dropped, Live
  <2> QED BY <2>1, DroppedTable
<1>4. ASSUME NEW n \in DOMAIN resolved, NEW y \in Fine,
             NEW z \in Written(y, j, resolved[n], ids[n])
      PROVE  z \in Fine
  <2>1. /\ ids[n] \in PlanIds /\ resolved[n].container \in Containers
        /\ resolved[n].target = None => t[ids[n]] = None
        BY DEF FreshIds, ResolvedOK
  <2>2. PICK id \in PlanIds : id = ids[n]
        BY <2>1
  <2>3. /\ z \in Tables(J)
        /\ resolved[n].target # None => Live(y, id)
        /\ z[id] = IF resolved[n].target = None THEN NewPlan(j, resolved[n].container)
                   ELSE [y[id] EXCEPT !.container = resolved[n].container]
        /\ \A other \in PlanIds \ {id} : z[other] = y[other]
        BY <2>1, <2>2, WriteOne
  <2>4. Live(t, id) => Live(y, id) /\ z[id].status = y[id].status
    <3>1. Live(t, id) => resolved[n].target # None
          BY <2>1, <2>2 DEF Live
    <3>2. Live(y, id) => y[id] \in [job : J, container : Containers, status : Statuses]
          BY DEF Live, Tables
    <3> QED BY <2>3, <3>1, <3>2
  <2>5. ASSUME NEW other \in PlanIds, Live(t, other), Live(z, other)
        PROVE  z[other].status = t[other].status
        BY <2>3, <2>4, <2>5 DEF Live
  <2> QED BY <2>3, <2>5
<1>5. Replaced(t, j, resolved, drop, ids) \subseteq Good[End(resolved)]
  <2>1. \A n \in Nat : Good[n] = Fine
        OBVIOUS
  <2> HIDE DEF Good, Fine
  <2>2. Dropped(t, drop) \in Good[0]
        BY <1>3, <2>1
  <2>3. \A n \in 1..End(resolved) : n \notin DOMAIN resolved => Good[n - 1] \subseteq Good[n]
        BY <1>2, <2>1
  <2>4. \A n \in DOMAIN resolved : \A y \in Good[n - 1] :
            Written(y, j, resolved[n], ids[n]) \subseteq Good[n]
    <3>1. \A n \in DOMAIN resolved : Good[n - 1] = Fine /\ Good[n] = Fine
          BY <1>2, <2>1
    <3> QED BY <1>4, <3>1
  <2> QED BY <1>2, <2>2, <2>3, <2>4, Rewrites
<1>6. x \in Fine
      BY <1>1, <1>2, <1>5
<1> QED BY <1>6

\* What a write makes of row id.
RowAfter(t, j, r, id) ==
    IF r.target = None THEN NewPlan(j, r.container) ELSE [t[id] EXCEPT !.container = r.container]

\* Each container has a row of its own, which says what the container says; of
\* the other rows, those no longer kept are dropped.
OneRowEach(t, j, resolved, drop, ids, x) ==
    /\ \A n, m \in DOMAIN resolved : ids[n] = ids[m] => n = m
    /\ \A n \in DOMAIN resolved :
          /\ resolved[n].target # None => Live(Dropped(t, drop), ids[n])
          /\ x[ids[n]] = RowAfter(t, j, resolved[n], ids[n])
    /\ \A id \in PlanIds : (\A n \in DOMAIN resolved : ids[n] # id) => x[id] = Dropped(t, drop)[id]

\* That is what a sync leaves, unless two containers go to one row.
LEMMA SyncedRows ==
    ASSUME NEW J, J \subseteq Jobs, NEW j \in J, NEW t \in Tables(J), NEW resolved, ResolvedOK(resolved),
           ~Colliding(resolved), NEW drop, NEW x \in Synced(t, j, resolved, drop)
    PROVE  \E ids \in FreshIds(t, resolved) : OneRowEach(t, j, resolved, drop, ids, x)
<1>1. PICK ids \in FreshIds(t, resolved) : x \in Replaced(t, j, resolved, drop, ids)
      BY DEF Synced
<1>2. Places(resolved) /\ End(resolved) \in Nat /\ DOMAIN resolved \subseteq 1..End(resolved)
      BY EndIsLast DEF ResolvedOK
<1>3. ASSUME NEW n \in DOMAIN resolved, NEW m \in DOMAIN resolved, ids[n] = ids[m] PROVE n = m
  <2> SUFFICES ASSUME n # m PROVE FALSE
      OBVIOUS
  <2>1. resolved[n].target # None /\ resolved[m].target # None
        BY <1>3 DEF FreshIds
  <2>2. resolved[n].target = ids[n] /\ resolved[m].target = ids[m]
        BY <2>1 DEF FreshIds
  <2> QED BY <1>3, <2>1, <2>2 DEF Colliding
<1> DEFINE d == Dropped(t, drop)
           Fine(n) == {y \in Tables(J) :
              /\ \A m \in DOMAIN resolved : m <= n =>
                    /\ resolved[m].target # None => Live(d, ids[m])
                    /\ y[ids[m]] = RowAfter(t, j, resolved[m], ids[m])
              /\ \A id \in PlanIds :
                    (\A m \in DOMAIN resolved : m <= n => ids[m] # id) => y[id] = d[id]}
           Good == [n \in Nat |-> Fine(n)]
<1>4. d \in Fine(0)
  <2>1. \A m \in DOMAIN resolved : ~(m <= 0)
        BY <1>2
  <2> QED BY <2>1, DroppedTable
<1>5. ASSUME NEW n \in 1..End(resolved), n \notin DOMAIN resolved PROVE Fine(n - 1) \subseteq Fine(n)
  <2>1. \A m \in DOMAIN resolved : m <= n <=> m <= n - 1
        BY <1>2, <1>5
  <2> QED BY <2>1
<1>6. ASSUME NEW n \in DOMAIN resolved, NEW y \in Fine(n - 1),
             NEW z \in Written(y, j, resolved[n], ids[n])
      PROVE  z \in Fine(n)
  <2>1. ids[n] \in PlanIds /\ resolved[n].container \in Containers /\ n \in Nat
        BY <1>2 DEF FreshIds, ResolvedOK
  <2>2. PICK id \in PlanIds : id = ids[n]
        BY <2>1
  <2>3. /\ z \in Tables(J)
        /\ resolved[n].target # None => Live(y, id)
        /\ z[id] = IF resolved[n].target = None THEN NewPlan(j, resolved[n].container)
                   ELSE [y[id] EXCEPT !.container = resolved[n].container]
        /\ \A other \in PlanIds \ {id} : z[other] = y[other]
        BY <2>1, <2>2, WriteOne
  <2>4. \A m \in DOMAIN resolved : m <= n <=> m <= n - 1 \/ m = n
        BY <1>2, <2>1
  <2>5. \A m \in DOMAIN resolved : m <= n - 1 => m # n
        BY <1>2, <2>1
  <2>6. \A m \in DOMAIN resolved : m # n => ids[m] # id
        BY <1>3, <2>2
  <2>7. y[id] = d[id]
        BY <2>2, <2>5, <2>6
  <2>8. Live(y, id) => Live(d, id) /\ y[id] = t[id]
    <3>1. Live(y, id) => Live(d, id)
          BY <2>7 DEF Live
    <3>2. Live(d, id) => d[id] = t[id]
          BY DEF Dropped, Live
    <3> QED BY <2>7, <3>1, <3>2
  <2>9. ASSUME NEW m \in DOMAIN resolved, m <= n
        PROVE  /\ resolved[m].target # None => Live(d, ids[m])
               /\ z[ids[m]] = RowAfter(t, j, resolved[m], ids[m])
    <3>1. CASE m = n
          BY <2>2, <2>3, <2>8, <3>1 DEF RowAfter
    <3>2. CASE m # n
      <4>1. m <= n - 1 /\ ids[m] \in PlanIds \ {id}
            BY <2>4, <2>6, <2>9, <3>2 DEF FreshIds
      <4> QED BY <2>3, <4>1
    <3> QED BY <3>1, <3>2
  <2>10. ASSUME NEW other \in PlanIds, \A m \in DOMAIN resolved : m <= n => ids[m] # other
         PROVE  z[other] = d[other]
    <3>1. other # id
          BY <2>1, <2>2, <2>4, <2>10
    <3>2. y[other] = d[other]
          BY <2>4, <2>10
    <3> QED BY <2>3, <3>1, <3>2
  <2> QED BY <2>3, <2>9, <2>10
<1>7. Replaced(t, j, resolved, drop, ids) \subseteq Good[End(resolved)]
  <2>1. \A n \in Nat : Good[n] = Fine(n)
        OBVIOUS
  <2> HIDE DEF Good, Fine
  <2>2. Dropped(t, drop) \in Good[0]
        BY <1>4, <2>1
  <2>3. \A n \in 1..End(resolved) : n \notin DOMAIN resolved => Good[n - 1] \subseteq Good[n]
        BY <1>2, <1>5, <2>1
  <2>4. \A n \in DOMAIN resolved : \A y \in Good[n - 1] :
            Written(y, j, resolved[n], ids[n]) \subseteq Good[n]
    <3>1. \A n \in DOMAIN resolved : Good[n - 1] = Fine(n - 1) /\ Good[n] = Fine(n)
          BY <1>2, <2>1
    <3> QED BY <1>6, <3>1
  <2> QED BY <1>2, <2>2, <2>3, <2>4, Rewrites
<1>8. x \in Fine(End(resolved))
      BY <1>1, <1>2, <1>7
<1>9. \A m \in DOMAIN resolved : m <= End(resolved)
      BY <1>2
<1> QED BY <1>3, <1>8, <1>9 DEF OneRowEach

----------------------------------------------------------------------------
(* The invariant *)

\* What a sync that read table t found there.
FoundRows(t, j, resolved, drop) ==
    /\ drop = RowsOf(t, j) \ TargetsOf(resolved)
    /\ \A n \in DOMAIN resolved :
          /\ resolved[n].target \in RowsOf(t, j) \cup {None}
          /\ resolved[n].target = None =>
                \A id \in RowsOf(t, j) : KeyOf(t, id) # Key[resolved[n].container]

SyncOK(r) ==
    r.pc = "syncing" =>
        /\ r.job \in jobs
        /\ ResolvedOK(r.resolved)
        /\ r.job \notin disturbed => FoundRows(plan, r.job, r.resolved, r.drop)

MoveOK(r) ==
    r.pc = "moving" =>
        /\ r.id \in PlanIds
        /\ r.id \notin disturbed => Live(plan, r.id) /\ Movable(plan[r.id].status, r.to)
        /\ r.to \in Statuses

PlanRequestShape(r) ==
    /\ DOMAIN r = {"pc", "job", "resolved", "drop", "id", "to"}
    /\ r.pc \in {"idle", "syncing", "moving"}

PlansInv ==
    /\ jobs \subseteq Jobs
    /\ plan \in Tables(jobs)
    /\ DOMAIN req = Procs
    /\ \A p \in Procs : PlanRequestShape(req[p]) /\ SyncOK(req[p]) /\ MoveOK(req[p])

\* Of several spellings of a container one is resolved, and it goes to a row the
\* job has, or to none if none of the job's rows has its number.
LEMMA ResolvedFinds ==
    ASSUME NEW t, NEW j, NEW payload \in Payloads, NEW r \in Resolved(t, j, payload)
    PROVE  ResolvedOK(r) /\ FoundRows(t, j, r, RowsOf(t, j) \ TargetsOf(r))
<1>1. payload \in Seq([id : PlanIds \cup {None}, container : Containers])
      BY PlansAssumption
<1> DEFINE key(i)  == Key[payload[i].container]
           first   == {i \in DOMAIN payload : \A h \in 1..(i - 1) : key(h) # key(i)}
           last(i) == Max({h \in DOMAIN payload : key(h) = key(i)})
<1>2. /\ Len(payload) \in Nat /\ DOMAIN payload = 1..Len(payload)
      /\ \A i \in DOMAIN payload : /\ payload[i].id \in PlanIds \cup {None}
                                   /\ payload[i].container \in Containers
  <2>1. PICK R : R = [id : PlanIds \cup {None}, container : Containers]
        OBVIOUS
  <2>2. payload \in Seq(R)
        BY <1>1, <2>1
  <2>3. Len(payload) \in Nat /\ DOMAIN payload = 1..Len(payload) /\ \A i \in DOMAIN payload : payload[i] \in R
        BY <2>2
  <2> QED BY <2>1, <2>3
<1>3. PICK rows : rows = ByNumber(payload)
      OBVIOUS
<1>4. rows = [i \in first |-> payload[last(i)]]
      BY <1>3 DEF ByNumber
<1>5. ASSUME NEW i \in first PROVE last(i) \in DOMAIN payload /\ key(last(i)) = key(i)
  <2>1. PICK S : S = {h \in DOMAIN payload : key(h) = key(i)}
        OBVIOUS
  <2>2. S \subseteq 0..Len(payload) /\ S # {}
        BY <1>2, <2>1
  <2>3. Max(S) \in S
        BY <1>2, <2>2, MaxIn
  <2> QED BY <2>1, <2>3
<1>6. /\ DOMAIN rows = first /\ first \subseteq 1..Len(payload)
      /\ \A i \in first : /\ rows[i].container \in Containers
                          /\ Key[rows[i].container] = key(i)
      BY <1>2, <1>4, <1>5
<1>7. \A i, k \in first : key(i) = key(k) => i = k
  <2> SUFFICES ASSUME NEW i \in first, NEW k \in first, key(i) = key(k), i # k PROVE FALSE
      OBVIOUS
  <2>1. i \in 1..Len(payload) /\ k \in 1..Len(payload)
        BY <1>6
  <2>2. i \in 1..(k - 1) \/ k \in 1..(i - 1)
        BY <2>1, <1>2
  <2> QED BY <2>2
<1> HIDE DEF key, first, last
<1>8. PICK f \in [DOMAIN rows -> PlanIds \cup {None}] :
          /\ \A n \in DOMAIN rows : f[n] \in Target(t, RowsOf(t, j), rows[n])
          /\ r = [n \in DOMAIN rows |-> [target |-> f[n], container |-> rows[n].container]]
      BY <1>3 DEF Resolved
<1>9. /\ DOMAIN r = first
      /\ \A n \in DOMAIN r : /\ r[n].target = f[n] /\ r[n].target \in PlanIds \cup {None}
                             /\ r[n].container = rows[n].container
      BY <1>6, <1>8
<1>10. ResolvedOK(r)
  <2>1. Places(r)
        BY <1>2, <1>6, <1>9 DEF Places
  <2>3. \A n \in DOMAIN r : n \in first /\ Key[r[n].container] = key(n)
        BY <1>6, <1>9
  <2>2. \A n, m \in DOMAIN r : Key[r[n].container] = Key[r[m].container] => n = m
        BY <1>7, <2>3
  <2> QED BY <1>6, <1>9, <2>1, <2>2 DEF ResolvedOK
<1>11. ASSUME NEW n \in DOMAIN r
       PROVE  /\ r[n].target \in RowsOf(t, j) \cup {None}
              /\ r[n].target = None => \A id \in RowsOf(t, j) : KeyOf(t, id) # Key[r[n].container]
  <2>1. r[n].target \in Target(t, RowsOf(t, j), rows[n]) /\ r[n].container = rows[n].container
        BY <1>8, <1>9
  <2>2. None \notin RowsOf(t, j)
        BY PlansAssumption DEF RowsOf
  <2> QED BY <2>1, <2>2 DEF Target
<1> QED BY <1>10, <1>11 DEF FoundRows

----------------------------------------------------------------------------
(* Every step keeps it *)

\* An idle request knows nothing.
LEMMA IdlePlanOK == /\ PlanRequestShape(IdlePlan) /\ SyncOK(IdlePlan) /\ MoveOK(IdlePlan)
                    /\ IdlePlan.pc = "idle"
BY DEF PlanRequestShape, SyncOK, MoveOK, IdlePlan

\* At first there are no jobs and no rows.
LEMMA PlansInitInv == PlansInit => PlansInv
<1> SUFFICES ASSUME PlansInit PROVE PlansInv
    OBVIOUS
<1>1. jobs \subseteq Jobs /\ plan \in Tables(jobs) /\ DOMAIN req = Procs
      BY DEF PlansInit, Tables
<1>2. ASSUME NEW p \in Procs PROVE PlanRequestShape(req[p]) /\ SyncOK(req[p]) /\ MoveOK(req[p])
      BY IdlePlanOK DEF PlansInit
<1> QED BY <1>1, <1>2 DEF PlansInv

\* A request that does not move knows what it knew, or is undercut.
LEMMA WaitingKnows ==
    ASSUME PlansInv, NEW p \in Procs, NEW r, r = req[p], req'[p] = r, jobs \subseteq jobs',
           disturbed' = disturbed \cup Undercut
    PROVE  SyncOK(r)' /\ MoveOK(r)'
<1>1. SyncOK(r) /\ MoveOK(r)
      BY DEF PlansInv
<1>2. ASSUME r.pc = "syncing", r.job \notin disturbed' PROVE FoundRows(plan', r.job, r.resolved, r.drop)
  <2>1. ~At(p, "idle") /\ req[p].job \notin Undercut
        BY <1>2 DEF At
  <2>2. {<<id, plan[id].container>> : id \in RowsOf(plan, r.job)}
          = {<<id, plan'[id].container>> : id \in RowsOf(plan', r.job)}
        BY <2>1 DEF Undercut
  <2>3. RowsOf(plan, r.job) = RowsOf(plan', r.job)
    <3>1. \A id : id \in RowsOf(plan, r.job) <=>
              \E c : <<id, c>> \in {<<d, plan[d].container>> : d \in RowsOf(plan, r.job)}
          OBVIOUS
    <3>2. \A id : id \in RowsOf(plan', r.job) <=>
              \E c : <<id, c>> \in {<<d, plan'[d].container>> : d \in RowsOf(plan', r.job)}
          OBVIOUS
    <3> QED BY <2>2, <3>1, <3>2
  <2>4. \A id \in RowsOf(plan, r.job) : plan'[id].container = plan[id].container
    <3> TAKE id \in RowsOf(plan, r.job)
    <3>1. <<id, plan[id].container>> \in {<<d, plan'[d].container>> : d \in RowsOf(plan', r.job)}
          BY <2>2
    <3> QED BY <3>1
  <2>5. FoundRows(plan, r.job, r.resolved, r.drop)
        BY <1>1, <1>2 DEF SyncOK
  <2> QED BY <2>3, <2>4, <2>5 DEF FoundRows, KeyOf
<1>3. ASSUME r.pc = "moving", r.id \notin disturbed'
      PROVE  Live(plan', r.id) /\ Movable(plan'[r.id].status, r.to)
  <2>1. /\ ~At(p, "idle") /\ req[p].id \notin Undercut /\ req[p].id # None
        /\ Live(plan, r.id) /\ Movable(plan[r.id].status, r.to)
        BY <1>1, <1>3, PlansAssumption DEF At, MoveOK
  <2>2. IF Live(plan', r.id) THEN plan'[r.id].status = plan[r.id].status ELSE ~Live(plan, r.id)
        BY <2>1 DEF Undercut
  <2> QED BY <2>1, <2>2
<1> QED BY <1>1, <1>2, <1>3 DEF SyncOK, MoveOK

\* A step at a table that is well typed, by a request that knows what it needs.
LEMMA PlansStep ==
    ASSUME PlansInv, jobs \subseteq jobs', jobs' \subseteq Jobs, plan' \in Tables(jobs'),
           disturbed' = disturbed \cup Undercut,
           \/ req' = req
           \/ \E p \in Procs : \E r : /\ req' = [req EXCEPT ![p] = r]
                                     /\ PlanRequestShape(r) /\ SyncOK(r)' /\ MoveOK(r)'
    PROVE  PlansInv'
<1>1. DOMAIN req' = Procs
      BY DEF PlansInv
<1>2. ASSUME NEW q \in Procs PROVE (PlanRequestShape(req[q]) /\ SyncOK(req[q]) /\ MoveOK(req[q]))'
  <2>1. PICK k : k = req'[q]
        OBVIOUS
  <2>2. PlanRequestShape(k) /\ SyncOK(k)' /\ MoveOK(k)'
    <3>1. CASE k = req[q]
          BY <2>1, <3>1, WaitingKnows DEF PlansInv
    <3>2. CASE k # req[q]
          BY <2>1, <3>2 DEF PlansInv
    <3> QED BY <3>1, <3>2
  <2> QED BY <2>1, <2>2 DEF PlanRequestShape, SyncOK, MoveOK
<1> QED BY <1>1, <1>2 DEF PlansInv

\* Rows of jobs there are, are rows of jobs there are later.
LEMMA TablesGrow == ASSUME NEW J, NEW K, J \subseteq K PROVE Tables(J) \subseteq Tables(K)
BY DEF Tables

\* The sync of a job that is created with its containers.
LEMMA CreateJobTyped ==
    ASSUME PlansInv, NEW j \in Jobs, NEW payload \in Payloads, CreateJob(j, payload)
    PROVE  /\ jobs' = jobs \cup {j} /\ jobs' \subseteq Jobs /\ plan' \in Tables(jobs') /\ req' = req
           /\ \A id \in PlanIds : Live(plan, id) /\ Live(plan', id) => plan'[id].status = plan[id].status
<1>1. jobs' = jobs \cup {j} /\ jobs' \subseteq Jobs /\ req' = req
      BY DEF CreateJob, PlansInv
<1>2. PICK r \in Resolved(plan, j, payload) : plan' \in Synced(plan, j, r, RowsOf(plan, j) \ TargetsOf(r))
      BY DEF CreateJob, SyncedAtOnce
<1>3. PICK J, d : J = jobs \cup {j} /\ d = RowsOf(plan, j) \ TargetsOf(r)
      OBVIOUS
<1>4. J \subseteq Jobs /\ j \in J /\ plan \in Tables(J)
      BY <1>1, <1>3, TablesGrow DEF PlansInv
<1>5. ResolvedOK(r) /\ plan' \in Synced(plan, j, r, d)
      BY <1>2, <1>3, ResolvedFinds
<1>6. /\ plan' \in Tables(J)
      /\ \A id \in PlanIds : Live(plan, id) /\ Live(plan', id) => plan'[id].status = plan[id].status
      BY <1>4, <1>5, SyncedTyped
<1> QED BY <1>1, <1>3, <1>6

\* The sync of a job that is saved again.
LEMMA SyncCommitTyped ==
    ASSUME PlansInv, NEW p \in Procs, SyncCommit(p)
    PROVE  /\ plan' \in Tables(jobs)
           /\ \A id \in PlanIds : Live(plan, id) /\ Live(plan', id) => plan'[id].status = plan[id].status
<1>1. PICK j, r, d : j = req[p].job /\ r = req[p].resolved /\ d = req[p].drop
      OBVIOUS
<1>2. plan' \in Synced(plan, j, r, d)
      BY <1>1 DEF SyncCommit
<1>3. j \in jobs /\ ResolvedOK(r) /\ jobs \subseteq Jobs /\ plan \in Tables(jobs)
      BY <1>1 DEF PlansInv, SyncOK, SyncCommit, At
<1> QED BY <1>2, <1>3, SyncedTyped

\* A sync that has just read knows what it found.
LEMMA SyncReadKnows ==
    ASSUME PlansInv, NEW p \in Procs, NEW j \in Jobs, NEW payload \in Payloads, SyncRead(p, j, payload)
    PROVE  \E r : /\ req' = [req EXCEPT ![p] = r]
                  /\ PlanRequestShape(r) /\ SyncOK(r)' /\ MoveOK(r)'
<1>1. PICK found \in Resolved(plan, j, payload) :
         req' = [req EXCEPT ![p] = [IdlePlan EXCEPT !.pc = "syncing", !.job = j, !.resolved = found,
                                        !.drop = RowsOf(plan, j) \ TargetsOf(found)]]
      BY DEF SyncRead
<1>2. PICK d : d = RowsOf(plan, j) \ TargetsOf(found)
      OBVIOUS
<1>3. ResolvedOK(found) /\ FoundRows(plan, j, found, d)
      BY <1>2, ResolvedFinds
<1>4. PICK r : r = [IdlePlan EXCEPT !.pc = "syncing", !.job = j, !.resolved = found, !.drop = d]
      OBVIOUS
<1>5. /\ req' = [req EXCEPT ![p] = r] /\ PlanRequestShape(r)
      /\ r.pc = "syncing" /\ r.job = j /\ r.resolved = found /\ r.drop = d
      BY <1>1, <1>2, <1>4 DEF PlanRequestShape, IdlePlan
<1>6. plan' = plan /\ jobs' = jobs /\ j \in jobs
      BY DEF SyncRead
<1> QED BY <1>3, <1>5, <1>6 DEF SyncOK, MoveOK

\* So does a status move.
LEMMA StatusReadKnows ==
    ASSUME PlansInv, NEW p \in Procs, NEW id \in PlanIds, NEW to \in Statuses, StatusRead(p, id, to)
    PROVE  \E r : /\ req' = [req EXCEPT ![p] = r]
                  /\ PlanRequestShape(r) /\ SyncOK(r)' /\ MoveOK(r)'
<1>1. PICK r : r = [IdlePlan EXCEPT !.pc = "moving", !.id = id, !.to = to]
      OBVIOUS
<1>2. /\ req' = [req EXCEPT ![p] = r] /\ PlanRequestShape(r)
      /\ r.pc = "moving" /\ r.id = id /\ r.to = to
      BY <1>1 DEF PlanRequestShape, IdlePlan, StatusRead
<1>3. plan' = plan /\ Live(plan, id) /\ Movable(plan[id].status, to)
      BY DEF StatusRead
<1> QED BY <1>2, <1>3 DEF SyncOK, MoveOK

\* The rows a single-row edit leaves.
LEMMA RowEdits ==
    ASSUME PlansInv, NEW id \in PlanIds,
           \/ \E j \in Jobs, c \in Containers : CreatePlan(id, j, c) \/ UpdatePlan(id, j, c)
           \/ RemovePlan(id)
    PROVE  /\ jobs' = jobs /\ req' = req /\ plan' \in Tables(jobs)
           /\ \A d \in PlanIds : Live(plan, d) /\ Live(plan', d) => plan'[d].status = plan[d].status
<1>1. jobs' = jobs /\ req' = req /\ plan \in Tables(jobs)
      BY DEF PlansInv, CreatePlan, UpdatePlan, RemovePlan
<1>2. ASSUME NEW j \in Jobs, NEW c \in Containers, CreatePlan(id, j, c)
      PROVE  /\ plan' \in Tables(jobs)
             /\ \A d \in PlanIds : Live(plan, d) /\ Live(plan', d) => plan'[d].status = plan[d].status
  <2>1. NewPlan(j, c) \in [job : jobs, container : Containers, status : Statuses] /\ ~Live(plan, id)
        BY <1>2, NewStatusIn DEF CreatePlan, NewPlan, Live
  <2>2. PICK row : row = NewPlan(j, c)
        OBVIOUS
  <2>3. plan' = [plan EXCEPT ![id] = row]
        BY <1>2, <2>2 DEF CreatePlan
  <2> QED BY <1>1, <2>1, <2>2, <2>3 DEF Tables
<1>3. ASSUME NEW j \in Jobs, NEW c \in Containers, UpdatePlan(id, j, c)
      PROVE  /\ plan' \in Tables(jobs)
             /\ \A d \in PlanIds : Live(plan, d) /\ Live(plan', d) => plan'[d].status = plan[d].status
  <2>1. PICK row : row = [plan[id] EXCEPT !.job = j, !.container = c]
        OBVIOUS
  <2>2. plan[id] \in [job : jobs, container : Containers, status : Statuses] /\ j \in jobs
        BY <1>1, <1>3 DEF UpdatePlan, Live, Tables
  <2>3. plan' = [plan EXCEPT ![id] = row]
        BY <1>1, <1>3, <2>1, <2>2 DEF UpdatePlan, Tables
  <2>4. row \in [job : jobs, container : Containers, status : Statuses] /\ row.status = plan[id].status
        BY <2>1, <2>2
  <2> QED BY <1>1, <2>3, <2>4 DEF Tables
<1>4. CASE RemovePlan(id)
      BY <1>1, <1>4 DEF RemovePlan, Tables, Live
<1> QED BY <1>1, <1>2, <1>3, <1>4

\* Moving the status of a row.
LEMMA StatusCommitMoves ==
    ASSUME PlansInv, NEW p \in Procs, StatusCommit(p)
    PROVE  /\ plan' \in Tables(jobs)
           /\ req[p].id \in PlanIds /\ plan'[req[p].id].status = req[p].to
           /\ \A d \in PlanIds : d # req[p].id => plan'[d] = plan[d]
<1>1. PICK id, to : id = req[p].id /\ to = req[p].to
      OBVIOUS
<1>2. id \in PlanIds /\ to \in Statuses /\ plan \in Tables(jobs)
      BY <1>1 DEF PlansInv, MoveOK, StatusCommit, At
<1>3. plan[id] \in [job : jobs, container : Containers, status : Statuses]
      BY <1>1, <1>2 DEF StatusCommit, Live, Tables
<1>4. PICK row : row = [plan[id] EXCEPT !.status = to]
      OBVIOUS
<1>5. plan' = [plan EXCEPT ![id] = row]
      BY <1>1, <1>2, <1>4 DEF StatusCommit, Tables
<1>6. row \in [job : jobs, container : Containers, status : Statuses] /\ row.status = to
      BY <1>2, <1>3, <1>4
<1> QED BY <1>1, <1>2, <1>5, <1>6 DEF Tables

\* Every step keeps the invariant.
LEMMA PlansNextInv == PlansInv /\ [PlansNext]_planVars => PlansInv'
<1> SUFFICES ASSUME PlansInv, [PlansNext]_planVars PROVE PlansInv'
    OBVIOUS
<1>1. jobs \subseteq Jobs /\ plan \in Tables(jobs)
      BY DEF PlansInv
<1>2. CASE UNCHANGED planVars
  <2>1. jobs' = jobs /\ plan' = plan /\ req' = req /\ disturbed' = disturbed
        BY <1>2 DEF planVars
  <2> QED BY <2>1 DEF PlansInv, SyncOK, MoveOK
<1>3. CASE disturbed' = disturbed \cup Undercut /\ AtOnce
  <2>1. ASSUME NEW j \in Jobs, NEW payload \in Payloads, CreateJob(j, payload) PROVE PlansInv'
    <3>1. /\ jobs \subseteq jobs' /\ jobs' \subseteq Jobs /\ plan' \in Tables(jobs') /\ req' = req
          BY <2>1, CreateJobTyped
    <3> QED BY <1>3, <3>1, PlansStep
  <2>2. ASSUME NEW id \in PlanIds,
               \/ \E j \in Jobs, c \in Containers : CreatePlan(id, j, c) \/ UpdatePlan(id, j, c)
               \/ RemovePlan(id)
        PROVE  PlansInv'
    <3>1. jobs' = jobs /\ req' = req /\ plan' \in Tables(jobs)
          BY <2>2, RowEdits
    <3> QED BY <1>1, <1>3, <3>1, PlansStep
  <2> QED BY <1>3, <2>1, <2>2 DEF AtOnce
<1>4. ASSUME disturbed' = disturbed \cup Undercut, NEW p \in Procs, PlanStep(p) PROVE PlansInv'
  <2>1. ASSUME NEW r, req' = [req EXCEPT ![p] = r], PlanRequestShape(r), SyncOK(r)', MoveOK(r)',
               jobs' = jobs, plan' \in Tables(jobs)
        PROVE  PlansInv'
        BY <1>1, <1>4, <2>1, PlansStep
  <2>2. ASSUME NEW j \in Jobs, NEW payload \in Payloads, SyncRead(p, j, payload) PROVE PlansInv'
    <3>1. jobs' = jobs /\ plan' = plan
          BY <2>2 DEF SyncRead
    <3> QED BY <1>1, <2>1, <2>2, <3>1, SyncReadKnows
  <2>3. ASSUME NEW id \in PlanIds, NEW to \in Statuses, StatusRead(p, id, to) PROVE PlansInv'
    <3>1. jobs' = jobs /\ plan' = plan
          BY <2>3 DEF StatusRead
    <3> QED BY <1>1, <2>1, <2>3, <3>1, StatusReadKnows
  <2>4. /\ PlanRequestShape(IdlePlan) /\ SyncOK(IdlePlan)' /\ MoveOK(IdlePlan)'
        BY DEF PlanRequestShape, SyncOK, MoveOK, IdlePlan
  <2>5. CASE SyncCommit(p)
    <3>1. jobs' = jobs /\ req' = [req EXCEPT ![p] = IdlePlan]
          BY <2>5 DEF SyncCommit
    <3> QED BY <2>1, <2>4, <2>5, <3>1, SyncCommitTyped
  <2>6. CASE StatusCommit(p)
    <3>1. jobs' = jobs /\ req' = [req EXCEPT ![p] = IdlePlan]
          BY <2>6 DEF StatusCommit
    <3> QED BY <2>1, <2>4, <2>6, <3>1, StatusCommitMoves
  <2>7. CASE AbortPlan(p)
    <3>1. jobs' = jobs /\ plan' = plan /\ req' = [req EXCEPT ![p] = IdlePlan]
          BY <2>7 DEF AbortPlan
    <3> QED BY <1>1, <2>1, <2>4, <3>1
  <2> QED BY <1>4, <2>2, <2>3, <2>5, <2>6, <2>7 DEF PlanStep
<1> QED BY <1>2, <1>3, <1>4 DEF PlansNext

\* So it holds always.
LEMMA AlwaysPlansInv == PlansSpec => []PlansInv
BY PlansInitInv, PlansNextInv, PTL DEF PlansSpec

\* Rows, jobs and requests are well typed, for any number of each.
THEOREM PlansTypeCorrect == PlansSpec => []PlansTypeOK
<1>1. PlansInv => PlansTypeOK
      BY DEF PlansInv, Tables, PlanRequestShape, PlansTypeOK, Live
<1> QED BY <1>1, AlwaysPlansInv, PTL

\* Whatever saves and edits overlap, a row whose status was not moved under a
\* request moves one step along its lifecycle at a time, and never from its end.
THEOREM StatusesMoveOneStep == PlansSpec => StatusMovesOneStep
<1> DEFINE OneAtATime == \A id \in PlanIds \ disturbed :
        Live(plan, id) /\ Live(plan', id) /\ plan'[id].status # plan[id].status =>
              plan[id].status # Completed /\ OneStep(plan[id].status, plan'[id].status)
<1>1. PlansInv /\ [PlansNext]_planVars => OneAtATime
  <2> SUFFICES ASSUME PlansInv, [PlansNext]_planVars, NEW id \in PlanIds \ disturbed,
                      Live(plan, id), Live(plan', id), plan'[id].status # plan[id].status
               PROVE  Movable(plan[id].status, plan'[id].status)
      BY DEF Movable
  <2>1. plan' # plan
        OBVIOUS
  <2>2. ASSUME NEW p \in Procs, PlanStep(p) PROVE StatusCommit(p)
        BY <2>1, <2>2, SyncCommitTyped DEF PlanStep, SyncRead, StatusRead, AbortPlan
  <2>3. ~AtOnce
        BY CreateJobTyped, RowEdits DEF AtOnce
  <2>4. PICK p \in Procs : StatusCommit(p)
        BY <2>1, <2>2, <2>3 DEF PlansNext, planVars
  <2>5. req[p].id = id
        BY <2>4, StatusCommitMoves
  <2>6. Movable(plan[id].status, req[p].to)
        BY <2>4, <2>5 DEF PlansInv, MoveOK, StatusCommit, At
  <2> QED BY <2>4, <2>5, <2>6, StatusCommitMoves
<1> QED BY <1>1, AlwaysPlansInv, PTL DEF PlansSpec, StatusMovesOneStep

----------------------------------------------------------------------------
(* What an undisturbed sync leaves *)

\* A sync that nothing came between drops no row that it writes.
LEMMA CommitRows ==
    ASSUME PlansInv, NEW p \in Procs, Committing(p), ~Colliding(req[p].resolved),
           NEW j, j = req[p].job, NEW resolved, resolved = req[p].resolved
    PROVE  /\ j \in jobs /\ ResolvedOK(resolved)
           /\ FoundRows(plan, j, resolved, RowsOf(plan, j) \ TargetsOf(resolved))
           /\ \E ids \in FreshIds(plan, resolved) :
                OneRowEach(plan, j, resolved, RowsOf(plan, j) \ TargetsOf(resolved), ids, plan')
<1>1. /\ j \in jobs /\ ResolvedOK(resolved) /\ jobs \subseteq Jobs /\ plan \in Tables(jobs)
      /\ FoundRows(plan, j, resolved, req[p].drop)
      BY DEF PlansInv, SyncOK, Committing, At
<1>2. PICK d : d = req[p].drop
      OBVIOUS
<1>3. d = RowsOf(plan, j) \ TargetsOf(resolved)
      BY <1>1, <1>2 DEF FoundRows
<1>4. plan' \in Synced(plan, j, resolved, d)
      BY <1>2 DEF Committing, SyncCommit
<1>5. \E ids \in FreshIds(plan, resolved) : OneRowEach(plan, j, resolved, d, ids, plan')
      BY <1>1, <1>4, SyncedRows
<1> QED BY <1>1, <1>2, <1>3, <1>5

\* The rows of the job are afterwards those the containers went to.
LEMMA RowsAfter ==
    ASSUME NEW J, J \subseteq Jobs, plan \in Tables(J), NEW j \in J, NEW resolved, ResolvedOK(resolved),
           NEW drop, FoundRows(plan, j, resolved, drop), NEW ids \in FreshIds(plan, resolved),
           OneRowEach(plan, j, resolved, drop, ids, plan')
    PROVE  /\ RowsOf(plan', j) = {ids[n] : n \in DOMAIN resolved}
           /\ \A n \in DOMAIN resolved : KeyOf(plan', ids[n]) = Key[resolved[n].container]
           /\ \A n \in DOMAIN resolved : resolved[n].target # None =>
                 Live(plan', ids[n]) /\ plan'[ids[n]].status = plan[ids[n]].status
<1> DEFINE row(n) == plan'[ids[n]]
<1>1. ASSUME NEW n \in DOMAIN resolved
      PROVE  /\ ids[n] \in PlanIds
             /\ row(n) \in [job : J, container : Containers, status : Statuses]
             /\ row(n).job = j /\ row(n).container = resolved[n].container
             /\ resolved[n].target # None => row(n).status = plan[ids[n]].status
  <2>1. /\ ids[n] \in PlanIds /\ resolved[n].container \in Containers
        /\ row(n) = RowAfter(plan, j, resolved[n], ids[n])
        BY DEF FreshIds, ResolvedOK, OneRowEach
  <2>2. CASE resolved[n].target = None
        BY <2>1, <2>2, NewStatusIn DEF RowAfter, NewPlan
  <2>3. CASE resolved[n].target # None
    <3>1. ids[n] \in RowsOf(plan, j)
          BY <2>3 DEF FreshIds, FoundRows
    <3>2. plan[ids[n]] \in [job : J, container : Containers, status : Statuses] /\ plan[ids[n]].job = j
          BY <3>1 DEF RowsOf, Live, Tables
    <3>3. row(n) = [plan[ids[n]] EXCEPT !.container = resolved[n].container]
          BY <2>1, <2>3 DEF RowAfter
    <3> QED BY <2>1, <3>2, <3>3
  <2> QED BY <2>2, <2>3
<1>2. ASSUME NEW n \in DOMAIN resolved PROVE Live(plan', ids[n]) /\ ids[n] \in RowsOf(plan', j)
      BY <1>1, RowsLive DEF Live, RowsOf
<1>3. ASSUME NEW id \in RowsOf(plan', j) PROVE \E n \in DOMAIN resolved : ids[n] = id
  <2> SUFFICES ASSUME \A n \in DOMAIN resolved : ids[n] # id PROVE FALSE
      OBVIOUS
  <2>1. id \in PlanIds /\ Live(plan', id) /\ plan'[id].job = j
        BY DEF RowsOf
  <2>2. plan'[id] = Dropped(plan, drop)[id]
        BY <2>1 DEF OneRowEach
  <2>3. ~(id \in drop /\ Live(plan, id)) /\ plan'[id] = plan[id]
        BY <2>1, <2>2 DEF Dropped, Live
  <2>4. id \in RowsOf(plan, j)
        BY <2>1, <2>3 DEF RowsOf, Live
  <2>5. id \in TargetsOf(resolved)
        BY <2>3, <2>4 DEF FoundRows, RowsOf
  <2>6. PICK n \in DOMAIN resolved : resolved[n].target = id
        BY <2>5 DEF TargetsOf
  <2>7. id # None
        BY <2>1, PlansAssumption
  <2> QED BY <2>6, <2>7 DEF FreshIds
<1> QED BY <1>1, <1>2, <1>3 DEF KeyOf

\* As many rows as there are containers.
LEMMA AsManyRows ==
    ASSUME NEW resolved, ResolvedOK(resolved), NEW ids,
           \A n, m \in DOMAIN resolved : ids[n] = ids[m] => n = m
    PROVE  Cardinality({ids[n] : n \in DOMAIN resolved}) = Cardinality(KeysOf(resolved))
<1> DEFINE D == DOMAIN resolved
           I == {ids[n] : n \in D}
           f == [n \in D |-> ids[n]]
           g == [n \in D |-> Key[resolved[n].container]]
<1>1. IsFiniteSet(D)
  <2>1. PICK N \in Nat : D \subseteq 1..N
        BY DEF ResolvedOK, Places
  <2>2. IsFiniteSet(1..N)
        BY FS_Interval
  <2> QED BY <2>1, <2>2, FS_Subset
<1>2. f \in Bijection(D, I)
      BY DEF Bijection, Injection, Surjection, IsInjective
<1>3. g \in Bijection(D, KeysOf(resolved))
      BY DEF Bijection, Injection, Surjection, IsInjective, KeysOf, ResolvedOK
<1>4. ExistsBijection(D, I) /\ ExistsBijection(D, KeysOf(resolved))
      BY <1>2, <1>3 DEF ExistsBijection
<1> HIDE DEF D, I
<1> QED BY <1>1, <1>4, FS_Bijection DEF D, I

\* A sync no other write came between leaves one row for each container of the
\* payload and no other, and leaves the rows of other jobs alone, for payloads of
\* any length and any number of overlapping saves and edits.
THEOREM SyncsMatchPayloads == PlansSpec => SyncMatchesPayload
<1> DEFINE Matches == \A p \in Procs :
        Committing(p) /\ ~Colliding(req[p].resolved) =>
            LET j    == req[p].job
                keys == KeysOf(req[p].resolved)
            IN  /\ {KeyOf(plan', id) : id \in RowsOf(plan', j)} = keys
                /\ Cardinality(RowsOf(plan', j)) = Cardinality(keys)
                /\ \A id \in PlanIds \ (RowsOf(plan, j) \cup RowsOf(plan', j)) :
                      plan'[id] = plan[id]
<1>1. PlansInv => Matches
  <2> SUFFICES ASSUME PlansInv, NEW p \in Procs, Committing(p), ~Colliding(req[p].resolved),
                      NEW j, j = req[p].job, NEW resolved, resolved = req[p].resolved
               PROVE  /\ {KeyOf(plan', id) : id \in RowsOf(plan', j)} = KeysOf(resolved)
                      /\ Cardinality(RowsOf(plan', j)) = Cardinality(KeysOf(resolved))
                      /\ \A id \in PlanIds \ (RowsOf(plan, j) \cup RowsOf(plan', j)) :
                            plan'[id] = plan[id]
      OBVIOUS
  <2>1. PICK drop : drop = RowsOf(plan, j) \ TargetsOf(resolved)
        OBVIOUS
  <2>2. j \in jobs /\ ResolvedOK(resolved) /\ FoundRows(plan, j, resolved, drop)
        BY <2>1, CommitRows
  <2>3. PICK ids \in FreshIds(plan, resolved) : OneRowEach(plan, j, resolved, drop, ids, plan')
        BY <2>1, CommitRows
  <2>4. /\ RowsOf(plan', j) = {ids[n] : n \in DOMAIN resolved}
        /\ \A n \in DOMAIN resolved : KeyOf(plan', ids[n]) = Key[resolved[n].container]
        BY <2>2, <2>3, RowsAfter DEF PlansInv
  <2>5. {KeyOf(plan', id) : id \in RowsOf(plan', j)} = KeysOf(resolved)
        BY <2>4 DEF KeysOf
  <2>6. Cardinality(RowsOf(plan', j)) = Cardinality(KeysOf(resolved))
        BY <2>2, <2>3, <2>4, AsManyRows DEF OneRowEach
  <2>7. ASSUME NEW id \in PlanIds \ (RowsOf(plan, j) \cup RowsOf(plan', j)) PROVE plan'[id] = plan[id]
    <3>1. plan'[id] = Dropped(plan, drop)[id]
          BY <2>3, <2>4, <2>7 DEF OneRowEach
    <3> QED BY <2>1, <2>7, <3>1 DEF Dropped
  <2> QED BY <2>5, <2>6, <2>7
<1> QED BY <1>1, AlwaysPlansInv, PTL DEF PlansSpec, SyncMatchesPayload

\* A row whose number is still in the payload is the same row after such a sync,
\* with the status it had.
THEOREM KeptRowsAlwaysKeepStatus == PlansSpec => KeptRowsKeepStatus
<1> DEFINE KeepStatus == \A p \in Procs :
        Committing(p) /\ ~Colliding(req[p].resolved) =>
            \A id \in RowsOf(plan, req[p].job) :
                LET resolved == req[p].resolved
                    mine == {n \in DOMAIN resolved : Key[resolved[n].container] = KeyOf(plan, id)}
                IN  /\ mine # {}
                    /\ \A n \in mine : resolved[n].target \in {id, None}
                    => Live(plan', id) /\ plan'[id].status = plan[id].status
<1>1. PlansInv => KeepStatus
  <2> SUFFICES ASSUME PlansInv, NEW p \in Procs, Committing(p), ~Colliding(req[p].resolved),
                      NEW j, j = req[p].job, NEW resolved, resolved = req[p].resolved,
                      NEW id \in RowsOf(plan, j), NEW n \in DOMAIN resolved,
                      Key[resolved[n].container] = KeyOf(plan, id), resolved[n].target \in {id, None}
               PROVE  Live(plan', id) /\ plan'[id].status = plan[id].status
      OBVIOUS
  <2>1. PICK drop : drop = RowsOf(plan, j) \ TargetsOf(resolved)
        OBVIOUS
  <2>2. j \in jobs /\ ResolvedOK(resolved) /\ FoundRows(plan, j, resolved, drop)
        BY <2>1, CommitRows
  <2>3. PICK ids \in FreshIds(plan, resolved) : OneRowEach(plan, j, resolved, drop, ids, plan')
        BY <2>1, CommitRows
  <2>4. resolved[n].target = id /\ id # None
        BY <2>2, PlansAssumption DEF FoundRows, RowsOf
  <2>5. ids[n] = id
        BY <2>4 DEF FreshIds
  <2> QED BY <2>2, <2>3, <2>4, <2>5, RowsAfter DEF PlansInv
<1> QED BY <1>1, AlwaysPlansInv, PTL DEF PlansSpec, KeptRowsKeepStatus

=============================================================================
