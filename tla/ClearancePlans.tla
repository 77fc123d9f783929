--------------------------- MODULE ClearancePlans ---------------------------
(***************************************************************************)
(* The containers of a shipment: clearance-plans/container-sync.ts and     *)
(* clearance-plans/clearance-plans.service.ts, with the saves of a job in  *)
(* operations/operations.service.ts that carry its containers.             *)
(*                                                                         *)
(* A sync replaces the containers of a job: it reads the job's rows, finds *)
(* the row each container of the payload goes to, deletes the others and   *)
(* then writes one row after the other, all in one transaction.            *)
(***************************************************************************)
EXTENDS Requests, Integers, Sequences, FiniteSetsExt

CONSTANTS
    Jobs,       \* primary keys of clearance jobs, never deleted
    PlanIds,    \* primary keys of container rows, never used twice
    Containers, \* container numbers as typed
    Key,        \* the trimmed lower-case form of each: numbers with one key are one container
    Payloads,   \* the containers of a sync: sequences of [id, container]
    Removed     \* a row that was deleted

VARIABLES
    jobs,       \* the jobs created so far
    plan,       \* the ClearancePlan table
    disturbed   \* history: jobs and rows changed under a request that had read them

planVars == <<jobs, plan, req, disturbed>>

ASSUME PlansAssumption ==
    /\ None # Removed /\ {None, Removed} \cap PlanIds = {}
    /\ DOMAIN Key = Containers
    /\ Payloads \subseteq Seq([id : PlanIds \cup {None}, container : Containers])

----------------------------------------------------------------------------
(* Rows *)

CLEARANCE_PLAN_LIFECYCLE ==
    <<"TRANSIT_DOCS_APPROVED", "CONTAINER_ARRIVED_DRY_PORT", "CUSTOMS_VALUATION_APPROVED",
      "CLEARANCE_IN_PROGRESS", "CLEARANCE_COMPLETED">>

Statuses  == {CLEARANCE_PLAN_LIFECYCLE[i] : i \in 1..5}
NewStatus == CLEARANCE_PLAN_LIFECYCLE[1]
Completed == CLEARANCE_PLAN_LIFECYCLE[5]

OneStep(from, to) ==
    \E i, j \in DOMAIN CLEARANCE_PLAN_LIFECYCLE :
        /\ CLEARANCE_PLAN_LIFECYCLE[i] = from
        /\ CLEARANCE_PLAN_LIFECYCLE[j] = to
        /\ j \in {i - 1, i + 1}

ClearancePlan == [job : Jobs, container : Containers, status : Statuses]

\* None and Removed stand for no row.
ASSUME NoPlanAssumption == {None, Removed} \cap ClearancePlan = {}

NewPlan(j, c) == [job |-> j, container |-> c, status |-> NewStatus]

\* What follows is said of a table t, the committed one or one in the making.
Live(t, id)   == t[id] \notin {None, Removed}
RowsOf(t, j)  == {id \in PlanIds : Live(t, id) /\ t[id].job = j}
KeyOf(t, id)  == Key[t[id].container]

\* The unique index on (clearanceJobId, container): exact spelling.
Unique(t, id) == \A other \in RowsOf(t, t[id].job) \ {id} : t[other].container # t[id].container

----------------------------------------------------------------------------
(* syncJobContainers *)

\* One row per container: where its first spelling stood, as its last one says.
ByNumber(payload) ==
    LET key(i)  == Key[payload[i].container]
        first   == {i \in DOMAIN payload : \A h \in 1..(i - 1) : key(h) # key(i)}
        last(i) == Max({h \in DOMAIN payload : key(h) = key(i)})
    IN  [i \in first |-> payload[last(i)]]

\* Mutant: a row without a known id is a new one.
TargetById(t, existing, c) == IF c.id \in existing THEN {c.id} ELSE {None}

\* The rows a container may go to.  Of two existing rows of one key, the one
\* findMany returned last, which may be either.
Target(t, existing, c) ==
    LET named == {id \in existing : KeyOf(t, id) = Key[c.container]}
    IN  IF c.id \in existing THEN {c.id} ELSE IF named = {} THEN {None} ELSE named

\* What is resolved from the table read: each container with its row.
Resolved(t, j, payload) ==
    LET rows == ByNumber(payload)
    IN  {[n \in DOMAIN rows |-> [target |-> f[n], container |-> rows[n].container]] :
            f \in {g \in [DOMAIN rows -> PlanIds \cup {None}] :
                    \A n \in DOMAIN rows : g[n] \in Target(t, RowsOf(t, j), rows[n])}}

TargetsOf(resolved) == {resolved[n].target : n \in DOMAIN resolved}
KeysOf(resolved)    == {Key[resolved[n].container] : n \in DOMAIN resolved}

\* New rows get primary keys of their own.
FreshIds(t, resolved) ==
    {f \in [DOMAIN resolved -> PlanIds] :
        /\ \A n \in DOMAIN resolved : IF resolved[n].target = None THEN t[f[n]] = None
                                        ELSE f[n] = resolved[n].target
        /\ \A n, m \in DOMAIN resolved : f[n] = f[m] /\ n # m => resolved[n].target # None}

\* Mutant: rows no longer referenced are left in place.
DroppedNot(t, drop) == t

Dropped(t, drop) == [id \in PlanIds |-> IF id \in drop /\ Live(t, id) THEN Removed ELSE t[id]]

\* toData: the fields of a container, without its id, its job and its status.
toData(c) == c

\* The tables after row r is written to id: none if the row is gone or its
\* number taken, and then the whole transaction is rolled back.
Written(t, j, r, id) ==
    LET made == [t EXCEPT ![id] = IF r.target = None THEN NewPlan(j, toData(r.container))
                                  ELSE [@ EXCEPT !.container = toData(r.container)]]
    IN  IF r.target # None /\ ~Live(t, id) THEN {}
        ELSE {x \in {made} : Unique(x, id)}

\* The tables after the rows no longer kept are dropped, and the others written
\* in the order of the payload.
Replaced(t, j, resolved, drop, ids) ==
    LET end == Max({0} \cup DOMAIN resolved)
        after[n \in 0..end] ==
            IF n = 0 THEN {Dropped(t, drop)}
            ELSE IF n \notin DOMAIN resolved THEN after[n - 1]
            ELSE UNION {Written(x, j, resolved[n], ids[n]) : x \in after[n - 1]}
    IN  after[end]

\* The tables a sync may leave behind, given what it resolved.
Synced(t, j, resolved, drop) ==
    UNION {Replaced(t, j, resolved, drop, ids) : ids \in FreshIds(t, resolved)}

\* A sync whose read and writes no other write comes between.
SyncedAtOnce(t, j, payload) ==
    UNION {Synced(t, j, r, RowsOf(t, j) \ TargetsOf(r)) : r \in Resolved(t, j, payload)}

----------------------------------------------------------------------------
(* Requests *)

IdlePlan == [pc |-> "idle", job |-> None, resolved |-> <<>>, drop |-> {}, id |-> None, to |-> None]

\* The ids of a payload are those of rows somebody has seen.
Known(payload) == \A i \in DOMAIN payload : payload[i].id # None => plan[payload[i].id] # None

PlansInit ==
    /\ jobs = {}
    /\ plan = [id \in PlanIds |-> None]
    /\ req = [p \in Procs |-> IdlePlan]
    /\ disturbed = {}

\* OperationsService.create: nobody else sees the job before it commits.
CreateJob(j, payload) ==
    /\ j \notin jobs
    /\ Known(payload)
    /\ jobs' = jobs \cup {j}
    /\ \E t \in SyncedAtOnce(plan, j, payload) : plan' = t
    /\ UNCHANGED req

\* OperationsService.update and ClearancePlansService.syncForJob.  The first has
\* written the job's row and so waits for others like it; the second does not,
\* and both are taken here as if nothing kept them apart.
SyncRead(p, j, payload) ==
    /\ At(p, "idle")
    /\ j \in jobs
    /\ Known(payload)
    /\ \E r \in Resolved(plan, j, payload) :
          req' = [req EXCEPT ![p] = [IdlePlan EXCEPT !.pc = "syncing", !.job = j, !.resolved = r,
                                        !.drop = RowsOf(plan, j) \ TargetsOf(r)]]
    /\ UNCHANGED <<jobs, plan>>

SyncCommit(p) ==
    /\ At(p, "syncing")
    /\ \E t \in Synced(plan, req[p].job, req[p].resolved, req[p].drop) : plan' = t
    /\ req' = [req EXCEPT ![p] = IdlePlan]
    /\ UNCHANGED jobs

\* ClearancePlansService.create, update and remove: the checks before the write
\* are on jobs, which stay, and on the row, which the write finds or not.
CreatePlan(id, j, c) ==
    /\ j \in jobs
    /\ plan[id] = None
    /\ plan' = [plan EXCEPT ![id] = NewPlan(j, c)]
    /\ Unique(plan', id)
    /\ UNCHANGED <<jobs, req>>

UpdatePlan(id, j, c) ==
    /\ Live(plan, id)
    /\ j \in jobs
    /\ plan' = [plan EXCEPT ![id].job = j, ![id].container = c]
    /\ Unique(plan', id)
    /\ UNCHANGED <<jobs, req>>

RemovePlan(id) ==
    /\ Live(plan, id)
    /\ plan' = [plan EXCEPT ![id] = Removed]
    /\ UNCHANGED <<jobs, req>>

\* Mutant: a plan may skip statuses.
MovableAnywhere(status, to) == status # Completed /\ to # status

Movable(status, to) == status # Completed /\ OneStep(status, to)

StatusRead(p, id, to) ==
    /\ At(p, "idle")
    /\ Live(plan, id)
    /\ Movable(plan[id].status, to)
    /\ req' = [req EXCEPT ![p] = [IdlePlan EXCEPT !.pc = "moving", !.id = id, !.to = to]]
    /\ UNCHANGED <<jobs, plan>>

StatusCommit(p) ==
    /\ At(p, "moving")
    /\ Live(plan, req[p].id)
    /\ plan' = [plan EXCEPT ![req[p].id].status = req[p].to]
    /\ req' = [req EXCEPT ![p] = IdlePlan]
    /\ UNCHANGED jobs

\* A check fails, a number is taken, a row is gone, the process dies.
AbortPlan(p) ==
    /\ ~At(p, "idle")
    /\ req' = [req EXCEPT ![p] = IdlePlan]
    /\ UNCHANGED <<jobs, plan>>

PlanStep(p) ==
    \/ \E j \in Jobs, payload \in Payloads : SyncRead(p, j, payload)
    \/ SyncCommit(p)
    \/ \E id \in PlanIds, to \in Statuses : StatusRead(p, id, to)
    \/ StatusCommit(p)
    \/ AbortPlan(p)

AtOnce ==
    \/ \E j \in Jobs, payload \in Payloads : CreateJob(j, payload)
    \/ \E id \in PlanIds, j \in Jobs, c \in Containers : CreatePlan(id, j, c) \/ UpdatePlan(id, j, c)
    \/ \E id \in PlanIds : RemovePlan(id)

\* What a waiting request has read and another one changes: the containers of
\* the job it syncs, the status of the row it moves.
Undercut ==
    LET waiting  == {p \in Procs : ~At(p, "idle") /\ req'[p] = req[p]}
        shape(t, j) == {<<id, t[id].container>> : id \in RowsOf(t, j)}
        moved(id) == IF Live(plan', id) THEN plan'[id].status # plan[id].status
                     ELSE Live(plan, id)
    IN  {req[p].job : p \in {q \in waiting : shape(plan, req[q].job) # shape(plan', req[q].job)}}
        \cup {req[p].id : p \in {q \in waiting : req[q].id # None /\ moved(req[q].id)}}

PlansNext == (AtOnce \/ \E p \in Procs : PlanStep(p)) /\ disturbed' = disturbed \cup Undercut

PlansSpec == PlansInit /\ [][PlansNext]_planVars

PlansTypeOK ==
    /\ jobs \subseteq Jobs
    /\ \A id \in PlanIds : Live(plan, id) =>
          /\ plan[id].job \in jobs
          /\ plan[id].container \in Containers
          /\ plan[id].status \in Statuses
    /\ \A p \in Procs : req[p].pc \in {"idle", "syncing", "moving"}

----------------------------------------------------------------------------
(* Properties *)

Committing(p) ==
    At(p, "syncing") /\ SyncCommit(p) /\ req[p].job \notin disturbed

\* Two containers of a payload that go to one row: one by the row's id, the
\* other by the row's number.  The row ends up as the last of them.
Colliding(resolved) ==
    \E n, m \in DOMAIN resolved : n # m /\ resolved[n].target = resolved[m].target
                                        /\ resolved[n].target # None

\* "Syncs a job's container rows to match": a sync no other write came between
\* leaves one row for each container of the payload and no other, and leaves
\* the rows of other jobs alone.
SyncMatchesPayload ==
    [][\A p \in Procs :
          Committing(p) /\ ~Colliding(req[p].resolved) =>
            LET j    == req[p].job
                keys == KeysOf(req[p].resolved)
            IN  /\ {KeyOf(plan', id) : id \in RowsOf(plan', j)} = keys
                /\ Cardinality(RowsOf(plan', j)) = Cardinality(keys)
                /\ \A id \in PlanIds \ (RowsOf(plan, j) \cup RowsOf(plan', j)) :
                      plan'[id] = plan[id]]_planVars

\* "Unchanged rows keep their status and history": a row whose number is still
\* in the payload is the same row afterwards, with the same status, unless the
\* payload gives the number to another row or another row has it too.
KeptRowsKeepStatus ==
    [][\A p \in Procs :
          Committing(p) /\ ~Colliding(req[p].resolved) =>
            \A id \in RowsOf(plan, req[p].job) :
                LET resolved == req[p].resolved
                    mine == {n \in DOMAIN resolved : Key[resolved[n].container] = KeyOf(plan, id)}
                IN  /\ mine # {}
                    /\ \A n \in mine : resolved[n].target \in {id, None}
                    => Live(plan', id) /\ plan'[id].status = plan[id].status]_planVars

\* "The sync is idempotent": to send the payload again changes nothing.  (A fact
\* about the table alone, so looked at between requests.)
SyncIdempotent ==
    (\A p \in Procs : At(p, "idle")) =>
    \A j \in jobs, payload \in Payloads :
        /\ Known(payload)
        /\ \A r \in Resolved(plan, j, payload) : ~Colliding(r)
        => \A t \in SyncedAtOnce(plan, j, payload) : SyncedAtOnce(t, j, payload) = {t}

\* "Syncs a job's container rows to match containers": whatever the payload, a
\* sync leaves a row for each of its containers.  It does not: see Colliding.
SyncLosesNothing ==
    [][\A p \in Procs :
          Committing(p) =>
              KeysOf(req[p].resolved)
                  \subseteq {KeyOf(plan', id) : id \in RowsOf(plan', req[p].job)}]_planVars

\* "Completed is terminal", and no status is skipped, for a row whose status
\* was not moved under the request.
StatusMovesOneStep ==
    [][\A id \in PlanIds \ disturbed :
          Live(plan, id) /\ Live(plan', id) /\ plan'[id].status # plan[id].status =>
              plan[id].status # Completed /\ OneStep(plan[id].status, plan'[id].status)]_planVars

\* "Completed is terminal - fully locked once reached": also for a move that read
\* the row before it was completed.  It is not: nothing is checked at the write.
CompletedIsTerminal ==
    [][\A id \in PlanIds :
          Live(plan, id) /\ Live(plan', id) /\ plan[id].status = Completed =>
              plan'[id].status = Completed]_planVars

============================================================================
