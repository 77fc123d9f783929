------------------------ MODULE AccessRegistersProofs -----------------------
(***************************************************************************)
(* Proofs about two components that share nothing but the requests: Access *)
(* (grants, sessions, users) and Registers (tax rates, types, customers).  *)
(***************************************************************************)
EXTENDS Access, Registers, FiniteSetTheorems, TLAPS

----------------------------------------------------------------------------
(***************************************************************************)
(* Proofs about Access: its types, the cache of grants, and what requests  *)
(* are served, whatever the routes, users, bodies and number of requests.  *)
(*                                                                         *)
(* What a request in flight may hold depends on how far it is: RequestOK   *)
(* says it for one request, so a step needs to show it for the request     *)
(* that moved.  What a guard decides by is the table, unless stale: the    *)
(* cache is (CacheIsCurrent), and so is what a load is about to store.     *)
(***************************************************************************)

RequestOK(r) ==
    /\ r \in Request
    /\ r.pc = "guarding" =>
          r.route \in Routes /\ r.user \in Users /\ r.role \in UserRole
    /\ r.pc = "serving" =>
          r.route \in Routes /\ (~r.route.public => r.user \in Users /\ r.role \in UserRole)
    /\ r.pc = "setting" => r.body \in Bodies /\ Valid(r.body) /\ r.rows \subseteq Grant
    /\ r.pc = "login" => r.sign \in Token
    /\ r.pc = "naming" => r.body \in UserRow /\ r.route \in Routes

RequestsOK == \A p \in Procs : RequestOK(req[p])

\* The tables and the cache.
TablesOK ==
    /\ grants \subseteq Grant
    /\ cache \in {None} \cup SUBSET Grant
    /\ user \in [Users -> {None, Gone} \cup UserRow]
    /\ token \subseteq Token
    /\ stale \in BOOLEAN
    /\ req \in [Procs -> Request]

\* What a load holds is the table, unless it was overtaken.
LoadsAreCurrent == \A p \in Procs : Loads(p) => req[p].rows = grants \/ stale

Inv == TablesOK /\ RequestsOK /\ CacheIsCurrent /\ LoadsAreCurrent

----------------------------------------------------------------------------
(* The decorators *)

\* No key that can be granted is reserved.
LEMMA ReservedApart == ALL_PERMISSIONS \cap Reserved = {}
BY DEF ALL_PERMISSIONS, Reserved, MODULES

\* What a sound set of routes says of each of its members.
Sound(routes) ==
    \A r \in routes :
        /\ r.writes /\ Required(r) # None => Required(r)[2] # "view"
        /\ r.handler \in {"refresh", "me"} => ~r.public

LEMMA HandlersSound ==
    ASSUME NEW name, NEW class, NEW own, NEW names
    PROVE  /\ Sound(Handlers(name, class, own, FALSE, names))
           /\ own # None /\ own[2] # "view" => Sound(Handlers(name, class, own, TRUE, names))
           /\ own = None /\ class = None => Sound(Handlers(name, class, own, TRUE, names))
           /\ own = None /\ class # None /\ class[2] # "view"
                 => Sound(Handlers(name, class, own, TRUE, names))
BY DEF Sound, Handlers, Required

LEMMA PublicSound ==
    ASSUME NEW name, NEW writes, NEW names, names \cap {"refresh", "me"} = {}
    PROVE  Sound(Public(name, writes, names))
BY DEF Sound, Public, Required

\* Every key of the catalog is told from the absence of a decorator.
LEMMA KeysPresent ==
    /\ \A m \in {"operation", "accounting", "documents"} :
          /\ View(m) # None /\ Edit(m) # None /\ Action(m) # None
          /\ Edit(m)[2] # "view" /\ Action(m)[2] # "view"
    /\ \A m \in {"settings", "users"} : Edit(m) # None /\ Edit(m)[2] # "view"
    /\ \A key \in Reserved : key # None /\ key[2] # "view"
<1>1. {"operation", "accounting", "documents"} \X {"view", "edit", "action"} \subseteq ALL_PERMISSIONS
      BY DEF ALL_PERMISSIONS, MODULES
<1>2. {<<"settings", "edit">>, <<"users", "edit">>} \subseteq ALL_PERMISSIONS
      BY DEF ALL_PERMISSIONS, MODULES
<1> QED BY <1>1, <1>2, AbsentAssumption DEF View, Edit, Action, Reserved

LEMMA UnionSound ==
    ASSUME NEW a, NEW b, Sound(a), Sound(b)
    PROVE  Sound(a \cup b)
BY DEF Sound

LEMMA CrudSound ==
    ASSUME NEW name, NEW m, NEW edits, Edit(m) # None, Edit(m)[2] # "view"
    PROVE  Sound(Crud(name, m, edits))
BY HandlersSound, UnionSound DEF Crud, Reads, Writes

LEMMA RoutesSound == Sound(Routes)
<1> USE KeysPresent, HandlersSound, PublicSound, UnionSound, CrudSound DEF Reads, Writes
<1>1. Sound(AccountsController)
      BY DEF AccountsController
<1>2. Sound(AuditController)
      BY DEF AuditController
<1>3. Sound(BankReconciliationController)
      BY DEF BankReconciliationController
<1>4. Sound(BondedWarehouseController)
      BY DEF BondedWarehouseController
<1>5. Sound(ClearancePlansController)
      BY DEF ClearancePlansController
<1>6. Sound(CostingController)
      BY DEF CostingController
<1>7. Sound(CustomersController)
      BY DEF CustomersController
<1>8. Sound(DepositsController)
      BY DEF DepositsController
<1>9. Sound(ExpenseTypesController)
      BY DEF ExpenseTypesController
<1>10. Sound(ExpenseController)
      BY DEF ExpenseController
<1>11. Sound(IncomeController)
      BY DEF IncomeController
<1>12. Sound(InvoicesController)
      BY DEF InvoicesController
<1>13. Sound(JournalController)
      BY DEF JournalController
<1>14. Sound(OperationsController)
      BY DEF OperationsController
<1>15. Sound(PaymentsController)
      BY DEF PaymentsController
<1>16. Sound(PermissionsController)
      BY DEF PermissionsController
<1>17. Sound(ReportsController)
      BY DEF ReportsController
<1>18. Sound(ServiceTypesController)
      BY DEF ServiceTypesController
<1>19. Sound(SettingsController)
      BY DEF SettingsController
<1>20. Sound(SuppliersController)
      BY DEF SuppliersController
<1>21. Sound(TaxController)
      BY DEF TaxController
<1>22. Sound(TelegramController)
      BY DEF TelegramController
<1>23. Sound(UploadsController)
      BY DEF UploadsController
<1>24. Sound(UsersController)
      BY DEF UsersController, Reserved
<1>25. Sound(WarehouseLocationsController)
      BY DEF WarehouseLocationsController
<1>26. Sound(AuthController)
      BY DEF AuthController
<1>27. Sound(HealthController)
      BY DEF HealthController
<1>28. Sound(AppController)
      BY DEF AppController
<1> HIDE DEF Reads, Writes
<1> QED BY <1>1, <1>2, <1>3, <1>4, <1>5, <1>6, <1>7, <1>8, <1>9, <1>10, <1>11, <1>12, <1>13, <1>14, <1>15, <1>16, <1>17, <1>18, <1>19, <1>20, <1>21, <1>22, <1>23, <1>24, <1>25, <1>26, <1>27, <1>28 DEF Routes, Controllers, Sound

----------------------------------------------------------------------------
(* Requests *)

LEMMA IdleOK == RequestOK(Idle)
BY DEF RequestOK, Idle, Request

LEMMA WaitingOK ==
    ASSUME NEW p, NEW sign \in {None} \cup Token
    PROVE  RequestOK(Waiting(p, sign))
BY DEF RequestOK, Waiting, Idle, Request

\* A permission found in rows is one of the catalog, and not one to look if the
\* route writes.
LEMMA Granted ==
    ASSUME NEW route \in Routes, NEW role, NEW rows \in SUBSET Grant,
           ~Open(route, role), has(rows, role, Required(route))
    PROVE  Required(route) \notin Reserved /\ (route.writes => Required(route)[2] # "view")
<1> DEFINE g == [role |-> role, permission |-> Required(route)]
<1>1. g \in rows /\ Required(route) # None
      BY DEF has, Open
<1>2. Required(route) \in ALL_PERMISSIONS
      BY <1>1 DEF Grant
<1>3. route.writes => Required(route)[2] # "view"
      BY <1>1, RoutesSound DEF Sound
<1> QED BY <1>2, <1>3, ReservedApart

\* A request that passes both guards.
LEMMA ServedOK ==
    ASSUME NEW route \in Routes, NEW t \in Token
    PROVE  RequestOK(Served(route, t))
BY DEF RequestOK, Served, Idle, Request, Token

\* A step that moves one request and leaves the grants and their cache alone.
LEMMA Quiet ==
    ASSUME Inv, NEW p \in Procs, NEW r, Goes(p, r), RequestOK(r),
           ~At(p, "set"), r.pc \notin {"guarding", "answering"} \/ r.rows = None,
           user' \in [Users -> {None, Gone} \cup UserRow], token' \subseteq Token,
           UNCHANGED <<grants, cache, stale>>
    PROVE  Inv'
<1>1. req' \in [Procs -> Request] /\ req'[p] = r /\ \A q \in Procs \ {p} : req'[q] = req[q]
      BY DEF Inv, TablesOK, Goes, RequestOK
<1>2. RequestsOK'
      BY <1>1 DEF Inv, RequestsOK
<1>3. TablesOK'
      BY <1>1 DEF Inv, TablesOK
<1>4. \A q \in Procs : Loads(q)' => q # p /\ Loads(q)
      BY <1>1 DEF Loads
<1>5. LoadsAreCurrent'
      BY <1>1, <1>4 DEF Inv, LoadsAreCurrent
<1>6. \A q \in Procs : At(q, "set") => At(q, "set")'
      BY <1>1 DEF At
<1>7. CacheIsCurrent'
      BY <1>6 DEF Inv, CacheIsCurrent
<1> QED BY <1>2, <1>3, <1>5, <1>7 DEF Inv

----------------------------------------------------------------------------
(* Initially *)

LEMMA InitInv == Init => Inv
<1> SUFFICES ASSUME Init PROVE Inv
    OBVIOUS
<1>1. Seeded \subseteq Grant
      BY AccessAssumption DEF Seeded, GrantsTo, Grant, DEFAULT_ROLE_PERMISSIONS, ALL_PERMISSIONS, MODULES,
         View, Edit
<1>3. TablesOK
      BY <1>1, IdleOK DEF Init, TablesOK, UserRow, RequestOK
<1>4. RequestsOK /\ CacheIsCurrent
      BY IdleOK DEF Init, RequestsOK, CacheIsCurrent
<1>5. LoadsAreCurrent
      BY DEF Init, LoadsAreCurrent, Loads, Idle
<1> QED BY <1>3, <1>4, <1>5 DEF Inv

----------------------------------------------------------------------------
(* The guards *)

LEMMA ArriveInv ==
    ASSUME Inv, NEW p \in Procs, Arrive(p)
    PROVE  Inv'
<1>1. CASE GuardPublic(p)
  <2>1. PICK route \in Routes :
            /\ route.public /\ Required(route) = None
            /\ Goes(p, [Idle EXCEPT !.pc = "serving", !.route = route])
        BY <1>1, AccessAssumption DEF GuardPublic
  <2>2. RequestOK([Idle EXCEPT !.pc = "serving", !.route = route])
        BY <2>1 DEF RequestOK, Idle, Request, Open
  <2> QED BY <1>1, <2>1, <2>2, Quiet DEF GuardPublic, At, Idle, Inv, TablesOK
<1>2. CASE GuardAtOnce(p)
  <2>1. PICK route \in Routes, t \in Token :
            /\ \/ Open(route, t.role)
               \/ cache # None /\ has(cache, t.role, Required(route))
            /\ Goes(p, Served(route, t))
        BY <1>2, AccessAssumption DEF GuardAtOnce, Inv, TablesOK
  <2>2. RequestOK(Served(route, t))
        BY ServedOK
  <2> QED BY <1>2, <2>1, <2>2, Quiet DEF GuardAtOnce, At, Served, Idle, Inv, TablesOK
<1>3. CASE GuardMiss(p)
  <2>1. PICK route \in Routes, t \in Token : Goes(p, [Served(route, t) EXCEPT !.pc = "guarding"])
        BY <1>3, AccessAssumption DEF GuardMiss, Inv, TablesOK
  <2>2. RequestOK([Served(route, t) EXCEPT !.pc = "guarding"])
        BY DEF RequestOK, Served, Idle, Request, Token
  <2>3. [Served(route, t) EXCEPT !.pc = "guarding"].rows = None
        BY DEF Served, Idle
  <2> QED BY <1>3, <2>1, <2>2, <2>3, Quiet DEF GuardMiss, At, Inv, TablesOK
<1> QED BY <1>1, <1>2, <1>3 DEF Arrive

LEMMA LoadReadInv ==
    ASSUME Inv, NEW p \in Procs, LoadRead(p)
    PROVE  Inv'
<1> DEFINE r == [req[p] EXCEPT !.rows = grants]
<1>1. req' \in [Procs -> Request] /\ req'[p] = r /\ \A q \in Procs \ {p} : req'[q] = req[q]
      BY DEF Inv, TablesOK, LoadRead, Request
<1>2. RequestOK(r)
      BY DEF LoadRead, RequestOK, Request, Inv, RequestsOK, TablesOK
<1>3. RequestsOK'
      BY <1>1, <1>2 DEF Inv, RequestsOK, LoadRead
<1>4. TablesOK'
      BY <1>1 DEF Inv, TablesOK, LoadRead
<1>5. LoadsAreCurrent'
      BY <1>1 DEF Inv, LoadsAreCurrent, Loads, LoadRead, TablesOK
<1>6. CacheIsCurrent'
  <2>1. \A q \in Procs : At(q, "set") => At(q, "set")'
        BY <1>1 DEF At, LoadRead
  <2> QED BY <2>1 DEF Inv, CacheIsCurrent, LoadRead
<1> QED BY <1>3, <1>4, <1>5, <1>6 DEF Inv

\* A step that ends a load may store what it read.
LEMMA Stored ==
    ASSUME Inv, NEW p \in Procs, NEW r, Goes(p, r), RequestOK(r),
           req[p].pc \in {"guarding", "answering"},
           r.pc \notin {"guarding", "answering"},
           \/ req[p].rows # None /\ cache' = req[p].rows
           \/ cache' = cache,
           token' \subseteq Token,
           UNCHANGED <<grants, user, stale>>
    PROVE  Inv'
<1>1. req' \in [Procs -> Request] /\ req'[p] = r /\ \A q \in Procs \ {p} : req'[q] = req[q]
      BY DEF Inv, TablesOK, Goes, RequestOK
<1>2. RequestsOK'
      BY <1>1 DEF Inv, RequestsOK
<1>3. req[p].rows # None =>
          /\ req[p].rows \subseteq Grant
          /\ req[p].rows = grants \/ stale
      BY DEF Inv, TablesOK, RequestsOK, RequestOK, LoadsAreCurrent, Loads, Request
<1>4. TablesOK'
      BY <1>1, <1>3 DEF Inv, TablesOK
<1>5. \A q \in Procs : Loads(q)' => q # p /\ Loads(q)
      BY <1>1 DEF Loads
<1>6. LoadsAreCurrent'
      BY <1>1, <1>5 DEF Inv, LoadsAreCurrent
<1>7. \A q \in Procs : At(q, "set") => At(q, "set")'
      BY <1>1 DEF At
<1>8. CacheIsCurrent'
      BY <1>3, <1>7 DEF Inv, CacheIsCurrent
<1> QED BY <1>2, <1>4, <1>6, <1>8 DEF Inv

LEMMA GuardFillInv ==
    ASSUME Inv, NEW p \in Procs, GuardFill(p)
    PROVE  Inv'
<1> DEFINE r == [req[p] EXCEPT !.pc = "serving", !.rows = None]
<1>1. /\ req[p] \in Request /\ req[p].route \in Routes /\ req[p].user \in Users
      /\ req[p].role \in UserRole /\ req[p].rows \in SUBSET Grant
      BY DEF GuardFill, At, Inv, RequestsOK, RequestOK, Request
<1>2. CASE has(req[p].rows, req[p].role, Required(req[p].route))
  <2>1. RequestOK(r)
        BY <1>1 DEF RequestOK, Request
  <2>2. Goes(p, r)
        BY <1>2 DEF GuardFill
  <2>3. r.pc = "serving"
        BY <1>1 DEF Request
  <2> QED BY <2>1, <2>2, <2>3, Stored DEF GuardFill, At, Inv, TablesOK
<1>3. CASE ~has(req[p].rows, req[p].role, Required(req[p].route))
      BY <1>3, IdleOK, Stored DEF GuardFill, At, Idle, Inv, TablesOK
<1> QED BY <1>2, <1>3

LEMMA AnswerInv ==
    ASSUME Inv, NEW p \in Procs, Answer(p)
    PROVE  Inv'
<1>1. token' \subseteq Token
      BY DEF Answer, Inv, TablesOK, Request
<1> QED BY <1>1, IdleOK, Stored DEF Answer, At, Idle, Finish

----------------------------------------------------------------------------
(* Grants *)

LEMMA SetDeleteInv ==
    ASSUME Inv, NEW p \in Procs, SetDelete(p)
    PROVE  Inv'
<1>1. PICK body \in Bodies :
          /\ Valid(body)
          /\ Goes(p, [req[p] EXCEPT !.pc = "setting", !.body = body,
                                    !.rows = {g \in grants : g.role = body.role}])
      BY DEF SetDelete
<1> DEFINE rows == {g \in grants : g.role = body.role}
           r    == [req[p] EXCEPT !.pc = "setting", !.body = body, !.rows = rows]
<1>2. rows \subseteq Grant
      BY DEF Inv, TablesOK
<1>3. req[p] \in Request
      BY DEF Inv, TablesOK
<1> HIDE DEF rows
<1>4. RequestOK(r)
      BY <1>1, <1>2, <1>3 DEF RequestOK, Request
<1>5. r.pc = "setting" /\ ~At(p, "set")
      BY <1>3 DEF Request, SetDelete, Handling, At
<1>6. Goes(p, r)
      BY <1>1 DEF rows
<1> QED BY <1>4, <1>5, <1>6, Quiet DEF SetDelete, Inv, TablesOK

LEMMA SetCommitInv ==
    ASSUME Inv, NEW p \in Procs, SetCommit(p)
    PROVE  Inv'
<1> DEFINE body == req[p].body
           new  == GrantsTo(body.role, body.permissions)
<1>1. body \in Bodies /\ Valid(body)
      BY DEF SetCommit, At, Inv, RequestsOK, RequestOK
<1>2. new \subseteq Grant
      BY <1>1, AccessAssumption DEF GrantsTo, Grant, Valid
<1>3. /\ grants' \subseteq grants \cup new
      /\ stale' = (stale \/ \E q \in Procs : Loads(q))
      BY DEF SetCommit
<1>5. req' \in [Procs -> Request]
      BY IdleOK DEF SetCommit, Inv, TablesOK, RequestOK, Request, Idle
<1>6. \A q \in Procs : /\ req'[q] \in {[Idle EXCEPT !.pc = "set"], [req[q] EXCEPT !.rows = {}], req[q]}
                       /\ req'[q] = req[q] \/ ~Loads(q)'
                       /\ req'[q] = [req[q] EXCEPT !.rows = {}] => At(q, "setting") \/ req'[q] = req[q]
      BY DEF SetCommit, Inv, TablesOK, Request, Idle, Loads, At
<1>7. RequestsOK'
  <2> SUFFICES ASSUME NEW q \in Procs PROVE RequestOK(req'[q])
      BY DEF RequestsOK
  <2>1. RequestOK(req[q])
        BY DEF Inv, RequestsOK
  <2>2. CASE req'[q] = [Idle EXCEPT !.pc = "set"]
        BY <2>2 DEF RequestOK, Idle, Request
  <2>3. CASE req'[q] = [req[q] EXCEPT !.rows = {}] /\ At(q, "setting")
        BY <2>1, <2>3 DEF RequestOK, Request, At
  <2> QED BY <1>6, <2>1, <2>2, <2>3
<1>8. TablesOK'
      BY <1>2, <1>3, <1>5 DEF Inv, TablesOK, SetCommit
<1>9. LoadsAreCurrent'
      BY <1>3, <1>6 DEF LoadsAreCurrent, Loads
<1>10. CacheIsCurrent'
      BY DEF CacheIsCurrent, SetCommit, At, Idle
<1> QED BY <1>7, <1>8, <1>9, <1>10 DEF Inv

LEMMA SetDropInv ==
    ASSUME Inv, NEW p \in Procs, SetDrop(p)
    PROVE  Inv'
<1>1. /\ req' \in [Procs -> Request]
      /\ req'[p] = Waiting(p, None)
      /\ \A q \in Procs \ {p} : req'[q] = req[q]
      BY WaitingOK DEF Inv, TablesOK, SetDrop, Goes, RequestOK
<1>2. RequestsOK'
      BY <1>1, WaitingOK DEF Inv, RequestsOK, SetDrop
<1>3. TablesOK'
      BY <1>1 DEF Inv, TablesOK, SetDrop, Dropped
<1>4. \A q \in Procs : Loads(q)' => q # p /\ Loads(q)
      BY <1>1 DEF Loads, Waiting, Idle
<1>5. LoadsAreCurrent'
      BY <1>1, <1>4 DEF Inv, LoadsAreCurrent, SetDrop
<1>6. CacheIsCurrent'
      BY DEF CacheIsCurrent, SetDrop, Dropped
<1> QED BY <1>2, <1>3, <1>5, <1>6 DEF Inv

LEMMA SeedGrantInv ==
    ASSUME Inv, SeedGrant
    PROVE  Inv'
<1>1. Seeded \subseteq Grant
      BY AccessAssumption DEF Seeded, GrantsTo, Grant, DEFAULT_ROLE_PERMISSIONS, ALL_PERMISSIONS, MODULES,
         View, Edit
<1>2. PICK g \in Grant : grants' = grants \cup {g}
      BY <1>1 DEF SeedGrant
<1>4. TablesOK'
      BY <1>2 DEF Inv, TablesOK, SeedGrant
<1>5. RequestsOK'
      BY DEF Inv, RequestsOK, SeedGrant
<1>6. LoadsAreCurrent'
      BY DEF LoadsAreCurrent, Loads, SeedGrant
<1>7. CacheIsCurrent'
      BY DEF CacheIsCurrent, SeedGrant
<1> QED BY <1>4, <1>5, <1>6, <1>7 DEF Inv

----------------------------------------------------------------------------
(* Sessions and users *)

\* An answer that may first have to wait for the grants.
LEMMA RespondInv ==
    ASSUME Inv, NEW p \in Procs, NEW role, NEW sign \in {None} \cup Token, Respond(p, role, sign),
           ~At(p, "set"), UNCHANGED <<grants, cache, user, stale>>
    PROVE  Inv'
<1>1. Waiting(p, sign).rows = None /\ Idle.pc = "idle"
      BY DEF Waiting, Idle
<1>2. token' \subseteq Token
      BY DEF Respond, Inv, TablesOK
<1> QED BY <1>1, <1>2, IdleOK, WaitingOK, Quiet DEF Respond, Finish, Inv, TablesOK

LEMMA LiveRow ==
    ASSUME Inv, NEW u \in Users, Live(u)
    PROVE  user[u] \in UserRow /\ Signed(u, user[u]) \in Token
BY DEF Inv, TablesOK, Live, Signed, Token, UserRow

LEMMA SessionInv ==
    ASSUME Inv, NEW p \in Procs,
           LoginRead(p) \/ LoginTouch(p) \/ Refresh(p) \/ Me(p) \/ Matrix(p)
    PROVE  Inv'
<1>1. CASE LoginRead(p)
  <2>1. PICK u \in Users : Live(u) /\ Goes(p, [Idle EXCEPT !.pc = "login", !.sign = Signed(u, user[u])])
        BY <1>1 DEF LoginRead
  <2>2. RequestOK([Idle EXCEPT !.pc = "login", !.sign = Signed(u, user[u])])
        BY <2>1, LiveRow DEF RequestOK, Idle, Request
  <2>3. [Idle EXCEPT !.pc = "login", !.sign = Signed(u, user[u])].pc = "login"
        BY DEF Idle
  <2> QED BY <1>1, <2>1, <2>2, <2>3, Quiet DEF LoginRead, Handling, At, Inv, TablesOK
<1>2. CASE LoginTouch(p)
  <2>1. req[p].sign \in Token /\ ~At(p, "set")
        BY <1>2 DEF LoginTouch, At, Inv, RequestsOK, RequestOK
  <2> QED BY <1>2, <2>1, RespondInv DEF LoginTouch
<1>3. CASE Refresh(p)
  <2>1. req[p].user \in Users /\ ~At(p, "set")
        BY <1>3, RoutesSound DEF Refresh, Handling, At, Inv, RequestsOK, RequestOK, Sound
  <2>2. Renewed(req[p].user, req[p].role) \in Token
        BY <1>3, <2>1, LiveRow DEF Refresh, Renewed
  <2> QED BY <1>3, <2>1, <2>2, RespondInv DEF Refresh
<1>4. CASE Me(p)
      BY <1>4, RespondInv DEF Me, Handling, At
<1>5. CASE Matrix(p)
  <2>1. Waiting(p, None).rows = None
        BY DEF Waiting, Idle
  <2> QED BY <1>5, <2>1, WaitingOK, Quiet DEF Matrix, Handling, At, Inv, TablesOK
<1> QED BY <1>1, <1>2, <1>3, <1>4, <1>5

\* A step that ends its request and touches users and tokens at most.
LEMMA Finished ==
    ASSUME Inv, NEW p \in Procs, Finish(p), ~At(p, "set"),
           user' \in [Users -> {None, Gone} \cup UserRow], token' \subseteq Token,
           UNCHANGED <<grants, cache, stale>>
    PROVE  Inv'
<1>1. Idle.pc = "idle"
      BY DEF Idle
<1> QED BY <1>1, IdleOK, Quiet DEF Finish

LEMMA NewUserType ==
    ASSUME NEW email \in Emails, NEW role \in UserRole
    PROVE  NewUser(email, role) \in UserRow
BY DEF NewUser, UserRow

LEMMA UserStepInv ==
    ASSUME Inv, NEW p \in Procs,
           NameCheck(p) \/ NameCommit(p) \/ UpdateUser(p) \/ RemoveUser(p) \/ Serve(p) \/ Abort(p)
    PROVE  Inv'
<1>1. CASE NameCheck(p)
  <2>1. PICK email \in Emails, role \in UserRole :
            Goes(p, [Idle EXCEPT !.pc = "naming", !.route = req[p].route,
                                 !.body = NewUser(email, role)])
        BY <1>1 DEF NameCheck
  <2> DEFINE r == [Idle EXCEPT !.pc = "naming", !.route = req[p].route,
                               !.body = NewUser(email, role)]
  <2>2. req[p].route \in Routes /\ ~At(p, "set")
        BY <1>1 DEF NameCheck, Handling, At, Inv, RequestsOK, RequestOK
  <2>3. RequestOK(r) /\ r.pc = "naming"
        BY <2>2, NewUserType DEF RequestOK, Idle, Request
  <2>4. Goes(p, r)
        BY <2>1
  <2> QED BY <1>1, <2>2, <2>3, <2>4, Quiet DEF NameCheck, Inv, TablesOK
<1>2. CASE NameCommit(p)
  <2>1. req[p].body \in UserRow /\ ~At(p, "set")
        BY <1>2 DEF NameCommit, At, Inv, RequestsOK, RequestOK
  <2>2. \A u \in Users : Signed(u, req[p].body) \in Token
        BY <2>1 DEF Signed, Token, UserRow
  <2>3. user' \in [Users -> {None, Gone} \cup UserRow] /\ token' \subseteq Token
        BY <1>2, <2>1, <2>2 DEF NameCommit, Inv, TablesOK
  <2> QED BY <1>2, <2>1, <2>3, Finished DEF NameCommit
<1>3. CASE UpdateUser(p)
  <2>1. user' \in [Users -> {None, Gone} \cup UserRow]
    <3>1. PICK u \in Users, role \in UserRole, isActive \in BOOLEAN :
              /\ Live(u)
              /\ user' = [user EXCEPT ![u].role = role, ![u].isActive = isActive]
          BY <1>3 DEF UpdateUser
    <3>2. [[user[u] EXCEPT !.role = role] EXCEPT !.isActive = isActive] \in UserRow
          BY <3>1, LiveRow DEF UserRow
    <3>3. user' = [user EXCEPT ![u] = [[user[u] EXCEPT !.role = role] EXCEPT !.isActive = isActive]]
          BY <3>1 DEF Inv, TablesOK
    <3> QED BY <3>2, <3>3 DEF Inv, TablesOK
  <2> QED BY <1>3, <2>1, Finished DEF UpdateUser, Handling, At, Inv, TablesOK
<1>4. CASE RemoveUser(p)
      BY <1>4, Finished DEF RemoveUser, Handling, At, Inv, TablesOK
<1>5. CASE Serve(p)
      BY <1>5, Finished DEF Serve, At, Inv, TablesOK
<1>6. CASE Abort(p)
      BY <1>6, Finished DEF Abort, At, Inv, TablesOK
<1> QED BY <1>1, <1>2, <1>3, <1>4, <1>5, <1>6

\* A step of no request.
LEMMA Beside ==
    ASSUME Inv, user' \in [Users -> {None, Gone} \cup UserRow], token' \subseteq Token,
           UNCHANGED <<grants, cache, req, stale>>
    PROVE  Inv'
BY DEF Inv, TablesOK, RequestsOK, CacheIsCurrent, LoadsAreCurrent, Loads, At

LEMMA ExpireInv ==
    ASSUME Inv, NEW t \in Token, Expire(t)
    PROVE  Inv'
BY Beside DEF Expire, Inv, TablesOK

LEMMA SeedUserInv ==
    ASSUME Inv, SeedUser
    PROVE  Inv'
<1>1. PICK t \in [email : Emails, role : UserRole] :
          \/ \E u \in Users : user' = [user EXCEPT ![u] = NewUser(t.email, t.role)]
          \/ \E u \in Users : Live(u) /\ user' = [user EXCEPT ![u].role = t.role]
      BY AccessAssumption DEF SeedUser
<1>2. user' \in [Users -> {None, Gone} \cup UserRow]
  <2>1. CASE \E u \in Users : user' = [user EXCEPT ![u] = NewUser(t.email, t.role)]
        BY <2>1, NewUserType DEF Inv, TablesOK
  <2>2. CASE \E u \in Users : Live(u) /\ user' = [user EXCEPT ![u].role = t.role]
    <3>1. PICK u \in Users : Live(u) /\ user' = [user EXCEPT ![u].role = t.role]
          BY <2>2
    <3>2. [user[u] EXCEPT !.role = t.role] \in UserRow
          BY <3>1, LiveRow DEF UserRow
    <3> QED BY <3>1, <3>2 DEF Inv, TablesOK
  <2> QED BY <1>1, <2>1, <2>2
<1> QED BY <1>2, Beside DEF SeedUser, Inv, TablesOK

LEMMA RestartInv ==
    ASSUME Inv, Restart
    PROVE  Inv'
<1>1. RequestsOK'
      BY IdleOK DEF Restart, RequestsOK
<1>2. TablesOK'
      BY IdleOK DEF Restart, Inv, TablesOK, RequestOK
<1>3. LoadsAreCurrent' /\ CacheIsCurrent'
      BY DEF Restart, LoadsAreCurrent, CacheIsCurrent, Loads, Idle
<1> QED BY <1>1, <1>2, <1>3 DEF Inv

----------------------------------------------------------------------------
(* Theorems *)

LEMMA NextInv == Inv /\ [Next]_vars => Inv'
<1> SUFFICES ASSUME Inv, [Next]_vars PROVE Inv'
    OBVIOUS
<1>1. ASSUME NEW p \in Procs, Arrive(p) PROVE Inv'
      BY <1>1, ArriveInv
<1>2. ASSUME NEW p \in Procs, Continue(p) PROVE Inv'
      BY <1>2, LoadReadInv, GuardFillInv, AnswerInv, SetDeleteInv, SetCommitInv, SetDropInv,
         SessionInv, UserStepInv DEF Continue
<1>3. ASSUME NEW t \in Token, Expire(t) PROVE Inv'
      BY <1>3, ExpireInv
<1>4. CASE SeedGrant \/ SeedUser \/ Restart
      BY <1>4, SeedGrantInv, SeedUserInv, RestartInv
<1>5. CASE UNCHANGED vars
      BY <1>5, Beside DEF vars, Inv, TablesOK
<1> QED BY <1>1, <1>2, <1>3, <1>4, <1>5 DEF Next, Clients

LEMMA AlwaysInv == Spec => []Inv
BY InitInv, NextInv, PTL DEF Spec

\* Grants, cache, users, tokens and requests keep their types in every interleaving of the
\* permission, session and user services, so no reserved key is ever granted or cached.
THEOREM AccessTypeCorrect == Spec => []TypeOK
<1>1. Inv => TypeOK
      BY DEF Inv, TablesOK, TypeOK
<1> QED BY <1>1, AlwaysInv, PTL

\* The cache of the grants is current, but for a change that is being made and for one
\* that overtook a load or came from a script (permissions.service.ts:8).
THEOREM CacheStaysCurrent == Spec => []CacheIsCurrent
<1>1. Inv => CacheIsCurrent
      BY DEF Inv
<1> QED BY <1>1, AlwaysInv, PTL

\* A request is let in by a guard and by nothing else.
LEMMA LetInByGuard ==
    ASSUME Inv, [Next]_vars, NEW p \in Procs, req[p].pc # "serving", req'[p].pc = "serving"
    PROVE  GuardPublic(p) \/ GuardAtOnce(p) \/ GuardFill(p)
<1>1. req \in [Procs -> Request] /\ Idle.pc = "idle" /\ \A sign : Waiting(p, sign).pc = "answering"
      BY DEF Inv, TablesOK, Idle, Waiting
<1>2. ASSUME NEW q \in Procs, NEW r, Goes(q, r) PROVE q = p /\ r.pc = "serving"
      BY <1>1, <1>2 DEF Goes
<1>3. \A q \in Procs : ~Finish(q)
      BY <1>1, <1>2 DEF Finish
<1>4. ASSUME NEW q \in Procs, NEW role, NEW sign PROVE ~Respond(q, role, sign)
  <2>1. Waiting(q, sign).pc = "answering"
        BY DEF Waiting, Idle
  <2> QED BY <2>1, <1>2, <1>3 DEF Respond
<1>5. ASSUME NEW q \in Procs, Arrive(q) PROVE GuardPublic(p) \/ GuardAtOnce(p)
  <2>1. ASSUME NEW route, NEW t PROVE [Served(route, t) EXCEPT !.pc = "guarding"].pc # "serving"
        BY DEF Served, Idle
  <2>2. ~GuardMiss(q)
        BY <2>1, <1>2 DEF GuardMiss
  <2>3. q = p
        BY <1>5, <2>2, <1>2 DEF Arrive, GuardPublic, GuardAtOnce
  <2> QED BY <1>5, <2>2, <2>3 DEF Arrive
<1>6. ASSUME NEW q \in Procs, Continue(q) PROVE GuardFill(p)
  <2>1. ~LoadRead(q)
        BY <1>1 DEF LoadRead, Request
  <2>2. ~SetDelete(q)
    <3>1. \A body, rows : [req[q] EXCEPT !.pc = "setting", !.body = body, !.rows = rows].pc # "serving"
          BY <1>1 DEF Request
    <3> QED BY <3>1, <1>2 DEF SetDelete
  <2>3. ~SetCommit(q)
        BY <1>1 DEF SetCommit, Request, Idle
  <2>4. ~SetDrop(q) /\ ~Matrix(q)
    <3>1. Waiting(q, None).pc = "answering"
          BY DEF Waiting, Idle
    <3> QED BY <3>1, <1>2 DEF SetDrop, Matrix
  <2>5. ~LoginRead(q)
    <3>1. \A sign : [Idle EXCEPT !.pc = "login", !.sign = sign].pc # "serving"
          BY DEF Idle
    <3> QED BY <3>1, <1>2 DEF LoginRead
  <2>6. ~NameCheck(q)
    <3>1. \A route, body :
              [Idle EXCEPT !.pc = "naming", !.route = route, !.body = body].pc # "serving"
          BY DEF Idle
    <3> QED BY <3>1, <1>2 DEF NameCheck
  <2>7. ~(LoginTouch(q) \/ Refresh(q) \/ Me(q))
        BY <1>4 DEF LoginTouch, Refresh, Me
  <2>8. ~(Answer(q) \/ NameCommit(q) \/ UpdateUser(q) \/ RemoveUser(q) \/ Serve(q) \/ Abort(q))
        BY <1>3 DEF Answer, NameCommit, UpdateUser, RemoveUser, Serve, Abort
  <2>9. GuardFill(q)
        BY <1>6, <2>1, <2>2, <2>3, <2>4, <2>5, <2>6, <2>7, <2>8 DEF Continue
  <2> QED BY <2>9, <1>2 DEF GuardFill
<1>7. ~(SeedGrant \/ SeedUser \/ UNCHANGED vars) /\ \A t \in Token : ~Expire(t)
      BY DEF SeedGrant, SeedUser, Expire, vars
<1>8. ~Restart
      BY <1>1 DEF Restart
<1> QED BY <1>5, <1>6, <1>7, <1>8 DEF Next, Clients

\* What the guard of a route goes by is the table, unless a change of grants is between
\* its commit and its drop, or overtook a load, or came from a script.
LEMMA LetInRightly ==
    ASSUME Inv, NEW p \in Procs, GuardPublic(p) \/ GuardAtOnce(p) \/ GuardFill(p),
           req'[p].pc = "serving", ~Open(req'[p].route, req'[p].role)
    PROVE  /\ has(grants, req'[p].role, Required(req'[p].route))
                 \/ stale \/ \E q \in Procs : At(q, "set")
           /\ Required(req'[p].route) \notin Reserved
           /\ req'[p].route.writes => Required(req'[p].route)[2] # "view"
<1>1. req \in [Procs -> Request]
      BY DEF Inv, TablesOK
<1>2. CASE GuardPublic(p)
  <2>1. PICK route \in Calls[p] :
            /\ route.public /\ Required(route) = None
            /\ Goes(p, [Idle EXCEPT !.pc = "serving", !.route = route])
        BY <1>2 DEF GuardPublic
  <2>2. req'[p].route = route
        BY <1>1, <2>1 DEF Goes, Idle
  <2> QED BY <2>1, <2>2 DEF Open
<1>3. CASE GuardAtOnce(p)
  <2>1. PICK route \in Routes, t \in Token :
            /\ \/ Open(route, t.role)
               \/ cache # None /\ has(cache, t.role, Required(route))
            /\ Goes(p, Served(route, t))
        BY <1>3, AccessAssumption DEF GuardAtOnce, Inv, TablesOK
  <2>2. req'[p].route = route /\ req'[p].role = t.role
        BY <1>1, <2>1 DEF Goes, Served, Idle
  <2>3. cache \in SUBSET Grant /\ has(cache, t.role, Required(route))
        BY <2>1, <2>2 DEF Inv, TablesOK
  <2>4. cache = grants \/ stale \/ \E q \in Procs : At(q, "set")
        BY <2>1, <2>2 DEF Inv, CacheIsCurrent
  <2>5. Required(route) \notin Reserved /\ (route.writes => Required(route)[2] # "view")
        BY <2>2, <2>3, Granted
  <2> QED BY <2>2, <2>3, <2>4, <2>5
<1>4. CASE GuardFill(p)
  <2>1. req[p].route \in Routes /\ req[p].rows \in SUBSET Grant
        BY <1>4 DEF GuardFill, At, Inv, RequestsOK, RequestOK, Request
  <2>2. req[p].rows = grants \/ stale
        BY <1>4 DEF GuardFill, At, Inv, LoadsAreCurrent, Loads
  <2>3. /\ has(req[p].rows, req[p].role, Required(req[p].route))
        /\ req'[p].route = req[p].route /\ req'[p].role = req[p].role
        BY <1>1, <1>4 DEF GuardFill, Goes, Idle, Request
  <2>4. /\ Required(req[p].route) \notin Reserved
        /\ req[p].route.writes => Required(req[p].route)[2] # "view"
        BY <2>1, <2>3, Granted
  <2> QED BY <2>2, <2>3, <2>4
<1> QED BY <1>2, <1>3, <1>4

\* Of every route of every controller: a request that needs a permission is let in only
\* while the table grants it to its role, outside the two windows of the cache; what is
\* reserved is for SUPER_ADMIN alone, and no write is let in for a permission to look.
THEOREM AlwaysServedWithinGrants == Spec => ServedWithinGrants
<1>1. Inv /\ [Next]_vars =>
          \A p \in Procs :
              LET route == req'[p].route
                  role  == req'[p].role
              IN  req[p].pc # "serving" /\ req'[p].pc = "serving" /\ ~Open(route, role) =>
                      /\ has(grants, role, Required(route)) \/ stale \/ \E q \in Procs : At(q, "set")
                      /\ Required(route) \notin Reserved
                      /\ route.writes => Required(route)[2] # "view"
      BY LetInByGuard, LetInRightly
<1> QED BY <1>1, AlwaysInv, PTL DEF Spec, ServedWithinGrants

----------------------------------------------------------------------------
(***************************************************************************)
(* Proofs about Registers: tax rates, types and the records that name      *)
(* them, and the status of customers, for any rows and requests.           *)
(*                                                                         *)
(* Each property needs to know of a request in flight that what it has     *)
(* decided by is still so, unless it is outdated: a rate that is being     *)
(* removed is not the default, no record names a type that is being        *)
(* removed, a type that was looked for is there, and a change of status    *)
(* has its remark.                                                         *)
(***************************************************************************)

Codes == Bases \X (1..Copies)
Rates == [percent : Percents, isDefault : BOOLEAN]
TypeRows == [code : Codes, isActive : BOOLEAN]

RateRequest(r) ==
    \/ /\ r.pc = "create" /\ r.id \in RateIds
       /\ r.body.percent \in Percents /\ r.body.isDefault \in BOOLEAN
       /\ r.body.isDefault # TRUE => r.seen = {}
    \/ /\ r.pc = "update" /\ r.id \in RateIds
       /\ r.body.percent \in {None} \cup Percents /\ r.body.isDefault \in {None} \cup BOOLEAN
       /\ r.body.isDefault # TRUE => r.seen = {}
    \/ r.pc = "removing" /\ r.id \in RateIds /\ (~r.outdated => r.id \notin Defaults)

TypeRequest(r) ==
    \/ r.pc = "typing" /\ r.body \in Codes
    \/ /\ r.pc = "untyping" /\ r.id \in TypeIds /\ r.body \in Codes
       /\ IsType(r.id) => type[r.id].code = r.body
       /\ ~r.outdated => Unused(r.body)
    \/ /\ r.pc = "recording" /\ r.id \in Records /\ r.body \in Codes
       /\ ~r.outdated => TypeOf(r.body) # {}

CustomerRequest(r) ==
    /\ r.pc = "customer" /\ r.id \in Customers
    /\ r.body.isActive \in {None} \cup BOOLEAN
    /\ ~r.outdated => Allowed(customer[r.id], r.body)

RegisterRequestOK(r) == r.pc = "idle" \/ RateRequest(r) \/ TypeRequest(r) \/ CustomerRequest(r)

RegisterRequestsOK == \A p \in Procs : RegisterRequestOK(req[p])

Fields == {"pc", "id", "body", "seen", "outdated"}

Shapes ==
    /\ DOMAIN req = Procs /\ \A p \in Procs : DOMAIN req[p] = Fields
    /\ DOMAIN rate = RateIds /\ DOMAIN type = TypeIds
    /\ DOMAIN record = Records /\ DOMAIN customer = Customers
    /\ missed \in BOOLEAN /\ chosen \in BOOLEAN

RatesOK ==
    /\ \A r \in RateIds : IsRate(r) => rate[r] \in Rates /\ FreePercent(rate[r].percent, r)
    /\ ~missed => /\ \A r, s \in Defaults : r = s
                  /\ chosen => Defaults # {}

TypesOK ==
    /\ \A t \in TypeIds : IsType(t) => type[t] \in TypeRows
    /\ \A s, t \in TypeIds : IsType(s) /\ IsType(t) /\ type[s].code = type[t].code => s = t
    /\ \A i \in Records : record[i] \in {None} \cup Codes
    /\ NamedTypeExists

CustomersOK ==
    /\ \A c \in Customers : customer[c].isActive \in BOOLEAN
    /\ StatusHasRemark

RegistersInv == Shapes /\ RatesOK /\ TypesOK /\ CustomersOK /\ RegisterRequestsOK

----------------------------------------------------------------------------

LEMMA IdleRegisterOK == RegisterRequestOK(IdleRegister) /\ DOMAIN IdleRegister = Fields /\ IdleRegister.pc = "idle"
BY DEF RegisterRequestOK, IdleRegister, Fields

LEMMA RegistersInitInv == RegistersInit => RegistersInv
<1> SUFFICES ASSUME RegistersInit PROVE RegistersInv
    OBVIOUS
<1>1. Shapes /\ RegisterRequestsOK
      BY IdleRegisterOK DEF RegistersInit, Shapes, RegisterRequestsOK
<1>2. RatesOK
  <2>1. \A r \in RateIds : IsRate(r) =>
           rate[r] \in Rates /\ FreePercent(rate[r].percent, r) /\ rate[r].percent \in DOMAIN SeededRates
           /\ rate[r].isDefault = SeededRates[rate[r].percent]
        BY DEF RegistersInit, IsRate, Rates
  <2>2. ASSUME NEW r \in Defaults, NEW s \in Defaults PROVE r = s
    <3>1. rate[r].percent = rate[s].percent
          BY <2>1, <2>2, RegistersAssumption DEF Defaults
    <3> QED BY <2>1, <2>2, <3>1 DEF Defaults, FreePercent
  <2>3. ASSUME chosen PROVE Defaults # {}
    <3>1. PICK percent \in DOMAIN SeededRates : SeededRates[percent]
          BY <2>3 DEF RegistersInit
    <3>2. PICK r \in RateIds : IsRate(r) /\ rate[r].percent = percent
          BY <3>1 DEF RegistersInit
    <3>3. r \in Defaults
          BY <2>1, <3>1, <3>2 DEF Defaults
    <3> QED BY <3>3
  <2> QED BY <2>1, <2>2, <2>3 DEF RatesOK
<1>3. TypesOK
  <2>1. PICK other \in TypeIds :
           type = [t \in TypeIds |-> IF t = other THEN [code |-> <<Other, 1>>, isActive |-> TRUE]
                                     ELSE None]
        BY DEF RegistersInit
  <2>2. <<Other, 1>> \in Codes
        BY RegistersAssumption DEF Codes
  <2>3. \A t \in TypeIds : IsType(t) => t = other /\ type[t] \in TypeRows
        BY <2>1, <2>2 DEF IsType, TypeRows
  <2>4. \A i \in Records : record[i] = None
        BY DEF RegistersInit
  <2> QED BY <2>3, <2>4 DEF TypesOK, NamedTypeExists
<1>4. CustomersOK
      BY DEF RegistersInit, CustomersOK, StatusHasRemark
<1> QED BY <1>1, <1>2, <1>3, <1>4 DEF RegistersInv

(***************************************************************************)
(* What a request knows.  Moved: a request has its answer, is as it was,   *)
(* or has become outdated.                                                 *)
(***************************************************************************)

Moved(q) ==
    \/ req'[q] = IdleRegister
    \/ req'[q] = req[q]
    \/ req'[q] = [req[q] EXCEPT !.outdated = TRUE]

AllMoved == DOMAIN req' = Procs /\ \A q \in Procs : Moved(q)

LEMMA AnswersMoves ==
    ASSUME NEW p \in Procs, NEW P, Answers(p, P)
    PROVE  /\ AllMoved
           /\ \A q \in Procs : q \in P => req'[q] = IdleRegister \/ req'[q] = [req[q] EXCEPT !.outdated = TRUE]
BY DEF Answers, AllMoved, Moved

LEMMA IdleMoves == ASSUME RegistersInv, NEW p \in Procs, Goes(p, IdleRegister) PROVE AllMoved
BY DEF Goes, AllMoved, Moved, RegistersInv, Shapes

LEMMA StillMoves == ASSUME RegistersInv, UNCHANGED req PROVE AllMoved
BY DEF AllMoved, Moved, RegistersInv, Shapes

LEMMA MovedShapes == ASSUME RegistersInv, AllMoved PROVE \A q \in Procs : DOMAIN req'[q] = Fields
BY IdleRegisterOK DEF AllMoved, Moved, RegistersInv, Shapes

LEMMA SteadyRates == ASSUME UNCHANGED rates, NEW s, RateRequest(s) PROVE RateRequest(s)'
BY DEF RateRequest, rates, Defaults, IsRate

LEMMA SteadyTypes == ASSUME UNCHANGED types, NEW s, TypeRequest(s) PROVE TypeRequest(s)'
BY DEF TypeRequest, types, IsType, TypeOf, Unused

LEMMA SteadyCustomer == ASSUME UNCHANGED customer, NEW s, CustomerRequest(s) PROVE CustomerRequest(s)'
BY DEF CustomerRequest

\* What each kind of request must find after a step.
RateHolds(s) == s.pc = "removing" /\ ~s.outdated => s.id \notin Defaults

TypeHolds(s) ==
    /\ s.pc = "untyping" => /\ IsType(s.id) => type[s.id].code = s.body
                            /\ ~s.outdated => Unused(s.body)
    /\ s.pc = "recording" /\ ~s.outdated => TypeOf(s.body) # {}

CustomerHolds(s) == s.pc = "customer" /\ ~s.outdated => Allowed(customer[s.id], s.body)

\* One request whose step only answers or outdates it.
LEMMA Survives ==
    ASSUME NEW r, DOMAIN r = Fields, RegisterRequestOK(r), NEW s,
           s = IdleRegister \/ s = r \/ s = [r EXCEPT !.outdated = TRUE],
           RateHolds(s)', TypeHolds(s)', CustomerHolds(s)'
    PROVE  RegisterRequestOK(s)'
<1>1. CASE s = IdleRegister
      BY <1>1, IdleRegisterOK DEF RegisterRequestOK
<1>2. CASE s # IdleRegister
  <2>1. /\ s.pc = r.pc /\ s.id = r.id /\ s.body = r.body /\ s.seen = r.seen
        BY <1>2 DEF Fields
  <2>2. CASE s.pc = "idle"
        BY <2>2 DEF RegisterRequestOK
  <2>3. CASE RateRequest(r)
        BY <2>1, <2>3 DEF RegisterRequestOK, RateRequest, RateHolds
  <2>4. CASE TypeRequest(r)
        BY <2>1, <2>4 DEF RegisterRequestOK, TypeRequest, TypeHolds
  <2>5. CASE CustomerRequest(r)
        BY <2>1, <2>5 DEF RegisterRequestOK, CustomerRequest, CustomerHolds
  <2> QED BY <2>1, <2>2, <2>3, <2>4, <2>5 DEF RegisterRequestOK
<1> QED BY <1>1, <1>2

\* What a request has found is there as long as its tables stay.
LEMMA Found ==
    ASSUME NEW s, RegisterRequestOK(s)
    PROVE  /\ UNCHANGED rates => RateHolds(s)'
           /\ UNCHANGED types => TypeHolds(s)'
           /\ UNCHANGED customer => CustomerHolds(s)'
<1>1. RateHolds(s) /\ TypeHolds(s) /\ CustomerHolds(s)
      BY DEF RegisterRequestOK, RateRequest, TypeRequest, CustomerRequest, RateHolds, TypeHolds, CustomerHolds
<1>2. UNCHANGED rates => RateHolds(s)'
      BY <1>1 DEF RateHolds, rates, Defaults, IsRate
<1>3. UNCHANGED types => TypeHolds(s)'
      BY <1>1 DEF TypeHolds, types, IsType, TypeOf, Unused
<1>4. UNCHANGED customer => CustomerHolds(s)'
      BY <1>1 DEF CustomerHolds
<1> QED BY <1>2, <1>3, <1>4

\* The same of a request that became outdated.
LEMMA FoundMoved ==
    ASSUME RegistersInv, AllMoved, NEW q \in Procs, NEW s, s = req'[q]
    PROVE  /\ UNCHANGED rates => RateHolds(s)'
           /\ UNCHANGED types => TypeHolds(s)'
           /\ UNCHANGED customer => CustomerHolds(s)'
<1>1. PICK r : r = req[q]
      OBVIOUS
<1>2. RegisterRequestOK(r) /\ DOMAIN r = Fields
      BY <1>1 DEF RegistersInv, Shapes, RegisterRequestsOK
<1>3. CASE s = IdleRegister
      BY <1>3, IdleRegisterOK, Found
<1>4. CASE s = r
      BY <1>4, <1>2, Found
<1>5. CASE s = [r EXCEPT !.outdated = TRUE]
  <2>1. s.pc = r.pc /\ s.id = r.id /\ s.body = r.body /\ s.outdated = TRUE
        BY <1>2, <1>5 DEF Fields
  <2>2. /\ UNCHANGED rates => RateHolds(r)'
        /\ UNCHANGED types => TypeHolds(r)'
        /\ UNCHANGED customer => CustomerHolds(r)'
        BY <1>2, Found
  <2> QED BY <2>1, <2>2 DEF RateHolds, TypeHolds, CustomerHolds
<1> QED BY <1>1, <1>3, <1>4, <1>5 DEF AllMoved, Moved

LEMMA RequestsKept ==
    ASSUME RegistersInv, AllMoved,
           \A q \in Procs : \A s : s = req'[q] =>
              RateHolds(s)' /\ TypeHolds(s)' /\ CustomerHolds(s)'
    PROVE  RegisterRequestsOK'
<1> SUFFICES ASSUME NEW q \in Procs PROVE RegisterRequestOK(req[q])'
    BY DEF RegisterRequestsOK
<1>1. PICK r : r = req[q]
      OBVIOUS
<1>2. PICK s : s = req'[q]
      OBVIOUS
<1>3. RegisterRequestOK(r) /\ DOMAIN r = Fields
      BY <1>1 DEF RegistersInv, Shapes, RegisterRequestsOK
<1>4. RegisterRequestOK(s)'
      BY <1>1, <1>2, <1>3, Survives DEF AllMoved, Moved
<1> QED BY <1>2, <1>4

\* A step that only reads.
LEMMA RegistersQuiet ==
    ASSUME RegistersInv, NEW p \in Procs, NEW r, Goes(p, r), DOMAIN r = Fields, RegisterRequestOK(r),
           UNCHANGED <<rates, types, customer>>
    PROVE  RegistersInv'
<1>1. DOMAIN req' = Procs /\ req'[p] = r /\ \A q \in Procs \ {p} : req'[q] = req[q]
      BY DEF Goes, RegistersInv, Shapes
<1>2. \A s : RegisterRequestOK(s) => RegisterRequestOK(s)'
      BY SteadyRates, SteadyTypes, SteadyCustomer DEF RegisterRequestOK
<1>3. RegisterRequestsOK'
  <2> SUFFICES ASSUME NEW q \in Procs PROVE RegisterRequestOK(req[q])'
      BY DEF RegisterRequestsOK
  <2>1. PICK s : s = req'[q]
        OBVIOUS
  <2>2. RegisterRequestOK(s)
        BY <1>1, <2>1 DEF RegistersInv, RegisterRequestsOK
  <2> QED BY <1>2, <2>1, <2>2
<1>4. Shapes' /\ RatesOK'
      BY <1>1 DEF RegistersInv, Shapes, RatesOK, rates, types, Defaults, IsRate, FreePercent
<1>5. TypesOK' /\ CustomersOK'
      BY DEF RegistersInv, TypesOK, CustomersOK, rates, types, IsType, NamedTypeExists, TypeOf,
             StatusHasRemark
<1> QED BY <1>3, <1>4, <1>5 DEF RegistersInv

----------------------------------------------------------------------------
(* Tax rates *)

\* A step of a rate: its requests and the other tables.
LEMMA RateWritten ==
    ASSUME RegistersInv, AllMoved, UNCHANGED <<types, customer>>, RatesOK',
           DOMAIN rate' = RateIds, missed' \in BOOLEAN, chosen' \in BOOLEAN,
           \A q \in Procs : req[q].pc = "removing" /\ req[q].id \in Defaults' /\ req[q].id \notin Defaults
              => req'[q] = IdleRegister \/ req'[q] = [req[q] EXCEPT !.outdated = TRUE]
    PROVE  RegistersInv'
<1>1. ASSUME NEW q \in Procs, NEW s, s = req'[q] PROVE RateHolds(s)'
  <2>1. PICK r : r = req[q]
        OBVIOUS
  <2>2. RegisterRequestOK(r) /\ DOMAIN r = Fields
        BY <2>1 DEF RegistersInv, Shapes, RegisterRequestsOK
  <2>3. s = IdleRegister \/ s = r \/ s = [r EXCEPT !.outdated = TRUE]
        BY <1>1, <2>1 DEF AllMoved, Moved
  <2>4. r.pc = "removing" /\ ~r.outdated => r.id \notin Defaults
        BY <2>2 DEF RegisterRequestOK, RateRequest, TypeRequest, CustomerRequest
  <2>5. SUFFICES ASSUME s.pc = "removing", ~s.outdated, s.id \in Defaults' PROVE FALSE
        BY DEF RateHolds
  <2>6. s # IdleRegister
        BY <2>5, IdleRegisterOK
  <2>7. s = r
        BY <2>2, <2>3, <2>5, <2>6 DEF Fields
  <2>8. s = [r EXCEPT !.outdated = TRUE]
        BY <1>1, <2>1, <2>4, <2>5, <2>6, <2>7
  <2>9. s.outdated = TRUE
        BY <2>2, <2>8 DEF Fields
  <2> QED BY <2>5, <2>9
<1>2. RegisterRequestsOK'
      BY <1>1, FoundMoved, RequestsKept
<1>3. Shapes'
      BY MovedShapes DEF RegistersInv, Shapes, types, AllMoved
<1>4. TypesOK' /\ CustomersOK'
      BY DEF RegistersInv, TypesOK, CustomersOK, types, IsType, NamedTypeExists, TypeOf, StatusHasRemark
<1> QED BY <1>2, <1>3, <1>4 DEF RegistersInv

LEMMA RateCommitInv == ASSUME RegistersInv, NEW p \in Procs, RateCommit(p) PROVE RegistersInv'
<1>1. PICK s : s = req[p]
      OBVIOUS
<1>2. RateRequest(s) /\ s.pc \in {"create", "update"}
      BY <1>1 DEF RegistersInv, RegisterRequestsOK, RegisterRequestOK, TypeRequest, CustomerRequest, RateCommit, At
<1>3. PICK r : r = s.id
      OBVIOUS
<1>4. PICK b : b = s.body
      OBVIOUS
<1>5. PICK row : row = RateRow(IF s.pc = "create" THEN [percent |-> None, isDefault |-> FALSE]
                               ELSE rate[r], b)
      OBVIOUS
<1>6. PICK P : P = {q \in Procs : At(q, "removing") /\ req[q].id = r /\ b.isDefault = TRUE}
      OBVIOUS
<1>7. /\ IF s.pc = "create" THEN ~IsRate(r) ELSE IsRate(r)
      /\ FreePercent(row.percent, r)
      /\ rate' = [x \in RateIds |-> IF x = r THEN row
                                    ELSE IF x \in s.seen /\ IsRate(x) THEN Demoted(rate[x])
                                    ELSE rate[x]]
      /\ missed' = IF b.isDefault = TRUE THEN Defaults \ (s.seen \cup {r}) # {} ELSE missed
      /\ chosen' = ((b.isDefault = TRUE) \/ (chosen /\ ~(r \in Defaults /\ ~row.isDefault)))
      /\ Answers(p, P)
      /\ UNCHANGED <<types, customer>>
      BY <1>1, <1>3, <1>4, <1>5, <1>6 DEF RateCommit, At
<1>8. r \in RateIds /\ (b.isDefault # TRUE => s.seen = {})
      BY <1>2, <1>3, <1>4 DEF RateRequest
<1>9. /\ \A x \in RateIds : IsRate(x) => rate[x] \in Rates /\ FreePercent(rate[x].percent, x)
      /\ missed \in BOOLEAN /\ chosen \in BOOLEAN
      BY DEF RegistersInv, RatesOK, Shapes
<1>10. /\ row \in Rates /\ row # None
       /\ b.isDefault = TRUE => row.isDefault
       /\ b.isDefault # TRUE /\ row.isDefault => r \in Defaults
  <2>1. CASE s.pc = "create"
    <3>1. b.percent \in Percents /\ b.isDefault \in BOOLEAN
          BY <1>2, <1>4, <2>1 DEF RateRequest
    <3>2. b.percent # None /\ b.isDefault # None
          BY <3>1, NoneAssumption, RegistersAssumption
    <3>3. row = [percent |-> b.percent, isDefault |-> b.isDefault]
          BY <1>5, <2>1, <3>2 DEF RateRow, Given
    <3>4. row \in Rates /\ row.isDefault = b.isDefault
          BY <3>1, <3>3 DEF Rates
    <3>5. row # None
          BY <3>4, NoneAssumption DEF Rates
    <3> QED BY <3>1, <3>4, <3>5
  <2>2. CASE s.pc = "update"
    <3>1. IsRate(r) /\ rate[r] \in Rates
      <4>1. IsRate(r)
            BY <1>7, <2>2
      <4> QED BY <1>8, <1>9, <4>1
    <3>2. b.percent \in {None} \cup Percents /\ b.isDefault \in {None} \cup BOOLEAN
          BY <1>2, <1>4, <2>2 DEF RateRequest
    <3>3. row = [percent |-> Given(b.percent, rate[r].percent),
                 isDefault |-> Given(b.isDefault, rate[r].isDefault)]
          BY <1>5, <2>2 DEF RateRow
    <3>4. rate[r].percent \in Percents /\ rate[r].isDefault \in BOOLEAN
          BY <3>1 DEF Rates
    <3>5. Given(b.percent, rate[r].percent) \in Percents
          BY <3>2, <3>4 DEF Given
    <3>6. /\ Given(b.isDefault, rate[r].isDefault) \in BOOLEAN
          /\ b.isDefault = TRUE => Given(b.isDefault, rate[r].isDefault) = TRUE
          /\ Given(b.isDefault, rate[r].isDefault) = TRUE /\ b.isDefault # TRUE =>
                rate[r].isDefault = TRUE
      <4>1. CASE b.isDefault = None
            BY <3>4, <4>1, NoneAssumption DEF Given
      <4>2. CASE b.isDefault # None
            BY <3>2, <4>2, NoneAssumption DEF Given
      <4> QED BY <4>1, <4>2
    <3>7. row \in Rates /\ row.isDefault = Given(b.isDefault, rate[r].isDefault)
          BY <3>3, <3>5, <3>6 DEF Rates
    <3>8. row # None
          BY <3>7, NoneAssumption DEF Rates
    <3>9. rate[r].isDefault = TRUE => r \in Defaults
          BY <1>8, <3>1 DEF Defaults
    <3> QED BY <3>6, <3>7, <3>8, <3>9
  <2> QED BY <1>2, <2>1, <2>2
<1>11. ASSUME NEW x \in RateIds, x # r
       PROVE  /\ IsRate(x)' = IsRate(x)
              /\ IsRate(x) => /\ rate'[x] \in Rates /\ rate'[x].percent = rate[x].percent
                              /\ rate'[x].isDefault =
                                   (IF x \in s.seen THEN FALSE ELSE rate[x].isDefault)
  <2>1. CASE IsRate(x)
        BY <1>7, <1>9, <1>11, <2>1, NoneAssumption DEF IsRate, Demoted, Rates
  <2>2. CASE ~IsRate(x)
        BY <1>7, <1>11, <2>2 DEF IsRate
  <2> QED BY <2>1, <2>2
<1>12. IsRate(r)' /\ rate'[r] = row
       BY <1>7, <1>8, <1>10 DEF IsRate
<1>13. ASSUME NEW x \in RateIds, IsRate(x)' PROVE rate'[x] \in Rates /\ FreePercent(rate[x].percent, x)'
  <2>1. PICK v : v = rate'[x].percent
        OBVIOUS
  <2>2. rate'[x] \in Rates
        BY <1>10, <1>11, <1>12, <1>13
  <2>3. ASSUME NEW y \in RateIds \ {x}, IsRate(y)' PROVE rate'[y].percent # v
    <3>1. CASE x = r
          BY <1>7, <1>11, <1>12, <2>1, <2>3, <3>1 DEF FreePercent
    <3>2. CASE x # r /\ y = r
          BY <1>7, <1>11, <1>12, <1>13, <2>1, <3>2 DEF FreePercent
    <3>3. CASE x # r /\ y # r
          BY <1>9, <1>11, <1>13, <2>1, <2>3, <3>3 DEF FreePercent
    <3> QED BY <3>1, <3>2, <3>3
  <2> QED BY <2>1, <2>2, <2>3 DEF FreePercent
<1>14. Defaults' \subseteq Defaults \cup {r} /\ (r \in Defaults' <=> row.isDefault)
       BY <1>8, <1>11, <1>12 DEF Defaults
<1>15. \A x \in Defaults : x # r /\ x \notin s.seen => x \in Defaults'
       BY <1>11 DEF Defaults
<1>16. ASSUME ~missed' PROVE (\A x, y \in Defaults' : x = y) /\ (chosen' => Defaults' # {})
  <2>1. CASE b.isDefault = TRUE
    <3>1. Defaults \subseteq s.seen \cup {r}
          BY <1>7, <1>16, <2>1
    <3>2. \A x \in Defaults' : x = r
          BY <1>11, <3>1 DEF Defaults
    <3>3. r \in Defaults'
          BY <1>10, <1>14, <2>1
    <3> QED BY <3>2, <3>3
  <2>2. CASE b.isDefault # TRUE
    <3>1. ~missed /\ Defaults' \subseteq Defaults
          BY <1>7, <1>10, <1>14, <1>16, <2>2
    <3>2. (\A x, y \in Defaults : x = y) /\ (chosen => Defaults # {})
          BY <3>1 DEF RegistersInv, RatesOK
    <3>3. ASSUME chosen' PROVE Defaults' # {}
      <4>1. PICK x \in Defaults : TRUE
            BY <1>7, <2>2, <3>2, <3>3
      <4>2. CASE x = r
            BY <1>7, <1>14, <2>2, <3>3, <4>2
      <4>3. CASE x # r
            BY <1>8, <1>15, <2>2, <4>1, <4>3
      <4> QED BY <4>2, <4>3
    <3> QED BY <3>1, <3>2, <3>3
  <2> QED BY <2>1, <2>2
<1>17. RatesOK'
       BY <1>13, <1>16 DEF RatesOK
<1>18. \A q \in Procs : req[q].pc = "removing" /\ req[q].id \in Defaults' /\ req[q].id \notin Defaults
          => req'[q] = IdleRegister \/ req'[q] = [req[q] EXCEPT !.outdated = TRUE]
  <2>1. ASSUME NEW q \in Procs, req[q].pc = "removing", req[q].id \in Defaults', req[q].id \notin Defaults
        PROVE  q \in P
    <3>1. req[q].id = r /\ r \in Defaults' /\ r \notin Defaults
          BY <1>14, <2>1
    <3>2. b.isDefault = TRUE
          BY <1>10, <1>14, <3>1
    <3> QED BY <1>6, <2>1, <3>1, <3>2 DEF At
  <2> QED BY <1>7, <2>1, AnswersMoves
<1>19. missed' \in BOOLEAN /\ chosen' \in BOOLEAN /\ DOMAIN rate' = RateIds /\ AllMoved
       BY <1>7, <1>9, AnswersMoves
<1> QED BY <1>7, <1>17, <1>18, <1>19, RateWritten

LEMMA RemoveRateInv == ASSUME RegistersInv, NEW p \in Procs, RemoveRateCommit(p) PROVE RegistersInv'
<1>1. PICK s : s = req[p]
      OBVIOUS
<1>2. s.id \in RateIds /\ (~s.outdated => s.id \notin Defaults)
      BY <1>1 DEF RegistersInv, RegisterRequestsOK, RegisterRequestOK, RateRequest, TypeRequest, CustomerRequest,
                  RemoveRateCommit, At
<1>3. /\ rate' = [rate EXCEPT ![s.id] = None]
      /\ chosen' = (chosen /\ ~(s.outdated /\ s.id \in Defaults))
      /\ missed' = missed
      /\ UNCHANGED <<types, customer>>
      BY <1>1 DEF RemoveRateCommit
<1>4. AllMoved
      BY IdleMoves DEF RemoveRateCommit
<1>5. DOMAIN rate = RateIds /\ missed \in BOOLEAN /\ chosen \in BOOLEAN
      BY DEF RegistersInv, Shapes
<1>6. \A x \in RateIds : /\ x = s.id => ~IsRate(x)'
                         /\ x # s.id => rate'[x] = rate[x]
      BY <1>3, <1>5 DEF IsRate
<1>7. Defaults' = Defaults \ {s.id}
      BY <1>6 DEF Defaults, IsRate
<1>8. RatesOK'
  <2>1. \A x \in RateIds : IsRate(x)' => rate'[x] \in Rates /\ FreePercent(rate[x].percent, x)'
        BY <1>6 DEF RegistersInv, RatesOK, FreePercent, IsRate
  <2>2. ~missed' => (\A x, y \in Defaults' : x = y) /\ (chosen' => Defaults' # {})
        BY <1>2, <1>3, <1>7 DEF RegistersInv, RatesOK
  <2> QED BY <2>1, <2>2 DEF RatesOK
<1> QED BY <1>3, <1>4, <1>5, <1>7, <1>8, RateWritten

LEMMA SeedRateInv ==
    ASSUME RegistersInv, NEW r \in RateIds, NEW percent \in DOMAIN SeededRates, SeedRate(r, percent)
    PROVE  RegistersInv'
<1>1. /\ ~IsRate(r) /\ Fresh(r) /\ FreePercent(percent, r)
      /\ rate' = [rate EXCEPT ![r] = [percent |-> percent, isDefault |-> SeededRates[percent]]]
      /\ missed' = (missed \/ (SeededRates[percent] /\ Defaults # {}))
      /\ chosen' = (chosen \/ SeededRates[percent])
      /\ UNCHANGED <<types, customer, req>>
      BY DEF SeedRate
<1>2. DOMAIN rate = RateIds /\ missed \in BOOLEAN /\ chosen \in BOOLEAN
      BY DEF RegistersInv, Shapes
<1>3. PICK row : row = [percent |-> percent, isDefault |-> SeededRates[percent]]
      OBVIOUS
<1>4. row \in Rates /\ row # None /\ row.percent = percent /\ row.isDefault = SeededRates[percent]
      BY <1>3, RegistersAssumption, NoneAssumption DEF Rates
<1>5. rate'[r] = row /\ \A x \in RateIds \ {r} : rate'[x] = rate[x]
      BY <1>1, <1>2, <1>3
<1>6. Defaults' = IF SeededRates[percent] THEN Defaults \cup {r} ELSE Defaults
      BY <1>1, <1>4, <1>5 DEF Defaults, IsRate
<1>7. RatesOK'
  <2>1. \A x \in RateIds : IsRate(x) => rate[x] \in Rates /\ FreePercent(rate[x].percent, x)
        BY DEF RegistersInv, RatesOK
  <2>2. ASSUME NEW x \in RateIds, IsRate(x)' PROVE rate'[x] \in Rates /\ FreePercent(rate[x].percent, x)'
    <3>1. CASE x = r
          BY <1>1, <1>4, <1>5, <3>1 DEF FreePercent, IsRate
    <3>2. CASE x # r
          BY <1>1, <1>4, <1>5, <2>1, <2>2, <3>2 DEF FreePercent, IsRate
    <3> QED BY <3>1, <3>2
  <2>3. ~missed' => (\A x, y \in Defaults' : x = y) /\ (chosen' => Defaults' # {})
        BY <1>1, <1>2, <1>6, RegistersAssumption DEF RegistersInv, RatesOK
  <2> QED BY <2>2, <2>3 DEF RatesOK
<1>8. missed' \in BOOLEAN /\ chosen' \in BOOLEAN /\ DOMAIN rate' = RateIds
      BY <1>1, <1>2, RegistersAssumption
<1>9. \A q \in Procs : ~(req[q].id \in Defaults' /\ req[q].id \notin Defaults)
      BY <1>1, <1>6 DEF Fresh
<1> QED BY <1>1, <1>7, <1>8, <1>9, StillMoves, RateWritten

----------------------------------------------------------------------------
(* Types and records *)

Outdates(q) == req'[q] = IdleRegister \/ req'[q] = [req[q] EXCEPT !.outdated = TRUE]

\* A step of a type or a record: its requests and the other tables.
LEMMA TypeWritten ==
    ASSUME RegistersInv, AllMoved, UNCHANGED <<rates, customer>>, TypesOK',
           DOMAIN type' = TypeIds, DOMAIN record' = Records,
           \A q \in Procs : \A s : s = req[q] /\ s.pc = "untyping" =>
              /\ type'[s.id] # None =>
                    type'[s.id].code = s.body \/ (type[s.id] # None /\ type'[s.id].code = type[s.id].code)
              /\ Unused(s.body)' \/ ~Unused(s.body) \/ Outdates(q),
           \A q \in Procs : \A s : s = req[q] /\ s.pc = "recording" =>
              TypeOf(s.body)' # {} \/ TypeOf(s.body) = {} \/ Outdates(q)
    PROVE  RegistersInv'
<1>1. ASSUME NEW q \in Procs, NEW s, s = req'[q] PROVE TypeHolds(s)'
  <2>1. PICK r : r = req[q]
        OBVIOUS
  <2>2. RegisterRequestOK(r) /\ DOMAIN r = Fields
        BY <2>1 DEF RegistersInv, Shapes, RegisterRequestsOK
  <2>3. s = IdleRegister \/ s = r \/ s = [r EXCEPT !.outdated = TRUE]
        BY <1>1, <2>1 DEF AllMoved, Moved
  <2>4. CASE s = IdleRegister
        BY <2>4, IdleRegisterOK DEF TypeHolds
  <2>5. CASE s # IdleRegister
    <3>1. s.pc = r.pc /\ s.id = r.id /\ s.body = r.body
          BY <2>2, <2>3, <2>5 DEF Fields
    <3>2. ~s.outdated => s = r /\ ~Outdates(q)
          BY <1>1, <2>1, <2>2, <2>3, <2>5 DEF Fields, Outdates
    <3>3. ASSUME s.pc = "untyping"
          PROVE  (IsType(s.id)' => type'[s.id].code = s.body) /\ (~s.outdated => Unused(s.body)')
      <4>1. (IsType(r.id) => type[r.id].code = r.body) /\ (~r.outdated => Unused(r.body))
            BY <2>2, <3>1, <3>3 DEF RegisterRequestOK, TypeRequest, RateRequest, CustomerRequest
      <4>2. /\ type'[r.id] # None =>
                  type'[r.id].code = r.body \/ (type[r.id] # None /\ type'[r.id].code = type[r.id].code)
            /\ Unused(r.body)' \/ ~Unused(r.body) \/ Outdates(q)
            BY <2>1, <3>1, <3>3
      <4> QED BY <3>1, <3>2, <4>1, <4>2 DEF IsType
    <3>4. ASSUME s.pc = "recording", ~s.outdated PROVE TypeOf(s.body)' # {}
      <4>1. TypeOf(r.body) # {}
            BY <2>2, <3>1, <3>2, <3>4 DEF RegisterRequestOK, TypeRequest, RateRequest, CustomerRequest
      <4>2. TypeOf(r.body)' # {}
            BY <2>1, <3>1, <3>2, <3>4, <4>1
      <4> QED BY <3>1, <4>2
    <3> QED BY <3>3, <3>4 DEF TypeHolds
  <2> QED BY <2>4, <2>5
<1>2. RegisterRequestsOK'
      BY <1>1, FoundMoved, RequestsKept
<1>3. Shapes'
      BY MovedShapes DEF RegistersInv, Shapes, rates, AllMoved
<1>4. RatesOK' /\ CustomersOK'
      BY DEF RegistersInv, RatesOK, CustomersOK, rates, Defaults, IsRate, FreePercent, StatusHasRemark
<1> QED BY <1>2, <1>3, <1>4 DEF RegistersInv

LEMMA TypeCommitInv ==
    ASSUME RegistersInv, NEW p \in Procs, NEW t \in TypeIds, NEW isActive \in BOOLEAN,
           TypeCommit(p, t, isActive)
    PROVE  RegistersInv'
<1>1. PICK code : code = req[p].body
      OBVIOUS
<1>2. code \in Codes
      BY <1>1 DEF RegistersInv, RegisterRequestsOK, RegisterRequestOK, RateRequest, TypeRequest, CustomerRequest,
                  TypeCommit, At
<1>3. /\ ~IsType(t) /\ Fresh(t) /\ TypeOf(code) = {}
      /\ type' = [type EXCEPT ![t] = [code |-> code, isActive |-> isActive]]
      /\ UNCHANGED <<rates, record, slipped, customer>>
      BY <1>1 DEF TypeCommit
<1>4. AllMoved
      BY IdleMoves DEF TypeCommit
<1>5. DOMAIN type = TypeIds /\ DOMAIN record = Records
      BY DEF RegistersInv, Shapes
<1>6. PICK row : row = [code |-> code, isActive |-> isActive]
      OBVIOUS
<1>7. row \in TypeRows /\ row.code = code
      BY <1>2, <1>6 DEF TypeRows
<1>8. row # None
      BY <1>7, NoneAssumption DEF TypeRows, Codes
<1>9. type'[t] = row /\ \A x : x # t => type'[x] = type[x]
      BY <1>3, <1>5, <1>6
<1>10. \A c : TypeOf(c) \subseteq TypeOf(c)'
       BY <1>3, <1>9 DEF TypeOf, IsType
<1>11. TypesOK'
  <2>1. \A x \in TypeIds : IsType(x)' => type'[x] \in TypeRows
        BY <1>7, <1>9 DEF RegistersInv, TypesOK, IsType
  <2>2. ASSUME NEW x \in TypeIds, NEW y \in TypeIds, IsType(x)', IsType(y)',
               type'[x].code = type'[y].code
        PROVE  x = y
        BY <1>3, <1>7, <1>9, <2>2 DEF RegistersInv, TypesOK, IsType, TypeOf
  <2>3. NamedTypeExists'
        BY <1>3, <1>10 DEF RegistersInv, TypesOK, NamedTypeExists
  <2>4. \A i \in Records : record'[i] \in {None} \cup Codes
        BY <1>3 DEF RegistersInv, TypesOK
  <2> QED BY <2>1, <2>2, <2>3, <2>4 DEF TypesOK
<1>12. \A q \in Procs : \A s : s = req[q] /\ s.pc = "untyping" =>
          /\ type'[s.id] # None =>
                type'[s.id].code = s.body \/ (type[s.id] # None /\ type'[s.id].code = type[s.id].code)
          /\ Unused(s.body)' \/ ~Unused(s.body) \/ Outdates(q)
       BY <1>3, <1>9 DEF Fresh, Unused
<1>13. \A q \in Procs : \A s : s = req[q] /\ s.pc = "recording" =>
          TypeOf(s.body)' # {} \/ TypeOf(s.body) = {} \/ Outdates(q)
       BY <1>10
<1>14. DOMAIN type' = TypeIds /\ DOMAIN record' = Records
       BY <1>3, <1>5
<1> QED BY <1>3, <1>4, <1>11, <1>12, <1>13, <1>14, TypeWritten

LEMMA UpdateTypeInv ==
    ASSUME RegistersInv, NEW t \in TypeIds, NEW isActive \in BOOLEAN, UpdateType(t, isActive)
    PROVE  RegistersInv'
<1>1. /\ IsType(t) /\ type' = [type EXCEPT ![t].isActive = isActive]
      /\ UNCHANGED <<rates, record, slipped, customer, req>>
      BY DEF UpdateType
<1>2. DOMAIN type = TypeIds /\ DOMAIN record = Records
      BY DEF RegistersInv, Shapes
<1>3. type[t] \in TypeRows
      BY <1>1 DEF RegistersInv, TypesOK
<1>4. PICK row : row = [type[t] EXCEPT !.isActive = isActive]
      OBVIOUS
<1>5. row \in TypeRows /\ row.code = type[t].code
      BY <1>3, <1>4 DEF TypeRows
<1>6. row # None
      BY <1>5, NoneAssumption DEF TypeRows, Codes
<1>7. type'[t] = row /\ \A x : x # t => type'[x] = type[x]
      BY <1>1, <1>2, <1>4
<1>8. \A x : IsType(x)' = IsType(x) /\ type'[x].code = type[x].code
      BY <1>1, <1>5, <1>6, <1>7 DEF IsType
<1>9. \A c : TypeOf(c)' = TypeOf(c)
      BY <1>8 DEF TypeOf
<1>10. TypesOK'
  <2>1. \A x \in TypeIds : IsType(x)' => type'[x] \in TypeRows
        BY <1>5, <1>7 DEF RegistersInv, TypesOK, IsType
  <2>2. \A x, y \in TypeIds : IsType(x)' /\ IsType(y)' /\ type'[x].code = type'[y].code => x = y
        BY <1>8 DEF RegistersInv, TypesOK
  <2>3. NamedTypeExists'
        BY <1>1, <1>9 DEF RegistersInv, TypesOK, NamedTypeExists
  <2>4. \A i \in Records : record'[i] \in {None} \cup Codes
        BY <1>1 DEF RegistersInv, TypesOK
  <2> QED BY <2>1, <2>2, <2>3, <2>4 DEF TypesOK
<1>11. DOMAIN type' = TypeIds /\ DOMAIN record' = Records
       BY <1>1, <1>2
<1>12. \A q \in Procs : \A s : s = req[q] /\ s.pc = "untyping" =>
          /\ type'[s.id] # None =>
                type'[s.id].code = s.body \/ (type[s.id] # None /\ type'[s.id].code = type[s.id].code)
          /\ Unused(s.body)' \/ ~Unused(s.body) \/ Outdates(q)
       BY <1>1, <1>8 DEF Unused, IsType
<1>13. \A q \in Procs : \A s : s = req[q] /\ s.pc = "recording" =>
          TypeOf(s.body)' # {} \/ TypeOf(s.body) = {} \/ Outdates(q)
       BY <1>9
<1> QED BY <1>1, <1>10, <1>11, <1>12, <1>13, StillMoves, TypeWritten

LEMMA RemoveTypeInv == ASSUME RegistersInv, NEW p \in Procs, RemoveTypeCommit(p) PROVE RegistersInv'
<1>1. PICK s : s = req[p]
      OBVIOUS
<1>2. /\ s.id \in TypeIds /\ (IsType(s.id) => type[s.id].code = s.body)
      /\ ~s.outdated => Unused(s.body)
      BY <1>1 DEF RegistersInv, RegisterRequestsOK, RegisterRequestOK, RateRequest, TypeRequest, CustomerRequest,
                  RemoveTypeCommit, At
<1>3. PICK P : P = {q \in Procs : At(q, "recording") /\ req[q].body = s.body}
      OBVIOUS
<1>4. /\ IsType(s.id) /\ type' = [type EXCEPT ![s.id] = None]
      /\ slipped' = IF s.outdated THEN slipped \cup {s.body} ELSE slipped
      /\ Answers(p, P)
      /\ UNCHANGED <<rates, record, customer>>
      BY <1>1, <1>3 DEF RemoveTypeCommit
<1>5. AllMoved /\ \A q \in P : Outdates(q)
      BY <1>3, <1>4, AnswersMoves DEF Outdates
<1>6. DOMAIN type = TypeIds /\ DOMAIN record = Records
      BY DEF RegistersInv, Shapes
<1>7. type'[s.id] = None /\ \A x : x # s.id => type'[x] = type[x]
      BY <1>2, <1>4, <1>6
<1>8. \A c : c # s.body => TypeOf(c)' = TypeOf(c)
      BY <1>2, <1>4, <1>7 DEF TypeOf, IsType
<1>9. TypesOK'
  <2>1. \A x \in TypeIds : IsType(x)' => type'[x] \in TypeRows
        BY <1>7 DEF RegistersInv, TypesOK, IsType
  <2>2. \A x, y \in TypeIds : IsType(x)' /\ IsType(y)' /\ type'[x].code = type'[y].code => x = y
        BY <1>7 DEF RegistersInv, TypesOK, IsType
  <2>3. NamedTypeExists'
        BY <1>2, <1>4, <1>8 DEF RegistersInv, TypesOK, NamedTypeExists, Unused
  <2>4. \A i \in Records : record'[i] \in {None} \cup Codes
        BY <1>4 DEF RegistersInv, TypesOK
  <2> QED BY <2>1, <2>2, <2>3, <2>4 DEF TypesOK
<1>10. DOMAIN type' = TypeIds /\ DOMAIN record' = Records
       BY <1>4, <1>6
<1>11. \A q \in Procs : \A r : r = req[q] /\ r.pc = "untyping" =>
          /\ type'[r.id] # None =>
                type'[r.id].code = r.body \/ (type[r.id] # None /\ type'[r.id].code = type[r.id].code)
          /\ Unused(r.body)' \/ ~Unused(r.body) \/ Outdates(q)
       BY <1>4, <1>7 DEF Unused
<1>12. \A q \in Procs : \A r : r = req[q] /\ r.pc = "recording" =>
          TypeOf(r.body)' # {} \/ TypeOf(r.body) = {} \/ Outdates(q)
       BY <1>3, <1>5, <1>8 DEF At
<1> QED BY <1>4, <1>5, <1>9, <1>10, <1>11, <1>12, TypeWritten

\* A record is written: it names the code, and those that are removing the
\* type are outdated.
LEMMA RecordInv ==
    ASSUME RegistersInv, NEW p \in Procs, NEW i \in Records, NEW code \in Codes,
           record' = [record EXCEPT ![i] = code],
           slipped \subseteq slipped', TypeOf(code) = {} => code \in slipped',
           Answers(p, Deciding(code)), UNCHANGED <<rates, type, customer>>
    PROVE  RegistersInv'
<1>1. AllMoved /\ \A q \in Procs : q \in Deciding(code) => Outdates(q)
      BY AnswersMoves DEF Outdates
<1>2. DOMAIN type = TypeIds /\ DOMAIN record = Records
      BY DEF RegistersInv, Shapes
<1>3. record'[i] = code /\ \A x \in Records \ {i} : record'[x] = record[x]
      BY <1>2
<1>4. \A c : TypeOf(c)' = TypeOf(c)
      BY DEF TypeOf, IsType
<1>5. TypesOK'
  <2>1. /\ \A x \in TypeIds : IsType(x)' => type'[x] \in TypeRows
        /\ \A x, y \in TypeIds : IsType(x)' /\ IsType(y)' /\ type'[x].code = type'[y].code => x = y
        BY DEF RegistersInv, TypesOK, IsType
  <2>2. NamedTypeExists'
        BY <1>3, <1>4 DEF RegistersInv, TypesOK, NamedTypeExists
  <2>3. \A x \in Records : record'[x] \in {None} \cup Codes
        BY <1>3 DEF RegistersInv, TypesOK
  <2> QED BY <2>1, <2>2, <2>3 DEF TypesOK
<1>6. \A q \in Procs : \A s : s = req[q] /\ s.pc = "untyping" =>
          /\ type'[s.id] # None =>
                type'[s.id].code = s.body \/ (type[s.id] # None /\ type'[s.id].code = type[s.id].code)
          /\ Unused(s.body)' \/ ~Unused(s.body) \/ Outdates(q)
  <2> SUFFICES ASSUME NEW q \in Procs, NEW s, s = req[q], s.pc = "untyping"
               PROVE  Unused(s.body)' \/ ~Unused(s.body) \/ Outdates(q)
      OBVIOUS
  <2>1. CASE s.body = code
        BY <1>1, <2>1 DEF Deciding, At
  <2>2. CASE s.body # code
        BY <1>3, <2>2 DEF Unused
  <2> QED BY <2>1, <2>2
<1>7. \A q \in Procs : \A s : s = req[q] /\ s.pc = "recording" =>
          TypeOf(s.body)' # {} \/ TypeOf(s.body) = {} \/ Outdates(q)
      BY <1>4
<1> QED BY <1>1, <1>2, <1>5, <1>6, <1>7, TypeWritten

LEMMA RecordCommitInv == ASSUME RegistersInv, NEW p \in Procs, RecordCommit(p) PROVE RegistersInv'
<1>1. PICK s : s = req[p]
      OBVIOUS
<1>2. s.id \in Records /\ s.body \in Codes /\ (~s.outdated => TypeOf(s.body) # {})
      BY <1>1 DEF RegistersInv, RegisterRequestsOK, RegisterRequestOK, RateRequest, TypeRequest, CustomerRequest,
                  RecordCommit, At
<1>3. /\ record' = [record EXCEPT ![s.id] = s.body]
      /\ slipped' = IF s.outdated THEN slipped \cup {s.body} ELSE slipped
      /\ Answers(p, Deciding(s.body)) /\ UNCHANGED <<rates, type, customer>>
      BY <1>1 DEF RecordCommit
<1>4. slipped \subseteq slipped' /\ (TypeOf(s.body) = {} => s.body \in slipped')
      BY <1>2, <1>3
<1> QED BY <1>2, <1>3, <1>4, RecordInv

LEMMA RecordOtherInv ==
    ASSUME RegistersInv, NEW p \in Procs, NEW i \in Records, RecordOther(p, i) PROVE RegistersInv'
<1>1. <<Other, 1>> \in Codes
      BY RegistersAssumption DEF Codes
<1>2. /\ record' = [record EXCEPT ![i] = <<Other, 1>>]
      /\ slipped' = IF TypeOf(<<Other, 1>>) = {} THEN slipped \cup {<<Other, 1>>} ELSE slipped
      /\ Answers(p, Deciding(<<Other, 1>>)) /\ UNCHANGED <<rates, type, customer>>
      BY DEF RecordOther
<1>3. slipped \subseteq slipped' /\ (TypeOf(<<Other, 1>>) = {} => <<Other, 1>> \in slipped')
      BY <1>2
<1> QED BY <1>1, <1>2, <1>3, RecordInv

LEMMA RemoveRecordInv == ASSUME RegistersInv, NEW i \in Records, RemoveRecord(i) PROVE RegistersInv'
<1>1. record' = [record EXCEPT ![i] = None] /\ UNCHANGED <<rates, type, slipped, customer, req>>
      BY DEF RemoveRecord
<1>2. DOMAIN type = TypeIds /\ DOMAIN record = Records
      BY DEF RegistersInv, Shapes
<1>3. record'[i] = None /\ \A x \in Records \ {i} : record'[x] = record[x]
      BY <1>1, <1>2
<1>4. \A c : TypeOf(c)' = TypeOf(c)
      BY <1>1 DEF TypeOf, IsType
<1>5. TypesOK'
      BY <1>1, <1>3, <1>4 DEF RegistersInv, TypesOK, NamedTypeExists, IsType
<1>6. \A q \in Procs : \A s : s = req[q] /\ s.pc = "untyping" => Unused(s.body)' \/ ~Unused(s.body)
  <2> SUFFICES ASSUME NEW q \in Procs, NEW s, s = req[q], s.pc = "untyping", Unused(s.body)
               PROVE  Unused(s.body)'
      OBVIOUS
  <2>1. s.body \in Codes
        BY DEF RegistersInv, RegisterRequestsOK, RegisterRequestOK, RateRequest, TypeRequest, CustomerRequest
  <2>2. s.body # None
        BY <2>1, NoneAssumption DEF Codes
  <2> QED BY <1>3, <2>2 DEF Unused
<1>7. \A q \in Procs : \A s : s = req[q] /\ s.pc = "untyping" =>
          /\ type'[s.id] # None =>
                type'[s.id].code = s.body \/ (type[s.id] # None /\ type'[s.id].code = type[s.id].code)
          /\ Unused(s.body)' \/ ~Unused(s.body) \/ Outdates(q)
      BY <1>1, <1>6
<1>8. \A q \in Procs : \A s : s = req[q] /\ s.pc = "recording" =>
          TypeOf(s.body)' # {} \/ TypeOf(s.body) = {} \/ Outdates(q)
      BY <1>4
<1>9. DOMAIN type' = TypeIds /\ DOMAIN record' = Records
      BY <1>1, <1>2
<1> QED BY <1>1, <1>5, <1>7, <1>8, <1>9, StillMoves, TypeWritten

----------------------------------------------------------------------------
(* Customers *)

LEMMA UpdateCommitInv == ASSUME RegistersInv, NEW p \in Procs, UpdateCommit(p) PROVE RegistersInv'
<1>1. PICK s : s = req[p]
      OBVIOUS
<1>2. PICK c : c = s.id
      OBVIOUS
<1>3. /\ c \in Customers /\ s.body.isActive \in {None} \cup BOOLEAN
      /\ ~s.outdated => Allowed(customer[c], s.body)
      BY <1>1, <1>2 DEF RegistersInv, RegisterRequestsOK, RegisterRequestOK, RateRequest, TypeRequest, CustomerRequest,
                  UpdateCommit, At
<1>4. PICK row : row = Updated(customer[c], s.body)
      OBVIOUS
<1>5. PICK explained : explained = IF row.isActive # customer[c].isActive
                                   THEN s.body.remark = "text" \/ s.outdated
                                   ELSE customer[c].explained
      OBVIOUS
<1>6. PICK P : P = {q \in Procs : At(q, "customer") /\ req[q].id = c
                                  /\ row.isActive # customer[c].isActive}
      OBVIOUS
<1>7. /\ customer' = [customer EXCEPT ![c] = [isActive |-> row.isActive, remark |-> row.remark,
                                              explained |-> explained]]
      /\ Answers(p, P)
      /\ UNCHANGED <<rates, types>>
      BY <1>1, <1>2, <1>4, <1>5, <1>6 DEF UpdateCommit
<1>8. AllMoved /\ \A q \in P : Outdates(q)
      BY <1>6, <1>7, AnswersMoves DEF Outdates
<1>9. DOMAIN customer = Customers
      BY DEF RegistersInv, Shapes
<1>10. /\ customer'[c].isActive = row.isActive /\ customer'[c].explained = explained
       /\ \A d \in Customers \ {c} : customer'[d] = customer[d]
       BY <1>3, <1>7, <1>9
<1>11. row.isActive = Given(s.body.isActive, customer[c].isActive)
       BY <1>4 DEF Updated
<1>12. row.isActive \in BOOLEAN
       BY <1>3, <1>11 DEF RegistersInv, CustomersOK, Given
<1>13. explained
  <2>1. CASE row.isActive # customer[c].isActive
    <3>1. s.body.isActive # None /\ s.body.isActive # customer[c].isActive
          BY <1>11, <2>1 DEF Given
    <3>2. s.body.remark = "text" \/ s.outdated
          BY <1>3, <3>1 DEF Allowed
    <3> QED BY <1>5, <2>1, <3>2
  <2>2. CASE row.isActive = customer[c].isActive
        BY <1>3, <1>5, <2>2 DEF RegistersInv, CustomersOK, StatusHasRemark
  <2> QED BY <2>1, <2>2
<1>14. CustomersOK'
       BY <1>10, <1>12, <1>13 DEF RegistersInv, CustomersOK, StatusHasRemark
<1>15. ASSUME NEW q \in Procs, NEW x, x = req'[q] PROVE CustomerHolds(x)'
  <2>1. PICK r : r = req[q]
        OBVIOUS
  <2>2. RegisterRequestOK(r) /\ DOMAIN r = Fields
        BY <2>1 DEF RegistersInv, Shapes, RegisterRequestsOK
  <2>3. x = IdleRegister \/ x = r \/ x = [r EXCEPT !.outdated = TRUE]
        BY <1>8, <1>15, <2>1 DEF AllMoved, Moved
  <2>4. SUFFICES ASSUME x.pc = "customer", ~x.outdated PROVE Allowed(customer'[x.id], x.body)
        BY DEF CustomerHolds
  <2>5. x # IdleRegister
        BY <2>4, IdleRegisterOK
  <2>6. x = r /\ x # [r EXCEPT !.outdated = TRUE]
        BY <2>2, <2>3, <2>4, <2>5 DEF Fields
  <2>7. q \notin P
        BY <1>8, <1>15, <2>1, <2>5, <2>6 DEF Outdates
  <2>8. r.id \in Customers /\ Allowed(customer[r.id], r.body)
        BY <2>2, <2>4, <2>6 DEF RegisterRequestOK, RateRequest, TypeRequest, CustomerRequest
  <2>9. customer'[r.id].isActive = customer[r.id].isActive
    <3>1. CASE r.id = c
          BY <1>6, <1>10, <2>1, <2>4, <2>6, <2>7, <3>1 DEF At
    <3>2. CASE r.id # c
          BY <1>10, <2>8, <3>2
    <3> QED BY <3>1, <3>2
  <2> QED BY <2>6, <2>8, <2>9 DEF Allowed
<1>16. RegisterRequestsOK'
       BY <1>7, <1>8, <1>15, FoundMoved, RequestsKept
<1>17. Shapes'
       BY <1>7, <1>8, <1>9, MovedShapes DEF RegistersInv, Shapes, types, rates, AllMoved
<1>18. RatesOK' /\ TypesOK'
       BY <1>7 DEF RegistersInv, RatesOK, rates, Defaults, IsRate, FreePercent, TypesOK, types, IsType,
                   NamedTypeExists, TypeOf
<1> QED BY <1>14, <1>16, <1>17, <1>18 DEF RegistersInv

----------------------------------------------------------------------------
(* Requests that read *)

LEMMA RateReadInv ==
    ASSUME RegistersInv, NEW p \in Procs, NEW kind \in {"create", "update"}, NEW r \in RateIds,
           NEW percent, NEW flag,
           percent \in Percents \/ (kind = "update" /\ percent = None),
           flag \in BOOLEAN \/ (kind = "update" /\ flag = None),
           RateRead(p, kind, r, [percent |-> percent, isDefault |-> flag])
    PROVE  RegistersInv'
<1>1. PICK body : body = [percent |-> percent, isDefault |-> flag]
      OBVIOUS
<1>2. PICK seen : seen = IF body.isDefault = TRUE THEN {s \in RateIds : IsRate(s)} \ {r} ELSE {}
      OBVIOUS
<1>3. PICK s : s = [IdleRegister EXCEPT !.pc = kind, !.id = r, !.body = body, !.seen = seen]
      OBVIOUS
<1>4. Goes(p, s) /\ UNCHANGED <<rates, types, customer>>
      BY <1>1, <1>2, <1>3 DEF RateRead
<1>5. /\ DOMAIN s = Fields
      /\ s.pc = kind /\ s.id = r /\ s.body = body /\ s.seen = seen
      BY <1>3 DEF IdleRegister, Fields
<1>6. body.percent = percent /\ body.isDefault = flag
      BY <1>1
<1>7. RegisterRequestOK(s)
      BY <1>2, <1>5, <1>6 DEF RegisterRequestOK, RateRequest
<1> QED BY <1>4, <1>5, <1>7, RegistersQuiet

LEMMA RemoveRateReadInv ==
    ASSUME RegistersInv, NEW p \in Procs, NEW r \in RateIds, RemoveRateRead(p, r) PROVE RegistersInv'
<1>1. PICK s : s = [IdleRegister EXCEPT !.pc = "removing", !.id = r]
      OBVIOUS
<1>2. Goes(p, s) /\ UNCHANGED <<rates, types, customer>> /\ ~rate[r].isDefault
      BY <1>1 DEF RemoveRateRead, Removable
<1>3. DOMAIN s = Fields /\ s.pc = "removing" /\ s.id = r
      BY <1>1 DEF IdleRegister, Fields
<1>4. RegisterRequestOK(s)
      BY <1>2, <1>3 DEF RegisterRequestOK, RateRequest, Defaults
<1> QED BY <1>2, <1>3, <1>4, RegistersQuiet

LEMMA TypeReadInv == ASSUME RegistersInv, NEW p \in Procs, NEW base \in Bases, TypeRead(p, base) PROVE RegistersInv'
<1>1. PICK n \in 1..Copies : Goes(p, [IdleRegister EXCEPT !.pc = "typing", !.body = <<base, n>>])
      BY DEF TypeRead
<1>2. PICK s : s = [IdleRegister EXCEPT !.pc = "typing", !.body = <<base, n>>]
      OBVIOUS
<1>3. DOMAIN s = Fields /\ s.pc = "typing" /\ s.body = <<base, n>>
      BY <1>2 DEF IdleRegister, Fields
<1>4. RegisterRequestOK(s)
      BY <1>3 DEF RegisterRequestOK, TypeRequest, Codes
<1> QED BY <1>1, <1>2, <1>3, <1>4, RegistersQuiet DEF TypeRead

LEMMA RemoveTypeReadInv ==
    ASSUME RegistersInv, NEW p \in Procs, NEW t \in TypeIds, RemoveTypeRead(p, t) PROVE RegistersInv'
<1>1. PICK code : code = type[t].code
      OBVIOUS
<1>2. PICK s : s = [IdleRegister EXCEPT !.pc = "untyping", !.id = t, !.body = code]
      OBVIOUS
<1>3. Goes(p, s) /\ UNCHANGED <<rates, types, customer>> /\ Unused(code) /\ IsType(t)
      BY <1>1, <1>2 DEF RemoveTypeRead
<1>4. DOMAIN s = Fields /\ s.pc = "untyping" /\ s.id = t /\ s.body = code
      BY <1>2 DEF IdleRegister, Fields
<1>5. code \in Codes
      BY <1>1, <1>3 DEF RegistersInv, TypesOK, TypeRows
<1>6. RegisterRequestOK(s)
      BY <1>1, <1>3, <1>4, <1>5 DEF RegisterRequestOK, TypeRequest
<1> QED BY <1>3, <1>4, <1>6, RegistersQuiet

LEMMA RecordReadInv ==
    ASSUME RegistersInv, NEW p \in Procs, NEW i \in Records, NEW t \in TypeIds, IsType(t),
           RecordRead(p, i, type[t].code)
    PROVE  RegistersInv'
<1>1. PICK code : code = type[t].code
      OBVIOUS
<1>2. PICK s : s = [IdleRegister EXCEPT !.pc = "recording", !.id = i, !.body = code]
      OBVIOUS
<1>3. Goes(p, s) /\ UNCHANGED <<rates, types, customer>> /\ TypeOf(code) # {}
      BY <1>1, <1>2 DEF RecordRead, ValidRate
<1>4. DOMAIN s = Fields /\ s.pc = "recording" /\ s.id = i /\ s.body = code
      BY <1>2 DEF IdleRegister, Fields
<1>5. code \in Codes
      BY <1>1 DEF RegistersInv, TypesOK, TypeRows
<1>6. RegisterRequestOK(s)
      BY <1>3, <1>4, <1>5 DEF RegisterRequestOK, TypeRequest
<1> QED BY <1>3, <1>4, <1>6, RegistersQuiet

LEMMA UpdateReadInv ==
    ASSUME RegistersInv, NEW p \in Procs, NEW c \in Customers, NEW isActive \in {None} \cup BOOLEAN,
           NEW remark, UpdateRead(p, c, [isActive |-> isActive, remark |-> remark])
    PROVE  RegistersInv'
<1>1. PICK body : body = [isActive |-> isActive, remark |-> remark]
      OBVIOUS
<1>2. PICK s : s = [IdleRegister EXCEPT !.pc = "customer", !.id = c, !.body = body]
      OBVIOUS
<1>3. Goes(p, s) /\ UNCHANGED <<rates, types, customer>> /\ Allowed(customer[c], body)
      BY <1>1, <1>2 DEF UpdateRead
<1>4. DOMAIN s = Fields /\ s.pc = "customer" /\ s.id = c /\ s.body = body
      BY <1>2 DEF IdleRegister, Fields
<1>5. body.isActive = isActive
      BY <1>1
<1>6. RegisterRequestOK(s)
      BY <1>3, <1>4, <1>5 DEF RegisterRequestOK, CustomerRequest
<1> QED BY <1>3, <1>4, <1>6, RegistersQuiet

----------------------------------------------------------------------------

LEMMA RegistersNextInv == ASSUME RegistersInv, [RegistersNext]_registersVars PROVE RegistersInv'
<1>1. ASSUME NEW p \in Procs, RateStep(p) PROVE RegistersInv'
  <2>1. ASSUME NEW r \in RateIds, NEW percent \in Percents, NEW flag \in BOOLEAN,
               RateRead(p, "create", r, [percent |-> percent, isDefault |-> flag])
        PROVE  RegistersInv'
        BY <2>1, RateReadInv
  <2>2. ASSUME NEW r \in RateIds, NEW percent \in {None} \cup Percents,
               NEW flag \in {None} \cup BOOLEAN,
               RateRead(p, "update", r, [percent |-> percent, isDefault |-> flag])
        PROVE  RegistersInv'
        BY <2>2, RateReadInv
  <2> QED BY <1>1, <2>1, <2>2, RateCommitInv, RemoveRateReadInv, RemoveRateInv DEF RateStep
<1>2. ASSUME NEW p \in Procs, TypeStep(p) PROVE RegistersInv'
      BY <1>2, TypeReadInv, TypeCommitInv, RemoveTypeReadInv, RemoveTypeInv, RecordReadInv,
         RecordCommitInv, RecordOtherInv DEF TypeStep
<1>3. ASSUME NEW p \in Procs, CustomerStep(p) PROVE RegistersInv'
      BY <1>3, UpdateReadInv, UpdateCommitInv DEF CustomerStep
<1>4. ASSUME NEW p \in Procs, AbortRegister(p) PROVE RegistersInv'
      BY <1>4, IdleRegisterOK, RegistersQuiet DEF AbortRegister
<1>5. CASE UNCHANGED registersVars
  <2>1. AllMoved /\ UNCHANGED <<rates, types, customer>>
        BY <1>5, StillMoves DEF registersVars, rates, types
  <2>2. RegisterRequestsOK'
        BY <2>1, FoundMoved, RequestsKept
  <2>3. Shapes' /\ RatesOK' /\ TypesOK' /\ CustomersOK'
        BY <1>5 DEF registersVars, RegistersInv, Shapes, RatesOK, TypesOK, CustomersOK, Defaults, IsRate, FreePercent,
                    IsType, NamedTypeExists, TypeOf, StatusHasRemark
  <2> QED BY <2>2, <2>3 DEF RegistersInv
<1> QED BY <1>1, <1>2, <1>3, <1>4, <1>5, SeedRateInv, UpdateTypeInv, RemoveRecordInv DEF RegistersNext

LEMMA RegistersAlwaysInv == RegistersSpec => []RegistersInv
BY RegistersInitInv, RegistersNextInv, PTL DEF RegistersSpec

\* Rows keep their types, and no percent and no code is used twice: what the
\* unique columns of the tables promise.
THEOREM RegistersTypeCorrect == RegistersSpec => []RegistersTypeOK
<1>1. RegistersInv => RegistersTypeOK
  <2> SUFFICES ASSUME RegistersInv PROVE RegistersTypeOK
      OBVIOUS
  <2>1. \A r \in RateIds : IsRate(r) =>
           /\ rate[r].percent \in Percents /\ rate[r].isDefault \in BOOLEAN
           /\ FreePercent(rate[r].percent, r)
        BY DEF RegistersInv, RatesOK, Rates
  <2>2. \A t \in TypeIds : IsType(t) => TypeOf(type[t].code) = {t}
        BY DEF RegistersInv, TypesOK, TypeOf
  <2> QED BY <2>1, <2>2 DEF RegistersInv, TypesOK, CustomersOK, Codes, RegistersTypeOK
<1> QED BY <1>1, RegistersAlwaysInv, PTL

\* createTaxRate, updateTaxRate, setDefaultTaxRate and removeTaxRate keep one
\* default rate and no more, except where a rate was inserted unseen, a PATCH
\* cleared the flag, or the rate became the default under its removal.
THEOREM OneDefault == RegistersSpec => []DefaultIsSingle
<1>1. RegistersInv => DefaultIsSingle
  <2> SUFFICES ASSUME RegistersInv, ~missed
               PROVE  Cardinality(Defaults) <= 1 /\ (chosen => Defaults # {})
      BY DEF DefaultIsSingle
  <2>1. (\A x, y \in Defaults : x = y) /\ (chosen => Defaults # {})
        BY DEF RegistersInv, RatesOK
  <2>2. CASE Defaults = {}
        BY <2>1, <2>2, FS_EmptySet
  <2>3. CASE Defaults # {}
    <3>1. PICK x : x \in Defaults
          BY <2>3
    <3>2. Defaults = {x}
          BY <2>1, <3>1
    <3>3. Cardinality(Defaults) = 1
          BY <3>2, FS_Singleton
    <3> QED BY <2>1, <3>3
  <2> QED BY <2>2, <2>3
<1> QED BY <1>1, RegistersAlwaysInv, PTL

\* assertServiceType and remove of service-types.service.ts: a record names the
\* code of a type, except where a removal and a record did not see each other
\* or a settled invoice wrote OTHER.
THEOREM NamedTypesExist == RegistersSpec => []NamedTypeExists
BY RegistersAlwaysInv, PTL DEF RegistersInv, TypesOK

\* The check in update of customers.service.ts: no status without its remark,
\* except where the status changed between the check and the write.
THEOREM StatusesHaveRemarks == RegistersSpec => []StatusHasRemark
BY RegistersAlwaysInv, PTL DEF RegistersInv, CustomersOK

=============================================================================
