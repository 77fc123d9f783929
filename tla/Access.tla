------------------------------- MODULE Access -------------------------------
(***************************************************************************)
(* Who may do what: permissions/permissions.service.ts and its guard,      *)
(* auth/auth.service.ts and users/users.service.ts.                        *)
(*                                                                         *)
(* Grants are rows of the RolePermission table.  The one server process    *)
(* keeps a copy in memory, filled by the first request that misses it and  *)
(* dropped by whoever changes the table through the API.  The role of a    *)
(* request is the one in its token, not the one in the user's row.         *)
(***************************************************************************)
EXTENDS Routes

CONSTANTS
    UserRole,   \* the roles in use, SUPER_ADMIN among them
    Users,      \* primary keys of users, never used twice
    Emails,     \* e-mail addresses
    TestUsers,  \* the addresses that seed-test-users writes, with their roles
    Calls,      \* Calls[p]: the routes that client p calls
    Bodies,     \* the bodies of PUT /permissions/roles/:role: [role, permissions]
    Gone        \* a row that was deleted

VARIABLES
    grants,     \* the RolePermission table
    cache,      \* the process's copy of it, or None
    user,       \* the User table
    token,      \* the tokens that have not expired
    stale       \* history: a load or the cache was overtaken by a change of grants

vars == <<grants, cache, user, token, req, stale>>

Grant       == [role : UserRole, permission : ALL_PERMISSIONS]
GrantsTo(role, permissions) == [role : {role}, permission : permissions]
Seeded      == UNION {GrantsTo(role, DEFAULT_ROLE_PERMISSIONS[role]) :
                          role \in UserRole \ {"SUPER_ADMIN"}}

UserRow     == [email : Emails, role : UserRole, isActive : BOOLEAN]
Token       == [user : Users, role : UserRole]

ASSUME AccessAssumption ==
    /\ "SUPER_ADMIN" \in UserRole
    /\ UserRole \ {"SUPER_ADMIN"} \subseteq DOMAIN DEFAULT_ROLE_PERMISSIONS
    /\ Calls \in [Procs -> SUBSET Routes]
    /\ TestUsers \subseteq [email : Emails, role : UserRole]
    /\ \A body \in Bodies : body.role \in UserRole

ASSUME AbsentAssumption ==
    /\ None \notin Grant /\ None \notin UserRow /\ Gone \notin UserRow /\ None # Gone
    /\ None \notin Token /\ None \notin UserRole
    /\ None \notin ALL_PERMISSIONS \cup Reserved

----------------------------------------------------------------------------
(* Requests *)

\* route, user and role are what the guards have established; rows are the grants
\* a load or a DELETE has seen; body is the request's; sign is the token to return.
Request ==
    [pc    : {"idle", "guarding", "serving", "setting", "set", "login", "naming", "answering"},
     route : {None} \cup Routes,
     user  : {None} \cup Users,
     role  : {None} \cup UserRole,
     rows  : {None} \cup SUBSET Grant,
     body  : {None} \cup Bodies \cup UserRow,
     sign  : {None} \cup Token]

Idle ==
    [pc |-> "idle", route |-> None, user |-> None, role |-> None,
     rows |-> None, body |-> None, sign |-> None]

Handling(p, controller, handler) ==
    /\ At(p, "serving")
    /\ req[p].route.controller = controller
    /\ req[p].route.handler = handler

Finish(p)    == Goes(p, Idle)
Waiting(p, q) == [Idle EXCEPT !.pc = "answering", !.sign = q]

Live(u)      == user[u] \notin {None, Gone}
NameTaken(email) == \E u \in Users : Live(u) /\ user[u].email = email

\* The requests that hold rows of the grants table and have not stored them yet.
Loads(p)     == req[p].pc \in {"guarding", "answering"} /\ req[p].rows # None

Init ==
    /\ grants = Seeded
    /\ cache = None
    /\ user \in [Users -> {None} \cup [email : Emails, role : UserRole, isActive : {TRUE}]]
    /\ \E u \in Users : Live(u) /\ user[u].role = "SUPER_ADMIN"
    /\ \A u, v \in Users : Live(u) /\ Live(v) /\ user[u].email = user[v].email => u = v
    /\ token = {}
    /\ req = [p \in Procs |-> Idle]
    /\ stale = FALSE

----------------------------------------------------------------------------
(* The guards *)

\* PermissionsService.has, once the grants are known.
has(rows, role, permission) ==
    \/ role = "SUPER_ADMIN"
    \/ [role |-> role, permission |-> permission] \in rows

\* No need to look: nothing is required, or the role bypasses.
Open(route, role) == Required(route) = None \/ role = "SUPER_ADMIN"

Served(route, t) == [Idle EXCEPT !.pc = "serving", !.route = route, !.user = t.user, !.role = t.role]

\* JwtAuthGuard lets a public route through; no role, so nothing is required of it.
GuardPublic(p) ==
    /\ At(p, "idle")
    /\ \E route \in Calls[p] :
          /\ route.public /\ Required(route) = None
          /\ Goes(p, [Idle EXCEPT !.pc = "serving", !.route = route])
    /\ UNCHANGED <<grants, cache, user, token, stale>>

\* A request with a valid token passes both guards without waiting.
GuardAtOnce(p) ==
    /\ At(p, "idle")
    /\ \E route \in Calls[p], t \in token :
          /\ ~route.public
          /\ \/ Open(route, t.role)
             \/ cache # None /\ has(cache, t.role, Required(route))
          /\ Goes(p, Served(route, t))
    /\ UNCHANGED <<grants, cache, user, token, stale>>

\* It finds no cache and asks the database.
GuardMiss(p) ==
    /\ At(p, "idle")
    /\ cache = None
    /\ \E route \in Calls[p], t \in token :
          /\ ~route.public /\ ~Open(route, t.role)
          /\ Goes(p, [Served(route, t) EXCEPT !.pc = "guarding"])
    /\ UNCHANGED <<grants, cache, user, token, stale>>

\* findMany: the rows as they are now, back in the process a little later.
LoadRead(p) ==
    /\ req[p].pc \in {"guarding", "answering"}
    /\ req[p].rows = None
    /\ req' = [req EXCEPT ![p].rows = grants]
    /\ UNCHANGED <<grants, cache, user, token, stale>>

\* The load stores what it read and the guard decides by it.
GuardFill(p) ==
    /\ At(p, "guarding")
    /\ req[p].rows # None
    /\ cache' = req[p].rows
    /\ Goes(p, IF has(req[p].rows, req[p].role, Required(req[p].route))
               THEN [req[p] EXCEPT !.pc = "serving", !.rows = None]
               ELSE Idle)
    /\ UNCHANGED <<grants, user, token, stale>>

\* toSessionUser and matrix load the grants only to show them; the answer
\* carries the token that was signed before.
Answer(p) ==
    /\ At(p, "answering")
    /\ req[p].rows # None \/ cache # None
    /\ cache' = IF req[p].rows # None THEN req[p].rows ELSE cache
    /\ token' = token \cup ({req[p].sign} \ {None})
    /\ Finish(p)
    /\ UNCHANGED <<grants, user, stale>>

\* permissionsFor needs no load for SUPER_ADMIN.
Respond(p, role, sign) ==
    IF role = "SUPER_ADMIN"
    THEN token' = token \cup ({sign} \ {None}) /\ Finish(p)
    ELSE Goes(p, Waiting(p, sign)) /\ UNCHANGED token

----------------------------------------------------------------------------
(* Permissions *)

\* A body is refused for SUPER_ADMIN and for keys outside the catalog.
Valid(body) == body.role # "SUPER_ADMIN" /\ body.permissions \subseteq ALL_PERMISSIONS

\* deleteMany sees the rows of the role as they are when it starts.
SetDelete(p) ==
    /\ Handling(p, "permissions", "setRole")
    /\ \E body \in Bodies :
          /\ Valid(body)
          /\ Goes(p, [req[p] EXCEPT !.pc = "setting", !.body = body,
                                    !.rows = {g \in grants : g.role = body.role}])
    /\ UNCHANGED <<grants, cache, user, token, stale>>

\* createMany under the unique index on (role, permission), and the commit.  A
\* deleteMany that was waiting finds the rows it saw deleted, and none of the new ones.
SetCommit(p) ==
    LET body == req[p].body
        kept == grants \ req[p].rows
        new  == GrantsTo(body.role, body.permissions)
        late(q) == q # p /\ At(q, "setting") /\ req[q].body.role = body.role
    IN  /\ At(p, "setting")
        /\ kept \cap new = {}
        /\ grants' = kept \cup new
        /\ stale' = (stale \/ \E q \in Procs : Loads(q))
        /\ req' = [q \in Procs |-> IF q = p THEN [Idle EXCEPT !.pc = "set"]
                                    ELSE IF late(q) THEN [req[q] EXCEPT !.rows = {}]
                                    ELSE req[q]]
        /\ UNCHANGED <<cache, user, token>>

\* Mutant: the cache is kept.
DroppedNot == cache

\* The cache as a change of grants leaves it.
Dropped == None

\* cache = null, and then matrix() loads again.
SetDrop(p) ==
    /\ At(p, "set")
    /\ cache' = Dropped
    /\ stale' = (stale /\ \E q \in Procs : Loads(q))
    /\ Goes(p, Waiting(p, None))
    /\ UNCHANGED <<grants, user, token>>

Matrix(p) ==
    /\ Handling(p, "permissions", "matrix")
    /\ Goes(p, Waiting(p, None))
    /\ UNCHANGED <<grants, cache, user, token, stale>>

\* seed-rbac.ts, one upsert: a script of its own, which cannot reach the cache.
SeedGrant ==
    /\ \E g \in Seeded \ grants : grants' = grants \cup {g}
    /\ stale' = (stale \/ cache # None \/ \E q \in Procs : Loads(q))
    /\ UNCHANGED <<cache, user, token, req>>

----------------------------------------------------------------------------
(* Sessions *)

\* The claims of a token: who, and with which role.
Signed(u, row) == [user |-> u, role |-> row.role]

LoginRead(p) ==
    /\ Handling(p, "auth", "login")
    /\ \E u \in Users :
          /\ Live(u) /\ user[u].isActive
          /\ Goes(p, [Idle EXCEPT !.pc = "login", !.sign = Signed(u, user[u])])
    /\ UNCHANGED <<grants, cache, user, token, stale>>

\* lastLogin is written by primary key, so the row must still be there; the token
\* is signed from the row that was read.
LoginTouch(p) ==
    /\ At(p, "login")
    /\ Live(req[p].sign.user)
    /\ Respond(p, req[p].sign.role, req[p].sign)
    /\ UNCHANGED <<grants, cache, user, stale>>

\* Mutant: the role of the token that is exchanged.
RenewedFromToken(u, role) == [user |-> u, role |-> role]

\* What refresh puts in the new token: the role as the row has it now.
Renewed(u, role) == Signed(u, user[u])

Refresh(p) ==
    /\ Handling(p, "auth", "refresh")
    /\ LET u == req[p].user IN
          /\ Live(u) /\ user[u].isActive
          /\ Respond(p, user[u].role, Renewed(u, req[p].role))
    /\ UNCHANGED <<grants, cache, user, stale>>

Me(p) ==
    /\ Handling(p, "auth", "me")
    /\ LET u == req[p].user IN
          /\ Live(u) /\ user[u].isActive
          /\ Respond(p, user[u].role, None)
    /\ UNCHANGED <<grants, cache, user, stale>>

\* A token is good until it expires, whatever happens to its user.
Expire(t) ==
    /\ t \in token
    /\ token' = token \ {t}
    /\ UNCHANGED <<grants, cache, user, req, stale>>

----------------------------------------------------------------------------
(* Users *)

NewUser(email, role) == [email |-> email, role |-> role, isActive |-> TRUE]

\* register and POST /users look the address up first.
NameCheck(p) ==
    /\ Handling(p, "auth", "register") \/ Handling(p, "users", "create")
    /\ \E email \in Emails, role \in UserRole :
          /\ ~NameTaken(email)
          /\ Goes(p, [Idle EXCEPT !.pc = "naming", !.route = req[p].route,
                                  !.body = NewUser(email, role)])
    /\ UNCHANGED <<grants, cache, user, token, stale>>

\* The insert, which the unique address may refuse; register returns a token.
NameCommit(p) ==
    /\ At(p, "naming")
    /\ ~NameTaken(req[p].body.email)
    /\ \E u \in Users :
          /\ user[u] = None
          /\ user' = [user EXCEPT ![u] = req[p].body]
          /\ token' = IF req[p].route.public THEN token \cup {Signed(u, req[p].body)} ELSE token
    /\ Finish(p)
    /\ UNCHANGED <<grants, cache, stale>>

UpdateUser(p) ==
    /\ Handling(p, "users", "update")
    /\ \E u \in Users, role \in UserRole, isActive \in BOOLEAN :
          /\ Live(u)
          /\ user' = [user EXCEPT ![u].role = role, ![u].isActive = isActive]
    /\ Finish(p)
    /\ UNCHANGED <<grants, cache, token, stale>>

\* Of a user without records; with records the foreign keys refuse.
RemoveUser(p) ==
    /\ Handling(p, "users", "remove")
    /\ \E u \in Users : Live(u) /\ user' = [user EXCEPT ![u] = Gone]
    /\ Finish(p)
    /\ UNCHANGED <<grants, cache, token, stale>>

\* seed-test-users.ts, one upsert: it restores the role and leaves isActive alone.
SeedUser ==
    /\ \E t \in TestUsers :
          \/ /\ ~NameTaken(t.email)
             /\ \E u \in Users : /\ user[u] = None
                                 /\ user' = [user EXCEPT ![u] = NewUser(t.email, t.role)]
          \/ \E u \in Users : /\ Live(u) /\ user[u].email = t.email
                              /\ user' = [user EXCEPT ![u].role = t.role]
    /\ UNCHANGED <<grants, cache, token, req, stale>>

----------------------------------------------------------------------------
(* The rest *)

\* Every other handler: nothing here changes.
Serve(p) ==
    /\ At(p, "serving")
    /\ \/ req[p].route.controller \notin {"permissions", "users", "auth"}
       \/ req[p].route.handler \in {"catalog", "findAll", "findOne", "resetPassword"}
    /\ Finish(p)
    /\ UNCHANGED <<grants, cache, user, token, stale>>

\* An error or a lost database ends a request, except between the commit of a
\* change of grants and the assignment that follows it.
Abort(p) ==
    /\ req[p].pc \notin {"idle", "set"}
    /\ Finish(p)
    /\ UNCHANGED <<grants, cache, user, token, stale>>

\* The process dies and comes back with no cache and no requests.
Restart ==
    /\ cache' = None
    /\ req' = [p \in Procs |-> Idle]
    /\ stale' = FALSE
    /\ UNCHANGED <<grants, user, token>>

----------------------------------------------------------------------------
(* Specification *)

Arrive(p) == GuardPublic(p) \/ GuardAtOnce(p) \/ GuardMiss(p)

\* The steps of a request once it is here.
Continue(p) ==
    \/ LoadRead(p) \/ GuardFill(p) \/ Answer(p)
    \/ SetDelete(p) \/ SetCommit(p) \/ SetDrop(p) \/ Matrix(p)
    \/ LoginRead(p) \/ LoginTouch(p) \/ Refresh(p) \/ Me(p)
    \/ NameCheck(p) \/ NameCommit(p) \/ UpdateUser(p) \/ RemoveUser(p)
    \/ Serve(p) \/ Abort(p)

Clients ==
    \/ \E p \in Procs : Arrive(p) \/ Continue(p)
    \/ \E t \in Token : Expire(t)

Next == Clients \/ SeedGrant \/ SeedUser \/ Restart

\* A request that is here is carried on or given up, and tokens expire.  Nobody
\* has to send anything.
Fairness ==
    /\ \A p \in Procs : WF_vars(Continue(p))
    /\ \A t \in Token : WF_vars(Expire(t))

Spec == Init /\ [][Next]_vars /\ Fairness

----------------------------------------------------------------------------
(* Properties *)

\* All variables have their types, and no reserved key is ever granted, cached or
\* in the hands of a load.
TypeOK ==
    /\ grants \subseteq Grant
    /\ cache \in {None} \cup SUBSET Grant
    /\ user \in [Users -> {None, Gone} \cup UserRow]
    /\ token \subseteq Token
    /\ req \in [Procs -> Request]
    /\ stale \in BOOLEAN

\* "Lazily loaded, invalidated on write" (permissions.service.ts:8): the grants in
\* memory are those of the table, except while a change has committed and not yet
\* dropped them, and after a load or a script was overtaken by a change.
CacheIsCurrent ==
    cache \in {None, grants} \/ stale \/ \E p \in Procs : At(p, "set")

\* Whatever is granted, revoked, cached and reloaded: a request that needs a permission
\* is let in only while the table grants it to the role in its token, except in the two
\* cases of CacheIsCurrent; what is reserved is for SUPER_ADMIN alone, and no write is
\* let in for a permission to look (the decorators of all controllers,
\* permissions.guard.ts, permissions.service.ts).
ServedWithinGrants ==
    [][\A p \in Procs :
          LET route == req'[p].route
              role  == req'[p].role
          IN  req[p].pc # "serving" /\ req'[p].pc = "serving" /\ ~Open(route, role) =>
                  /\ has(grants, role, Required(route)) \/ stale \/ \E q \in Procs : At(q, "set")
                  /\ Required(route) \notin Reserved
                  /\ route.writes => Required(route)[2] # "view"]_vars

\* What a token of u may say: the role, if the account is active.
Entitled(u) == IF Live(u) /\ user[u].isActive THEN user[u].role ELSE None

\* A token may carry an old role (jwt.strategy.ts:20).  But once an account stays as
\* it is, all its tokens say so in the end, and none is left of an account that may not
\* sign in: refresh renews from the row, and the rest expire.
RoleChangeTakesHold ==
    \A u \in Users :
        <>[][Entitled(u)' = Entitled(u)]_user
            => <>[](\A t \in token : t.user = u => t.role = Entitled(u))

\* "Lazily loaded, invalidated on write" (permissions.service.ts:8), taken at its word:
\* when every request has been answered, the grants in memory are those of the table.
GrantsTakeEffect ==
    (\A p \in Procs : At(p, "idle")) => cache \in {None, grants}

=============================================================================
