------------------------------ MODULE MCAccess ------------------------------
(* Model values and bounds for Access. *)
EXTENDS Access, TLC

CONSTANTS p1, p2, u1, u2

\* The model looks at a route's requirement, at whether it writes, and at the
\* handlers of three controllers: one route of each kind stands for the others.
Special    == {"permissions", "users", "auth"}
Kind(route) ==
    [required |-> Required(route), writes |-> route.writes, public |-> route.public,
     handler  |-> IF route.controller \in Special
                  THEN <<route.controller, route.handler>> ELSE None]
OneOfEach(routes) == {CHOOSE r \in routes : Kind(r) = k : k \in {Kind(r) : r \in routes}}

\* One client administers, the other signs in and uses everything else.
AdminRoutes == {r \in Routes : \/ r.controller \in {"permissions", "users"} /\ r.writes
                               \/ r.handler = "register"}
AdminCalls  == OneOfEach(AdminRoutes)
OtherCalls  == OneOfEach(Routes \ AdminRoutes)

MCCalls     == p1 :> AdminCalls @@ p2 :> OtherCalls

MCBodies ==
    [role : {"OWNER"}, permissions : {{}, DEFAULT_ROLE_PERMISSIONS.OWNER \cup {Edit("operation")},
                                      {<<"roles", "manage">>}}]
        \cup [role : {"SUPER_ADMIN"}, permissions : {{}}]

AdminMail == "admin@stlogistics.com"
OwnerMail == "owner@ststar.com"

MCTestUsers == [email : {OwnerMail}, role : {"OWNER"}]

Admin == [email |-> AdminMail, role |-> "SUPER_ADMIN", isActive |-> TRUE]
Owner == [email |-> OwnerMail, role |-> "OWNER", isActive |-> TRUE]

\* One user is the administrator.  The other changes while the grants are those seeded
\* and only sessions and users are asked for; grants change while the other is an owner
\* with a session, and the seed script then adds at most its first row again.
Apart ==
    /\ user[u1] = Admin
    /\ \/ /\ grants = Seeded /\ cache \in {None, Seeded} /\ ~stale
          /\ \A p \in Procs : req[p].route # None => req[p].route.controller \in {"auth", "users"}
       \/ /\ user[u2] = Owner
          /\ \A p \in Procs : req[p].route # None =>
                req[p].route.controller # "users" /\ ~req[p].route.public
          /\ grants \cap Seeded \in {{}, GrantsTo("OWNER", {View("operation")}), Seeded}

\* Nothing but clients: no scripts beside the server, and it does not restart.
ClientsSpec == Init /\ [][Clients]_vars /\ Fairness

=============================================================================
