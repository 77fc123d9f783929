CONSTANTS
    None = None
    Gone = Gone
    p1 = p1
    p2 = p2
    u1 = u1
    u2 = u2
    Procs = {p1, p2}
    UserRole = {"SUPER_ADMIN", "OWNER"}
    Users = {u1, u2}
    Emails = {"admin@stlogistics.com", "owner@ststar.com"}
    TestUsers <- MCTestUsers
    Calls <- MCCalls
    Bodies <- MCBodies
SPECIFICATION Spec
CONSTRAINT Apart
INVARIANT CacheIsCurrent
PROPERTIES ServedWithinGrants RoleChangeTakesHold
CHECK_DEADLOCK FALSE
