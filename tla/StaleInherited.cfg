CONSTANTS
    u1 = u1
    u2 = u2
    r1 = r1
    r2 = r2
    r3 = r3
    UserIDs = {u1}
    RoleIDs = {r1, r2}
    Permissions <- ReadAndAny
    Nil = Nil
    MaxDepth = 2
    LateRoles = {}
    MaxRestarts = 0
SPECIFICATION Spec

INVARIANTS
    CheckExact
