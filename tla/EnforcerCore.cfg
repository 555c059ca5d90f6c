CONSTANTS
    u1 = u1
    u2 = u2
    r1 = r1
    r2 = r2
    r3 = r3
    UserIDs = {u1, u2}
    RoleIDs = {r1, r2, r3}
    Permissions <- ReadAndInvalid
    Nil = Nil
    MaxDepth = 2
    LateRoles = {}
    MaxRestarts = 1
SPECIFICATION Spec
SYMMETRY Symmetry
INVARIANTS
    TypeOK
    HoldersSound
    HasRoleExact
    NoGhostEntries
    Acyclic
    NoDanglingParent
    IndexCompleteUntilRestart
    CacheExactUntilRestart
