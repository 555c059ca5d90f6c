CONSTANTS
    u1 = u1
    u2 = u2
    r1 = r1
    r2 = r2
    r3 = r3
    t1 = t1
    t2 = t2
    UserIDs = {u1}
    RoleIDs = {r1, r2}
    Permissions <- OnlyRead
    Nil = Nil
    MaxDepth = 2
    LateRoles = {}
    MaxRestarts = 0
    Threads = {t1, t2}
    Menu <- OneWriter
    Users0 <- NoUsers
    Roles0 <- NoRoles
    Flaky = FALSE
SPECIFICATION OSpec
SYMMETRY Symmetry
INVARIANTS
    IndexExactBetweenWrites
    DirectRolesExactBetweenWrites
    OnlyOverlappedReadsStale
