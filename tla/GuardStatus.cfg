CONSTANTS
    u1 = u1
    u2 = u2
    r1 = r1
    r2 = r2
    r3 = r3
    t1 = t1
    t2 = t2
    q1 = q1
    q2 = q2
    UserIDs = {u1}
    RoleIDs = {r1}
    Permissions <- ReadAndWrite
    Nil = Nil
    MaxDepth = 1
    LateRoles = {}
    MaxRestarts = 0
    Threads = {t1, q1}
    Menu <- BehindFewWrites
    Users0 <- HoldR1
    Roles0 <- R1Reads
    Flaky = FALSE
    Requests = {q1}
    Stacks <- MCStacks
SPECIFICATION MSpec
INVARIANTS
    UnknownUserIs401
