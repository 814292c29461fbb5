SPECIFICATION Spec
CONSTANTS
    Users = {u1, u2}
    Names = {n1, n2}
    Phones = {"none"}
    Roles = {1, 3}
    Buyers = {b1}
    Tokens = {k1, k2}
    Procs = {p1}
    Txs = {t1, t2}
    u1 = u1
    u2 = u2
    n1 = n1
    n2 = n2
    b1 = b1
    k1 = k1
    k2 = k2
    p1 = p1
    t1 = t1
    t2 = t2
    MaxAttempts = 2
    Lockout = 1
    Life = 6
    Second = 2
    MaxClock = 3
    MaxRequests = 4
SYMMETRY Interchangeable
INVARIANTS
    BootstrapOnce
    LockoutHolds
    RevokedStaysOut
