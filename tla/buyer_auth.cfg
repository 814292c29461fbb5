SPECIFICATION Spec
CONSTANTS
    b1 = b1
    b2 = b2
    c1 = c1
    c2 = c2
    t1 = t1
    t2 = t2
    e1 = e1
    e2 = e2
    p1 = p1
    p2 = p2
    Codes = {1, 2}
    Txs = {t1, t2}
    Buyers = {b1, b2}
    Customers = {c1, c2}
    Emails = {e1, e2}
    Phones = {p1, p2}
    Sellers = {e1}
    MaxVerify = 2
    MaxRequests = 4
SYMMETRY Interchangeable
INVARIANTS
    SpentOnce
    OutdatedAreDead
    RecordMatches
    TypeOK
CHECK_DEADLOCK FALSE
