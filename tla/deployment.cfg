SPECIFICATION Spec
CONSTANTS
    Procs = {o1, o2, o3}
    Databases <- SmallDatabases
    o1 = o1
    o2 = o2
    o3 = o3
    Extras <- Groups
    Lacks <- Missing
    Troubles <- AllTroubles
    Stops = {0, 1, 4, 5, 6, 7}
    Versions = {3, 6, 13, 16, 21, 22, 26}
SYMMETRY Interchangeable
INVARIANTS
    RecordIsTrue
    SeededHasOwner
    AuditedIsNotAdoptable
