SPECIFICATION Spec
CONSTANTS
    t1 = t1
    t2 = t2
    D = D
    n = n
    Threads = {t1, t2}
    Slots = {o1, o2}
    Dos = Dos
    Dev = Dev
    DriveNames = {D}
    OtherNames = {n}
    HandlesPerTable = 3
    MaxTables = 1
    MaxHeld = 1
    MaxLeaks = 1
    Paths <- MCPaths
    Attributes = {{}, {"OPENIF", "PERMANENT"}}
    Calls <- MCCalls
    HostHandle = TRUE
    Null = Null
INVARIANTS TypeOK RefCountExact HandleTableSound NamesSound DriveMapFresh RetryEnds
PROPERTIES ImplementsLifetime
SYMMETRY MCSymmetry
CHECK_DEADLOCK FALSE
