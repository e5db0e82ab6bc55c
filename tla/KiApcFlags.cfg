SPECIFICATION Spec
CONSTANTS
    t1 = t1
    t2 = t2
    k1 = k1
    k2 = k2
    u1 = u1
    u2 = u2
    NoThread = NoThread
    NoApc = NoApc
    Threads = {t1, t2}
    Targets = {t1}
    KernelApcs = {}
    UserApcs = {u1}
    FlagModes = {TRUE}
    MaxDepth = 2
PROPERTY UserApcRuns
CHECK_DEADLOCK FALSE
