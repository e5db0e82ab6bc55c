SPECIFICATION FairSpec
CONSTANTS
    t1 = t1
    t2 = t2
    t3 = t3
    Waiters = {t1, t2}
    Signallers = {t2, t3}
    Notifications = {n}
    Synchronizations = {s}
    Semaphores = {m}
    Limit = 1
    MaxDeficit = 1
    NoObject = NoObject
    NoThread = NoThread
INVARIANTS TypeOK WaitListIntegrity
PROPERTIES SetReleasesWaiter
CHECK_DEADLOCK FALSE
