SPECIFICATION Spec
CONSTANTS
    t1 = t1
    t2 = t2
    t3 = t3
    Waiters = {t1}
    Signallers = {t2}
    Notifications = {n}
    Synchronizations = {}
    Semaphores = {}
    Limit = 1
    MaxDeficit = 1
    NoObject = NoObject
    NoThread = NoThread
INVARIANTS NoLostWakeup
CHECK_DEADLOCK FALSE
