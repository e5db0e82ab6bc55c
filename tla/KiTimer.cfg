SPECIFICATION Spec
CONSTANTS
    t1 = t1
    t2 = t2
    g1 = g1
    main = main
    events = events
    Timers <- MCTimers
    Guests <- MCGuests
    Executors <- MCExecutors
    Clock = events
    NoThread = NoThread
    NoTimer = NoTimer
    TIMER_TABLE_SIZE = 2
    CLOCK_TIME_INCREMENT = 1
    TimeModulus = 16
    TickModulus = 4
    TimerTryLock = TRUE
    MaxActiveTimers = 2
    MaxScans = 2
    InitInterruptTime = 2
    InitSystemTime = 2
    Settings <- MCSettings
    SystemTimes = {5}
    ElapsedTicks = {1, 2}
    MaxTime = 5
SYMMETRY TimerSymmetry
INVARIANTS TypeOK NoTimerLost TableConsistent ScannedBucketsDone
PROPERTIES NeverEarly
CHECK_DEADLOCK FALSE
