SPECIFICATION Spec
CONSTANTS
    t1 = t1
    t2 = t2
    g1 = g1
    main = main
    events = events
    Timers <- MCTimers
    Guests <- MCGuests
    Executors <- MCMain
    Clock = events
    NoThread = NoThread
    NoTimer = NoTimer
    TIMER_TABLE_SIZE = 2
    CLOCK_TIME_INCREMENT = 1
    TimeModulus = 16
    TickModulus = 64
    TimerTryLock = FALSE
    MaxActiveTimers = 2
    MaxScans = 2
    InitInterruptTime = 0
    InitSystemTime = 2
    Settings <- MCSettings
    SystemTimes = {}
    ElapsedTicks = {1, 2}
    MaxTime = 4
CHECK_DEADLOCK FALSE
INVARIANTS NoMissedTimer
