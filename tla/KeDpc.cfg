SPECIFICATION FairSpec
CONSTANTS
    Threads = {main, t1}
    AtDispatch = {main}
    Dpcs = {d1, d2}
    MaxSpoiled = 1
    MaxNesting = 2
    Main = main
    NoThread = none
    ListHead = head
    Null = null
    Junk = junk
INVARIANTS TypeOK InsertedIffQueued QueuedIsPending ActiveHasRunner
PROPERTY QueuedDpcRuns
