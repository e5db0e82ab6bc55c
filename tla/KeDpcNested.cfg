SPECIFICATION Spec
CONSTANTS
    Threads = {main, t1}
    AtDispatch = {main}
    Dpcs = {d1, d2}
    MaxSpoiled = 0
    MaxNesting = 2
    Main = main
    NoThread = none
    ListHead = head
    Null = null
    Junk = junk
INVARIANT NoNestedExecution
