SPECIFICATION Spec
CONSTANTS
    Word = 64
    HighestPage = 7
    MaxContiguousPfn = 5
    PtesPerTable = 3
    PtesUsedWidth = 5
    Granularity = 2
    UserFirst = 2
    UserLast = 4
    SystemFirst = 8
    SystemLast = 11
    ContiguousFirst = 18
    Sizes = {1, 2}
    Alignments = {1}
    Ranges <- MCRanges
    ManyStacks = TRUE
INVARIANT TablesOutlivePtes
CHECK_DEADLOCK FALSE
