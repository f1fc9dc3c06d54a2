\* Calls overlap, but no two of the same kind do.
SPECIFICATION PairSpec
CONSTANTS
    Threads = {t1, t2, t3}
    MAX_SIZE = 3
    Values = {0, 1}
    MaxCalls = 5
    SpuriousFailure = TRUE
INVARIANT HeadBehindTail
PROPERTY ImplementsBoundedQueue
CHECK_DEADLOCK FALSE
