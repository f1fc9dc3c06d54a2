\* Three threads, any mix of calls, overlapping only when the ends are apart.
SPECIFICATION GuardedSpec
CONSTANTS
    Threads = {t1, t2, t3}
    NoThread = NoThread
    MAX_SIZE = 3
    Values = {0, 1}
INVARIANT TypeOK
PROPERTY ImplementsBoundedQueue
