SPECIFICATION Spec
CONSTANTS
    Threads = {t1, t2}
    NoThread = NoThread
    MAX_SIZE = 3
    Values = {0, 1}
INVARIANT EmptyMeansBothEnds
