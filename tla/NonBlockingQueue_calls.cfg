\* Any mix of calls by three threads; a weak compare-and-swap does not fail
\* spuriously on x86.
SPECIFICATION FairSpec
CONSTANTS
    Threads = {t1, t2, t3}
    MAX_SIZE = 2
    Values = {0}
    MaxCalls = 5
    SpuriousFailure = FALSE
INVARIANTS SlotsAccounted OverfullBound FewCallsFit
PROPERTY CallsReturn
CHECK_DEADLOCK FALSE
