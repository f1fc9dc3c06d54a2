\* Two threads; where the queue is unknown any word may be found behind the
\* random numbers, another one at each comparison.
SPECIFICATION ProgramSpec
CONSTANTS
    NUM_THREADS = 2
    MAX_SIZE = 2
    test_bench = 2
    Beyond = {0, 1, 2, 3}
    NoThread = NoThread
    AnyInt <- Integers50
INVARIANTS NeverOvercounted BenchIsLongEnough
PROPERTIES LocksGivenBack EndsUnlessBehind
