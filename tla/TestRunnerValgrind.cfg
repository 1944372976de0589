CONSTANTS
    Workers = {w1, w2}
    Jobs <- ThreeJobs
    Valgrind = TRUE
SPECIFICATION Spec
INVARIANT ValgrindReported
CHECK_DEADLOCK FALSE
