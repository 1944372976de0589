CONSTANTS
    Workers = {w1, w2}
    Jobs <- ThreeJobs
    Valgrind = TRUE
SPECIFICATION FairSpec
INVARIANTS EachJobOnce ExitHonest StopsOnInterrupt ResultsComplete
PROPERTY Finishes
CHECK_DEADLOCK FALSE
