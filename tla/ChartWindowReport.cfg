SPECIFICATION FairSpec
CONSTANTS
    NULL = NULL
    t1 = t1
    t2 = t2
    t3 = t3
    Threads <- TwoThreads
    Failures <- WindowFailure
CHECK_DEADLOCK FALSE
PROPERTY FailureReported
