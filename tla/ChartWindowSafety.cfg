SPECIFICATION Spec
CONSTANTS
    NULL = NULL
    t1 = t1
    t2 = t2
    t3 = t3
    Threads <- ThreeThreads
    Failures <- AllFailures
CHECK_DEADLOCK FALSE
SYMMETRY Symmetric
INVARIANTS
    TypeOK
    OwnHandle
    SignalOfLoop
    LiveHandle
    LeakOnlyWhenHung
    ClassFlagHonest
