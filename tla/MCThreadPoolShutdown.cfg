\* The client blocks for ever in the counterexample: no deadlock check.
CHECK_DEADLOCK FALSE
CONSTANTS
    w1 = w1
    w2 = w2
    t1 = t1
    t2 = t2
    t3 = t3
    NoTask = NoTask
    Workers <- const_Workers
    Tasks <- const_Tasks
SPECIFICATION Spec
PROPERTY
    DestroyCompletesTasks
