\* The judge may end its thread one visit too early, and the last immigrant then waits for ever.
CHECK_DEADLOCK FALSE
CONSTANT IMMIGRANT_TARGET = 3
SPECIFICATION Spec
PROPERTY ThreadsExit
