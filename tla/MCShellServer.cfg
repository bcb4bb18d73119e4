\* The server may wait for ever: for a session whose pipeline hangs, or for a client to connect.
CHECK_DEADLOCK FALSE
CONSTANTS
    MAX_CONNECTION = 2
    Capacity = 1
    Lines <- const_Lines
    MaxTyped = 2
SPECIFICATION Spec
INVARIANTS
    
    EndsOnlyIfItFits
    EndsGivenBack
    ServerExitsLast
PROPERTIES
    PipelineEnds
    ShutdownCompletes
