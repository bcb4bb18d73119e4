CONSTANTS
    w1 = w1
    w2 = w2
    NoTask = NoTask
    MaxSize = 2
    Workers <- const_Workers
    Tasks <- Cells
SPECIFICATION ProgramSpec
INVARIANTS
    OutputIsProduct
    ComputesOnLiveMemory
    FreedPoolMetAfterOutput

    
