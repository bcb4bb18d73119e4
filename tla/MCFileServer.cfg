CONSTANTS
    nameA = nameA
    nameB = nameB
    Names <- const_Names
    INODE_NUM = 3
    LAST_BLOCK = 12
    INODE_DIRECT_NUM = 1
    INDEX_NUM = 2
    MAX_CHILD_NUM = 3
    InodeSector = 2
    WireSize = 1
    MaxCommands = 2
    MaxStarts = 2
SPECIFICATION FairSpec
INVARIANTS
    OnlyFirstOrIndexUnsaved
    MisledOnlyByMake
    
    CleanExitLeavesSoundDisk

    
    
CHECK_DEADLOCK FALSE
