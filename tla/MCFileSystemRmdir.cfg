CONSTANTS
    nameA = nameA
    nameB = nameB
    Names <- const_Names
    INODE_NUM = 4
    LAST_BLOCK = 11
    INODE_DIRECT_NUM = 2
    INDEX_NUM = 2
    MAX_CHILD_NUM = 3
SPECIFICATION SpecRmdir
INVARIANT
    NamespaceIsTree
