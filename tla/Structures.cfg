SPECIFICATION StructuresSpec
CONSTANT Parts = {"dict", "quicklist", "ziplist", "rax", "intset", "skiplist", "hll"}
INVARIANTS
    SetsAreKept
    ScanReturnsAll
    
    
    SkiplistIsOrdered
    HllIsTheUnion
PROPERTIES
    DictIsASet
    IntsetIsASet
CHECK_DEADLOCK FALSE
