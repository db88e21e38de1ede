CONSTANT Parts = {"dict"}
SPECIFICATION StructuresSpec
INVARIANT ScanReturnsAllAlways
CHECK_DEADLOCK FALSE
