CONSTANTS
    Sentinels = {s1, s2}
    Redis = {r1, r2, r3}
    None = None
    FirstMaster = r1
    Quorum = 1
    ParallelSyncs = 1
    MaxEpoch = 1
    MaxFaults = 1
SPECIFICATION Spec
SYMMETRY Symmetric
INVARIANT PromotedIsThere
PROPERTIES EpochsNeverFall ImplementsElection
CHECK_DEADLOCK FALSE
