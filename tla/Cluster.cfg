SPECIFICATION Spec
CONSTANTS
    Nodes = {1, 2, 3, 4, 5}
    None = 0
    MasterOf <- MCMasterOf
    OwnerOf <- MCOwnerOf
    EpochOf <- MCEpochOf
    Unsteady = {5}
    MaxEpoch = 4
    MaxFaults = 1
INVARIANTS OnlyMastersServe  VotesOnce
PROPERTY ConfigEpochsNeverFall
CHECK_DEADLOCK FALSE
