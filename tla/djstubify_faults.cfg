SPECIFICATION Spec
CONSTANTS
    Names <- MCNames
    InitFiles <- MCInitFiles
    Commands <- MCFewCommands
    ChunkSize = 2
    MaxCommands = 2
    MaxFaults = 1
INVARIANTS NoLoss
PROPERTIES CommandEnds
CHECK_DEADLOCK FALSE
