SPECIFICATION Spec
CONSTANTS
    Names <- MCNames
    InitFiles <- MCInitFiles
    Commands <- MCElfCommands
    ChunkSize = 2
    MaxCommands = 2
    MaxFaults = 0
INVARIANTS ReadsOwnFiles
CHECK_DEADLOCK FALSE
