SPECIFICATION Spec
CONSTANTS
    Names <- MCNames
    InitFiles <- MCInitFiles
    Commands <- MCFewCommands
    ChunkSize = 2
    MaxCommands = 3
    MaxFaults = 0
INVARIANTS StripCoversFile
CHECK_DEADLOCK FALSE
