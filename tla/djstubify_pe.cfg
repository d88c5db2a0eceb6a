SPECIFICATION Spec
CONSTANTS
    Names <- MCNames
    InitFiles <- MCPEFiles
    Commands <- MCPECommands
    ChunkSize = 2
    MaxCommands = 1
    MaxFaults = 0
INVARIANTS StubifiesPE
CHECK_DEADLOCK FALSE
