SPECIFICATION Spec
CONSTANTS
    Names <- MCNames
    InitFiles <- MCInitFiles
    Commands <- MCCommands
    ChunkSize = 2
    MaxCommands = 3
    MaxFaults = 0
INVARIANTS TypeOK GenerateDescribes RestubKeeps StripExact UnstubAgrees UnstubGivesPayload
PROPERTIES NearsEnd
CHECK_DEADLOCK FALSE
