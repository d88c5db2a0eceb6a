SPECIFICATION Spec
CONSTANTS
    PageSize = 4
    AddrLimit = 40
    MinInitial = 6
    MaxIoErrors = 1
    Payloads <- MCPayloads
    Blocks <- MCBlocks
INVARIANTS AlignedStaysInBlock
CHECK_DEADLOCK FALSE
