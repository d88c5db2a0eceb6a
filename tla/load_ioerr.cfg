SPECIFICATION Spec
CONSTANTS
    PageSize = 4
    AddrLimit = 40
    MinInitial = 6
    MaxIoErrors = 1
    Payloads <- MCFewPayloads
    Blocks <- MCBlocks
INVARIANTS DetectsReadErrors
CHECK_DEADLOCK FALSE
