SPECIFICATION Spec
CONSTANTS
    PageSize = 4
    AddrLimit = 40
    MinInitial = 6
    MaxIoErrors = 1
    Payloads <- MCPayloads
    Blocks <- MCBlocks
INVARIANTS TypeOK BlockSafe ImageCorrect IInv
PROPERTIES Termination DeliversOrRefuses
CHECK_DEADLOCK FALSE
