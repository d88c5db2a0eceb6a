SPECIFICATION Spec
CONSTANTS
    Envs <- MCEnvs
    PathLen = 3
INVARIANTS TypeOK FillInBounds EnvpExact EnvSizeExact FirstElfExecWins EInv
PROPERTIES ScanEnds
CHECK_DEADLOCK FALSE
