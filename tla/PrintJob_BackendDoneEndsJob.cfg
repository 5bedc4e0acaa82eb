CONSTANTS
    ChainLens = {1}
    MaxChunks = 3
    PipeCap = 1
    MaxMessageErrors = 0
SPECIFICATION Spec
PROPERTY BackendDoneEndsJob
CHECK_DEADLOCK FALSE
