\* Chains of one and of two filters; three chunks through a pipe that holds
\* one, so that the writer blocks, the buffer is reused and output is left over.
CONSTANTS
    ChainLens = {1, 2}
    MaxChunks = 3
    PipeCap = 1
    MaxMessageErrors = 2
SPECIFICATION Spec
INVARIANTS TypeOK SpoolsOnce CompletedIsClean OneBufferPump StoppedNeverCompletes
PROPERTIES ImplementsConduit FirstCancelExplained EndedForGood StopEnds SendingEnds
CHECK_DEADLOCK FALSE
