\* Expected to fail: a job that cannot be run keeps the sending slot.
CONSTANTS
    ChainLens = {1}
    MaxJobs = 2
    MaxFaults = 1
SPECIFICATION Spec
INVARIANT ProcessingRuns
CHECK_DEADLOCK FALSE
