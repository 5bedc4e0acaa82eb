\* Two jobs and two faults, of the same job or of both.
\* The system rests once every job has ended.
CONSTANTS
    ChainLens = {1}
    MaxJobs = 2
    MaxFaults = 2
SPECIFICATION Spec
INVARIANTS TypeOK SendSlotAgrees NoLostWakeup BusyWithAJob
CHECK_DEADLOCK FALSE
