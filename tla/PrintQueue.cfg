\* Three jobs: one being printed, one to cancel and one to wake up.
\* The system rests once every job has ended.
CONSTANTS
    ChainLens = {1}
    MaxJobs = 3
    MaxFaults = 0
SPECIFICATION Spec
INVARIANTS NoLostWakeup OneLiveBackend
CHECK_DEADLOCK FALSE
