\* Expected to fail: worker and main thread start the same job.
CONSTANTS
    Workers = {"w1"}
    MaxJobs = 2
    MaxCalls = 1
    EarlyClients = FALSE
SPECIFICATION Spec
INVARIANT NextJobIsPending
CHECK_DEADLOCK FALSE
