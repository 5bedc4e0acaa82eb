\* Expected to fail: the owner cancels a job CreateJob is still working on.
CONSTANTS
    Workers = {"w1"}
    MaxJobs = 1
    MaxCalls = 1
    EarlyClients = TRUE
SPECIFICATION Spec
PROPERTY CreateJobReturns
CHECK_DEADLOCK FALSE
