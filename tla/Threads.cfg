\* Two workers beside the main thread, two jobs: one ends while the other is
\* created or becomes a candidate.  Two calls: a cancellation and a change of
\* the printer, or two of either.  The daemon may rest.
CONSTANTS
    Workers = {"w1", "w2"}
    MaxJobs = 2
    MaxCalls = 2
    EarlyClients = FALSE
SPECIFICATION Spec
INVARIANTS NoDeadlock NoLostWakeup BusyWithAJob NoLeakedSlot NothingHeldBack
PROPERTY CallsReturn
CHECK_DEADLOCK FALSE
