\* Two threads and four calls: two UpdateDriver calls that overlap, one that
\* runs by itself afterwards, and a job.  Four PPD files: one that cannot be
\* opened, one without cupsFilter lines, one whose cheapest lines cost the same
\* and one whose cheapest line is in the middle.
CONSTANTS
    Ppds <- MCPpds
    Lines <- MCLines
    Readable <- MCReadable
    Updates <- MCUpdates
    Defaults <- MCDefaults
    Callers = {"a", "b"}
    MaxCalls = 4
SPECIFICATION Spec
INVARIANTS FinalFromOnePpd DriverAgrees JobUsesOnePpd NoLostDefault JobGetsDefaults
\* The last call may have ended.
CHECK_DEADLOCK FALSE
