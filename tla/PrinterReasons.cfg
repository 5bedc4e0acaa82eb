\* Four reasons, lines of up to two of them: every list, and every overlap
\* of a line with the list.
CONSTANTS
    Reasons = {"connecting", "media-empty", "toner-low", "door-open"}
    MaxLine = 2
SPECIFICATION Spec
INVARIANTS EachReasonOnce NoStaleReason RemovalIsFilter
