\* Two threads that initialize the client; three changes: one that is
\* announced, one that comes during the announcement and one after it; two
\* nested calls of settle, with timeouts inside of them.
CONSTANTS
    Callers = {"a", "b"}
    Delay = 2
    MaxChanges = 3
    MaxDepth = 2
SPECIFICATION Spec
INVARIANTS InitAgrees SourceIsLive NothingUnannounced
PROPERTIES RateLimited ImplementsChangedSignal
