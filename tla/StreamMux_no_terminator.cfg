\* No heartbeat before the first line (the upstream answers within the
\* interval), so the violation is not the deferred-check path.
CONSTANTS
    TextKinds = {"text"}
    MaxText = 1
    MaxBeats = 0
    ErrorStatus = 429

SPECIFICATION Spec
INVARIANT DoneOnEveryEnd
\* A request ends: the states after the cleanup have no successor.
CHECK_DEADLOCK FALSE
