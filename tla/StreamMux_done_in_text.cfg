CONSTANTS
    TextKinds = {"text", "textDONE"}
    MaxText = 2
    MaxBeats = 2
    ErrorStatus = 429

SPECIFICATION Spec
INVARIANT DoneTerminates
\* A request ends: the states after the cleanup have no successor.
CHECK_DEADLOCK FALSE
