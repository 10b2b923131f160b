CONSTANTS
    TextKinds = {"text"}
    MaxText = 2
    MaxBeats = 2
    ErrorStatus = 429

SPECIFICATION Spec
INVARIANT UpstreamErrorIsHttpError
\* A request ends: the states after the cleanup have no successor.
CHECK_DEADLOCK FALSE
