CONSTANTS
    TextKinds = {"text"}
    MaxText = 3
    MaxBeats = 3
    ErrorStatus = 429

SPECIFICATION Spec
INVARIANT TypeOK AdapterOrderKept DoneTerminates CleanupOnExit
PROPERTY EventuallyExits StreamRefinesAbstract
\* A request ends: the states after the cleanup have no successor.
CHECK_DEADLOCK FALSE
