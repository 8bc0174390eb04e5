SPECIFICATION Spec
CONSTANTS
    a = a
    b = b
    c = c
    State <- MCState
    Valid <- MCValid
    Requesting = {"onEnter", "update"}
    None = None
INVARIANT EnteredIsCurrent
\* A machine that was shut down is not used again.
CHECK_DEADLOCK FALSE
