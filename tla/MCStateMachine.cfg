SPECIFICATION Spec
CONSTANTS
    a = a
    b = b
    c = c
    State <- MCState
    Valid <- MCValid
    Requesting = {"update"}
    None = None
INVARIANTS EnteredIsCurrent NextFound
PROPERTIES MovesAreValid RequestTaken
\* A machine that was shut down is not used again.
CHECK_DEADLOCK FALSE
