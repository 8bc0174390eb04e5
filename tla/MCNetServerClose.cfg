SPECIFICATION Spec
CONSTANTS
    a = a
    b = b
    s1 = s1
    s2 = s2
    Client = {a, b}
    Socket = {s1, s2}
    Listener = Listener
    Mode = {"UDP"}
    Limit = {2}
    Timeout = 1
    Garbage <- MCGarbage
    Unresolved = Unresolved
    NoSocket = NoSocket
    Nobody = Nobody
    MaxId = 3
    MaxDials = 3
    MaxStarts = 1
CHECK_DEADLOCK FALSE
INVARIANT
    ClosedOnce
