SPECIFICATION Spec
CONSTANTS
    a = a
    b = b
    s1 = s1
    s2 = s2
    Client = {a, b}
    Socket = {s1, s2}
    Listener = Listener
    Mode = {"TCP", "UDP"}
    Limit = {1, 2}
    Timeout = 1
    Garbage <- MCGarbage
    Unresolved = Unresolved
    NoSocket = NoSocket
    Nobody = Nobody
    MaxId = 4
    MaxDials = 3
    MaxStarts = 2
CHECK_DEADLOCK FALSE
INVARIANTS
    TypeOK
    HostsKnown
    SocketsKnown
    NoHandleLeak
    CloseBalanced
    DatagramFromSender
PROPERTY
    GoneReleased
