SPECIFICATION Spec
CONSTANTS
    Main = Main
    Logger = Logger
    Nothing = Nothing
    w1 = w1
    all = all
    errors = errors
    Worker = {w1}
    Sink = {all, errors}
    Level = {"Info", "Error"}
    LevelOf <- MCLevelOf
    Accepts <- MCAccepts
    MaxSize = 2
    MaxItems = 2
CHECK_DEADLOCK FALSE
INVARIANTS
    TypeOK
    SinkSeesStream
    ExitWritesAll
PROPERTIES
    ExitsWithSink
    EveryMessageDispatched
