SPECIFICATION Spec
CONSTANTS
    Main = Main
    Logger = Logger
    Nothing = Nothing
    w1 = w1
    all = all
    errors = errors
    Worker = {w1}
    Sink = {all, errors}
    Level = {"Info", "Error"}
    LevelOf <- MCLevelOf
    Accepts <- MCAccepts
    MaxSize = 1
    MaxItems = 1
CHECK_DEADLOCK FALSE
PROPERTY
    FlushFlushesAll
