SPECIFICATION ServedSpec
CONSTANTS
    p1 = p1
    p2 = p2
    c1 = c1
    c2 = c2
    Thread <- MCThread
    Program <- MCProgram
    Workers = {c1, c2}
    MaxSize = 2
    MaxItems = 3
INVARIANTS
    TypeOK
    InCallOrder
    NoneSkipped
    NoLostWakeup
    DrainedWakesProducers
    ClosedWakesConsumers
PROPERTIES
    ImplementsChannel
    ConsumersReleased
    Delivered
    ProducersReturn
