SPECIFICATION QueueSpec
CONSTANTS
    Op = {o1, o2, o3}
    LongWrite = {o1, o2}
    Requests = 3
    QueueSize = 2
    MaxOpens = 2
    NoOp = NoOp
INVARIANTS
    QueueInv
PROPERTIES
    ImplementsSerial
    AcceptedEnds
    ProcessorsStop
CHECK_DEADLOCK FALSE
