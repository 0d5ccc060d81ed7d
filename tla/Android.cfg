SPECIFICATION Spec
CONSTANTS
    Peer = {p1, p2}
    Dials = {p1}
    Anonymous = {p2}
    MaxDrops = 2
    None = None
INVARIANTS
    AndroidInv
PROPERTIES
    NoFalseDisconnect
    SubscribedInTheEnd
    LossIsNoticed
    AutoReconnects
CHECK_DEADLOCK FALSE
