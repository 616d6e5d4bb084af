CONSTANTS
    Modes <- AllModes
    MdQueueSize = 1
    TickQueueSize = 1
    OrderQueueSize = 1
    FillQueueSize = 1
    TickBound = 2
    OrderBound = 2
SPECIFICATION FairSpec
INVARIANTS TypeOK NoCallAfterStop  OrdersConserved
PROPERTIES Terminates OrdersAreSent
