CONSTANTS
    N = 2
    Producers = {p1, p2}
    Consumers = {c1, c2}
    Observers = {o1}
    Values = {v1, v2}
    NoValue = NoValue
    RelaxedLoads = TRUE
    SizeWord = 256
    TicketBound = 3
    p1 = p1
    p2 = p2
    c1 = c1
    c2 = c2
    v1 = v1
    v2 = v2
    o1 = o1
SPECIFICATION Spec
SYMMETRY Symmetry
INVARIANTS TypeOK ExclusiveSlot NoOrphanTicket
PROPERTIES ImplementsFifo FullIsJustified EmptyIsJustified
