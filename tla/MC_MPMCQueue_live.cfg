CONSTANTS
    N = 2
    Producers = {p1, p2}
    Consumers = {c1, c2}
    Observers = {}
    Values = {v1}
    NoValue = NoValue
    RelaxedLoads = TRUE
    SizeWord = 256
    TicketBound = 3
    p1 = p1
    p2 = p2
    c1 = c1
    c2 = c2
    v1 = v1
SPECIFICATION FairSpec
PROPERTIES Delivered CallsReturn
