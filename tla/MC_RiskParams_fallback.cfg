CONSTANTS
    Fields = {f1, f2}
    Readers = {r1}
    ColdReaders = {}
    MaxRetries = 1
    WeakMemory = FALSE
    UpdateBound = 2
    f1 = f1
    f2 = f2
    r1 = r1
SPECIFICATION Spec
SYMMETRY Symmetry
INVARIANTS FallbackIsConsistent
