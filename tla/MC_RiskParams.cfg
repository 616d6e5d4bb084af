CONSTANTS
    Fields = {f1, f2}
    Readers = {r1}
    ColdReaders = {c1}
    MaxRetries = 2
    WeakMemory = FALSE
    UpdateBound = 3
    f1 = f1
    f2 = f2
    r1 = r1
    c1 = c1
SPECIFICATION FairSpec
INVARIANTS BuffersAgree
PROPERTIES ReadsAreAtomic ActiveNeverWritten ReadReturns
