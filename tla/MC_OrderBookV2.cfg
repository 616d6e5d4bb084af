SPECIFICATION FairSpec
CONSTANTS
    Prices = {1, 2, 3}
    Quantities = {0, 1, 2}
    MaxDepth = 2
    HotDepth = 1
    Readers = {r}
    UpdateBound = 3
INVARIANTS TypeOK ReturnedIsOneRebuild
PROPERTIES ReadReturns
