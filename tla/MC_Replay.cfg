SPECIFICATION FairSpec
CONSTANTS
    Types <- TwoTypes
    Size <- Sizes
    Capacity = 5
    Stamps = {1, 2}
    RecordBound = 2
INVARIANTS TypeOK LogHoldsAccepted AllValidDelivered
PROPERTIES TimeMovesOn ReplayEnds
