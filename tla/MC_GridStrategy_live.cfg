CONSTANTS
    Top = 1
    Low = 400
    Spacing = 40
    Mids <- TwoMids
    Lots = 1
    MayRefuse = TRUE
    FillQueueSize = 1
    OrderBound = 3
SPECIFICATION FairSpec
INVARIANTS CountersAgree
PROPERTIES StaleOrdersLetGo
