CONSTANTS
    Top = 2
    Low = 400
    Spacing = 40
    Mids <- TwoMids
    Lots = 1
    MayRefuse = FALSE
    FillQueueSize = 2
    OrderBound = 5
SPECIFICATION Spec
PROPERTIES FillsAnswered
