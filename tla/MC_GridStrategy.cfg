CONSTANTS
    Top = 2
    Low = 400
    Spacing = 40
    Mids = {421}
    Lots = 2
    MayRefuse = FALSE
    FillQueueSize = 1
    OrderBound = 5
SPECIFICATION Spec
INVARIANTS TypeOK SlotsMatchOrders AnsweredOnce AnswersFollowFills
PROPERTIES ForgottenForAReason
