SPECIFICATION QueueSpec
CONSTANTS
    Capacity = 3
    MaxItems = 7
INVARIANTS
    WindowIsNewest
    NewestSurvives
    NothingVanishes
    EveryDiscardIsReported
PROPERTY OfferReturns
CHECK_DEADLOCK FALSE
