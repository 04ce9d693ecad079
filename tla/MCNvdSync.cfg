SPECIFICATION Spec
CONSTANTS
    Names <- MCNames
    PageSize = 2
    MaxPages = 2
    Totals <- MCTotals
    NoTotal = NoTotal
    Limit = 2
    Interval = 2
    Timeout = 1
    Oversleep = 1
INVARIANTS
    PagesInOrder
    SyncBounded
PROPERTIES
    ImplementsRateLimit
