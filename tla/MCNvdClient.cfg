SPECIFICATION Spec
CONSTANTS
    Lookup <- MCLookup
    Key <- MCKey
    KeyOf <- MCKeyOf
    Records <- MCRecords
    NvdAnswers <- MCNvdAnswers
    MockAnswer <- MCMockAnswer
    Limit = 2
    Interval = 2
    Timeout = 2
    Oversleep = 1
    NoTime = NoTime
    MaxRequests = 3
    MaxIdle = 4
INVARIANTS
    RepeatedCostsNothing
    AnswersAreForTheirKey
PROPERTIES
    ImplementsRateLimit
CHECK_DEADLOCK FALSE
