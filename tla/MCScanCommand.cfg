SPECIFICATION Spec
CONSTANTS
    Cve <- MCCve
    Length <- MCLength
    MaxChars = 5
    Matched <- MCMatched
    Published <- MCPublished
    NoScore = NoScore
    Catalog <- MCCatalog
    TopN = 2
    Writer = {"scan", "other"}
    OldDocument = "old"
    Self = "scan"
INVARIANTS
    OutcomeTold
    ReportLast
    TargetWhole
    EpssOfItsCve
    InventoryKept
    WorseFirst
