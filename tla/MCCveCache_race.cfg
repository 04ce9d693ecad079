SPECIFICATION Spec
CONSTANTS
    Cve = {"A", "B"}
    Cpe <- MCCpe
    Component <- MCComponent
    ProductOf <- MCProductOf
    Mentions <- MCMentions
    NoProduct = NoProduct
    NoBound = NoBound
    Versions <- MCVersions
    Ranges <- MCRanges
    Score = {5, 9}
    Covers <- MCCovers
    MaxPages = 2
    Blank <- MCBlank
    Names <- OneName
    Process = {p1, p2}
    History <- SmallHistory
    FirstFile <- FreshFile
PROPERTIES
    RowsKept
