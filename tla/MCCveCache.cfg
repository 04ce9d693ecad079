SPECIFICATION Spec
CONSTANTS
    Cve = {"A", "B"}
    Cpe <- MCCpe
    Component <- MCComponent
    ProductOf <- MCProductOf
    Mentions <- MCMentions
    NoProduct = NoProduct
    NoBound = NoBound
    Versions <- MCVersions
    Ranges <- MCRanges
    Score = {5, 9}
    Covers <- MCCovers
    MaxPages = 2
    Blank <- MCBlank
    Names <- MCNames
    Process = {p1}
    History <- MCHistory
    FirstFile <- AnyFile
INVARIANTS
    CleanSyncComplete
    TableFound
    LookupSound
PROPERTIES
    ImplementsStore
