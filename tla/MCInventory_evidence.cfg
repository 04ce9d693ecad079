SPECIFICATION MCSpec
CONSTANTS
    Word <- MCWord
    WordLess <- MCWordLess
    NoBound = NoBound
    KeyOf <- MCKeyOf
    NoKey = ""
    Priority <- MCPriority
    Vulnerable <- MCVulnerable
    NoVersion = NoVersion
    Detections <- MCDetections
    MaxDetections <- MCMaxDetections
    MaxRuns = 1
    MaxRangeRuns = 1
    MaxNumber = 2
    MaxDirs = 2
    Documents <- MCDocuments
    Lookup <- EmbaLookup
    Score <- EmbaScore
    Trees <- MCTrees
    MaxDepth = 3
    MaxCandidates = 2
    Folded <- MCKeyOf
    NoName = ""
    Origins = {"syft", "cve-bin-tool"}
    Native <- MCNative
    Reported <- MCReported
    SourceFindings <- MCFindings
    Missions <- MCMissions
    OtherWords = {"words"}
    Sayings <- MCSayings
    NoError = NoError
    Run <- MCRun
    SuspectLists <- MCSuspects
    MatchLists <- MCMatches
    Thresholds = {0, 1, 58, 60, 78, 100, 101}
    Listable <- Listed
    Inventories <- MCInventories
    CveRecords <- MCRecords
    RecordsFor <- MCRecordsFor
    BlankCve = ""
    MaxNative = 1
    MaxReported = 1
INVARIANTS
    EvidenceReported
