SPECIFICATION FairSpec
CONSTANTS
    MaxImages = 2
    Cap = 1
    Largest = 2
    MaxRedirects = 2
    MaxFirmware = 3
    MaxChunk = 2
INVARIANTS
    TreesWalked
    HopsChecked
    WholeImageParsed
    NothingLeft
    FailureAnswered
PROPERTIES
    RequestEnds
