SPECIFICATION FairSpec
CONSTANTS
    Timeouts = {0, 2}
    Settles <- MCSettles
    Grace = 2
    Service = {"httpd", "telnetd"}
    Junk = "junk"
    MaxNow = 12
INVARIANTS
    TelemetryTrue
    ContainerLeft
PROPERTIES
    TimeoutExplained
    EmulationEnds
