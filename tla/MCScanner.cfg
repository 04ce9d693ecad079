SPECIFICATION Spec
CONSTANTS
    Component = {c1, c2}
    Providers <- MCProviders
SYMMETRY Interchangeable
INVARIANTS
    FallbackExplained
    ResultTrue
    QuietTree
