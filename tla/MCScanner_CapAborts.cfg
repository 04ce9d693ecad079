SPECIFICATION Spec
CONSTANTS
    Component = {c1}
    Providers <- OneProvider
INVARIANTS
    CapAborts
