\* Every block is committed once the faults cease.
CONSTANTS
    Callers = {h1, h2, h3}
    QueryHandlers = {}
    NoHandler = NoHandler
    LostHandler = LostHandler
    Heights = {1, 2}
    Implemented <- MCImplemented
    Declarations <- MCDeclarations
    Methods <- MCLifecycleMethods
    HandshakeFirst = FALSE
    AppMayPanic = FALSE
    MaxHeight = 2
    MaxFaults = 2
SPECIFICATION LinkFairSpec
PROPERTY EveryBlockCommits
CHECK_DEADLOCK FALSE
