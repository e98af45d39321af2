\* One deadline, and its handler after the retry has been committed.
CONSTANTS
    Callers = {h1, h2, h3}
    QueryHandlers = {}
    NoHandler = NoHandler
    LostHandler = LostHandler
    Heights = {1, 2}
    Implemented <- MCImplemented
    Declarations <- MCDeclarations
    Methods <- MCLifecycleMethods
    HandshakeFirst = FALSE
    AppMayPanic = FALSE
    MaxHeight = 2
    MaxFaults = 1
SPECIFICATION LinkSpec
INVARIANT NoReexecution
CHECK_DEADLOCK FALSE
