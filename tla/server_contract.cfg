\* An engine that awaits Handshake, then calls from three goroutines at will.
CONSTANTS
    Callers = {g1, g2, g3}
    Heights <- MCHeights
    Implemented <- MCImplemented
    Declarations <- MCTwoDeclarations
    Methods <- StateMethods
    HandshakeFirst = TRUE
    AppMayPanic = TRUE
SPECIFICATION FairSpec
INVARIANT OutcomeWindow
PROPERTIES
    DocumentedEdges
    ImplementsContract
    EveryCallReturns
\* After a panic of the application every goroutine may wait for seqMu.
CHECK_DEADLOCK FALSE
