\* Any engine: three goroutines, any call at any time, and an application
\* that may fail or panic in every call.
CONSTANTS
    Callers = {g1, g2, g3}
    Heights <- MCHeights
    Implemented <- MCImplemented
    Declarations <- MCDeclarations
    Methods <- ProbedMethods
    HandshakeFirst = FALSE
    AppMayPanic = TRUE
SPECIFICATION Spec
SYMMETRY Symmetry
INVARIANTS
    TypeOK
    SeqExclusion
    CommitPersistsReturnedOutcome
    HandshakeOnce
    DispatchAfterHandshake
PROPERTIES
    CapsSettled
    PanicIsFinal
\* After a panic of the application every goroutine may wait for seqMu.
CHECK_DEADLOCK FALSE
