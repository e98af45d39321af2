\* Three blocks over a faulty link.
CONSTANTS
    Callers = {h1, h2, h3, q}
    QueryHandlers = {q}
    NoHandler = NoHandler
    LostHandler = LostHandler
    Heights = {1, 2, 3}
    Implemented <- MCImplemented
    Declarations <- MCDeclarations
    Methods <- MCMethods
    HandshakeFirst = FALSE
    AppMayPanic = FALSE
    MaxHeight = 3
    MaxFaults = 4
SPECIFICATION LinkSpec
SYMMETRY MCSymmetry
INVARIANTS
    LinkTypeOK
    AcknowledgedIsDurable
    GuardsAgreeOnExecuted
    SessionAgrees
    ClientGuardAdmits
    WrappersKeepToCaps
PROPERTY CommitsInOrder
CHECK_DEADLOCK FALSE
