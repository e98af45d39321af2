\* Two goroutines, one in Handshake and one in ExecuteBlock.
CONSTANTS
    Callers = {g1, g2}
    Heights = {1}
    Implemented <- MCImplemented
    Declarations <- MCDeclarations
    Methods <- SequentialMethods
    HandshakeFirst = FALSE
    AppMayPanic = FALSE
SPECIFICATION Spec
INVARIANT ExecuteAwaitsHandshake
