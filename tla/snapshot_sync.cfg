\* Two blocks, snapshots of two chunks, a handler left behind beside the new one.
CONSTANTS
    MaxHeight = 2
    NChunks = 2
    Handlers = {h1, h2}
    PeerFormats = {1, 2}
    snapshotFormat = 1
    MaxFaults = 2
    NoHandler = NoHandler
SPECIFICATION SyncFairSpec
INVARIANTS
    SyncTypeOK
    InstalledIsCommitted
    AckedIsInstalled
    ExportInOrder
PROPERTIES
    SyncCompletes
    AttemptEnds
\* The engine stops when the import is acknowledged.
CHECK_DEADLOCK FALSE
