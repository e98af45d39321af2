\* Two accounts, five denominations, two of them no UTF-8, amounts of three bits, blocks of two transactions.
CONSTANTS
    Accounts = {"a1", "a2"}
    Denoms <- MCDenoms
    utf8 <- MCutf8
    Width = 3
    MaxTxBytes = 100
    OracleEntrySize = 50
    MaxHeight = 3
    Mempools <- MCMempools
    VoteSets <- MCVoteSets
    ReceivedVoteSets <- MCReceivedVoteSets
    Proposals <- MCProposals
    SyncedChains <- MCSyncedChains
    MaxImports = 1
    Malformed = Malformed
    NoState = NoState
SPECIFICATION DexSpec
INVARIANTS
    GateAgrees
    DexTypeOK
    FundsConserved
    HandshakeAgrees
    NoNilWrite
    OwnProposalAccepted
    MedianOfReports
    OwnExtensionAccepted
\* The engine stops after MaxHeight blocks.
CHECK_DEADLOCK FALSE
