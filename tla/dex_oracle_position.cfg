\* Proposals of another validator, with and without vote extensions.
CONSTANTS
    Accounts = {"a1", "a2"}
    Denoms <- MCDenoms
    utf8 <- MCutf8
    Width = 3
    MaxTxBytes = 100
    OracleEntrySize = 50
    MaxHeight = 1
    Mempools <- MCMempools
    VoteSets <- MCVoteSets
    ReceivedVoteSets <- MCReceivedVoteSets
    Proposals <- MCProposals
    SyncedChains = {}
    MaxImports = 0
    Malformed = Malformed
    NoState = NoState
SPECIFICATION DexSpec
INVARIANT OracleOnlyFirst
CHECK_DEADLOCK FALSE
