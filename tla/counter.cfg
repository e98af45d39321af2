\* Three blocks of a counter of two bits, three faults, one reader.
CONSTANTS
    Width = 2
    Blocks <- MCBlocks
    MaxHeight = 3
    MaxFaults = 3
    Readers = {r1}
    Short = Short
    Nil = Nil
SPECIFICATION CounterFairSpec
INVARIANTS
    CounterTypeOK
    CommittedIsChain
    RecordedIsChain
    ReplayAgrees
    QueryReadsCommitted
PROPERTY CatchesUp
\* The engine stops after MaxHeight blocks.
CHECK_DEADLOCK FALSE
