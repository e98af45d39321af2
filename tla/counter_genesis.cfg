\* One restart of the engine before it has noted its first block.
CONSTANTS
    Width = 2
    Blocks <- MCBlocks
    MaxHeight = 2
    MaxFaults = 1
    Readers = {}
    Short = Short
    Nil = Nil
SPECIFICATION CounterSpec
INVARIANT NilMeansNoState
CHECK_DEADLOCK FALSE
