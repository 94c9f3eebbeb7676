\* Every strategy with a mutex; a reader and the alarm beside the owner.
CONSTANTS
    Strategy = {"LRU", "LFU", "DW", "LFRU"}
    BlockNum <- Sizes
    Block = {b1, b2, b3, b4, b5, b6}
    Reader = {r1}
    Period = 1
    Word = 64
    MaxWrites <- WriteBound
    MaxReads <- ReadBound
    MaxTime = 2
    MaxResets = 1
SPECIFICATION Spec
INVARIANTS ListExclusive
PROPERTIES RecentKept BufferRefined
SYMMETRY Symmetry
CHECK_DEADLOCK FALSE
