\* Jumps of any length, one of which overflows, in a video that ends in a part
\* of a block.
CONSTANTS
    Word = 128
    BlockSize = 4
    FileLen = 42
    JumpLength = {0, 4, 6, 20, 100}
    Prob <- EveryStatus
    Scale = 10
SPECIFICATION FairSpec
INVARIANTS CursorWhole PlaysExisting
PROPERTIES PlayEnds
CHECK_DEADLOCK FALSE
