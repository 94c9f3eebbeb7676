\* Jumps of any length: the length left to play wraps below zero.
CONSTANTS
    Word = 128
    BlockSize = 4
    FileLen = 40
    JumpLength = {0, 4, 6, 20}
    Prob <- EveryStatus
    Scale = 10
SPECIFICATION Spec
INVARIANTS CursorChecked
CHECK_DEADLOCK FALSE
