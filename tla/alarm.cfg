\* Two clients register, write and are read while one or two threads count.
CONSTANTS
    Client = {c1, c2}
    Period = 3
    Word = 8
    BlockNum = 2
    MaxWrites = 3
    MaxReads = 1
SPECIFICATION FairSpec
INVARIANTS NeverSkipped
PROPERTIES KeepsPeriod EveryPeriod
