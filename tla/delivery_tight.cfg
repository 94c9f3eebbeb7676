\* Bandwidth that runs out: client leases and server ticks end in exit(1).
CONSTANTS
    Client = {0, 1}
    File = {0, 1, 7}
    Sid = {0, 1}
    BitRate <- TwoRates
    RequestFile <- FirstVideo
    BlockNum = 1
    ClientBand = 18
    ServerBand = 20
    SERVERID = 9
    MaxPlays <- TwoEach
    MaxQueue = 2
SPECIFICATION Spec
INVARIANTS BandLedger
PROPERTIES ExitsWhenShort
CHECK_DEADLOCK FALSE
