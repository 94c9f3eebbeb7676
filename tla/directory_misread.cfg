\* A heartbeat and an update in one recv: the directory stays wrong.
CONSTANTS
    Client = {0, 1}
    File = {0, 1, 7}
    Sid = {0, 1}
    BitRate <- TwoRates
    RequestFile <- SameVideo
    BlockNum = 1
    ClientBand = 40
    ServerBand = 30
    SERVERID = 9
    MaxPlays <- TwoAndOne
    MaxQueue = 2
SPECIFICATION FairSpec
PROPERTIES DirectoryComplete
CHECK_DEADLOCK FALSE
