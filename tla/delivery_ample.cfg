\* Two clients on one video, buffers of one block, bandwidth for every transfer.
CONSTANTS
    Client = {0, 1}
    File = {0, 1, 7}
    Sid = {0, 1}
    BitRate <- TwoRates
    RequestFile <- SameVideo
    BlockNum = 1
    ClientBand = 40
    ServerBand = 30
    SERVERID = 9
    MaxPlays <- ThreeAndOne
    MaxQueue = 2
SPECIFICATION Spec
INVARIANTS TypeOK DirectoryFollowsBuffer FetchOnce BufferBound BandLedger AccountingAgrees
PROPERTIES ServiceRefined
CHECK_DEADLOCK FALSE
