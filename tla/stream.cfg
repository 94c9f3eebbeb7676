\* Heartbeats and updates of two clients, any recv, one restart.  Eight words
\* hold a heartbeat and an update; the third message of client 0 may be cut.
CONSTANTS
    Client = {0, 1}
    File = {1, 4, 6, 9}
    RequestList <- AnyVideo
    Seg = {0}
    Band = {40}
    blockSize = 10
    SockWords = 8
    MaxMessages <- ThreeAndOne
    MaxRuns = 2
SPECIFICATION Spec
INVARIANTS TypeOK NothingLost RowsWereTrue SafeConnection
PROPERTIES OwnRowsOnly
CHECK_DEADLOCK FALSE
