\* Five requests, any split of any message, either process ending anywhere.
CONSTANTS
    Word = 16
    MaxRequests = 5
SPECIFICATION FairSpec
INVARIANTS TypeOK SentIsOffset
PROPERTIES SlotsImplemented Answered ThreadEnds
CHECK_DEADLOCK FALSE
