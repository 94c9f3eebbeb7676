\* Two clients, one or two samples of either process, with and without peers.
CONSTANTS
    clients = 2
    clientNumber = 2
    Word = 64
    MaxPlays <- TwoAndOne
    MaxSamples = 2
SPECIFICATION Spec
INVARIANTS TypeOK ProvidedWithinRequested LoadBracketed NamesTheBest
PROPERTIES HitsWithinTotal
CHECK_DEADLOCK FALSE
