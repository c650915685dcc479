SPECIFICATION WaitsSpec
CONSTANTS
    Directory = {"site", "bare", "wide", "heavy", "empty"}
    FilesOf <- MCFilesOf
    BytesOf <- MCBytesOf
    LargeFile <- MCLargeFile
    Element <- MCElement
    Src <- MCSrc
    Href <- MCHref
    NoReference = NoReference
    Typo = {"typo"}
    NotACid = {"no.cid"}
    NoAddress = NoAddress
    LowerCase <- MCLowerCase
    DhtFindsProvider = TRUE
    MAX_HOST_PAGE_FILE_COUNT = 4
    MAX_HOST_PAGE_TOTAL_BYTES = 8
    MaxRestarts = 2
    MaxOpens = 2
    Peer = {"a", "b", "c", "d", "me"}
    Client = "me"
    relay_peers <- MCRelayPeers
    Pinned = {"d"}
    MaxHops = 3
    MaxFaults = 2
    MaxFetches = 2
    Origins <- MCOrigins
    TwoPackets = {2, 3, 4}
    MaxLost = 2
    MaxRefused = 1
\* A sync and a fetch come to an end and nothing follows.
CHECK_DEADLOCK FALSE
INVARIANTS
    WalkExact
    
    ReceiptsAreMutual
    RelaysAreBacked
    NeverCircles
    LagsByTimeouts
    
PROPERTIES
    EndIsFinal
    LoadEnds
    FetchEnds
    SessionEnds
