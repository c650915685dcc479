SPECIFICATION FairSpec
CONSTANTS
    Peer = {"a", "b"}
    Event = {"a1", "a2"}
    NoEvent = "none"
    OriginOf <- MCOriginOf
    SequenceOf <- MCSequenceOf
    PreviousOf <- MCPreviousOf
    SignerOf <- MCOriginOf
    Needs <- MCNeeds
    SizeOf <- MCSizeOf
    Loop = {"b"}
    PeerOf <- MCPeerOf
    ClusterLoop = {}
    Bootstrap <- Line
    SameCluster <- Nobody
    Federated <- Everyone
    Pusher = {}
    Forgetful = {}
    MAX_EVENTS_PER_FETCH = 2
    MAX_RESPONSE_BYTES = 3
    MAX_PEERS_PER_RESPONSE = 2
    MAX_TOTAL_KNOWN_PEERS = 3
    MaxFaults = 0
PROPERTIES
    EventsReachEveryone
