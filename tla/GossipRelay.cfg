SPECIFICATION FairSpec
CONSTANTS
    Peer = {"a", "b", "c"}
    Event = {"a1", "a2", "b1"}
    NoEvent = "none"
    OriginOf <- MCOriginOf
    SequenceOf <- MCSequenceOf
    PreviousOf <- MCPreviousOf
    SignerOf <- MCOriginOf
    Needs <- MCNeeds
    SizeOf <- MCSizeOf
    Loop = {"b", "c"}
    PeerOf <- MCPeerOf
    ClusterLoop = {}
    Bootstrap <- Line
    SameCluster <- Nobody
    Federated <- Everyone
    Pusher = {}
    Forgetful = {"c"}
    MAX_EVENTS_PER_FETCH = 1
    MAX_RESPONSE_BYTES = 2
    MAX_PEERS_PER_RESPONSE = 2
    MAX_TOTAL_KNOWN_PEERS = 3
    MaxFaults = 2

    
PROPERTIES
    EventsReachEveryone
