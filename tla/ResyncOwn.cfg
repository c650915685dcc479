SPECIFICATION FairSpec
CONSTANTS
    Peer = {"a", "b"}
    Event = {"a1"}
    NoEvent = "none"
    OriginOf <- MCOriginOf
    SequenceOf <- MCSequenceOf
    PreviousOf <- MCPreviousOf
    SignerOf <- MCOriginOf
    Needs <- MCNeeds
    SizeOf <- MCSizeOf
    Loop = {"a", "b"}
    PeerOf <- MCPeerOf
    ClusterLoop = {}
    Bootstrap <- Pair
    SameCluster <- Nobody
    Federated <- Everyone
    Pusher = {}
    Forgetful = {"a"}
    MAX_EVENTS_PER_FETCH = 1
    MAX_RESPONSE_BYTES = 2
    MAX_PEERS_PER_RESPONSE = 2
    MAX_TOTAL_KNOWN_PEERS = 3
    MaxFaults = 1
PROPERTIES
    ResyncRestoresOwnChain
