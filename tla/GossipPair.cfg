SPECIFICATION FairSpec
CONSTANTS
    Peer = {"a", "b"}
    Event = {"a1", "a2", "b1"}
    NoEvent = "none"
    OriginOf <- MCOriginOf
    SequenceOf <- MCSequenceOf
    PreviousOf <- MCPreviousOf
    SignerOf <- MCOriginOf
    Needs <- MCNeeds
    SizeOf <- MCSizeOf
    Loop = {"a", "b", "B"}
    PeerOf <- MCPeerOf
    ClusterLoop = {"B"}
    Bootstrap <- Pair
    SameCluster <- Everyone
    Federated <- Nobody
    Pusher = {"a"}
    Forgetful = {}
    MAX_EVENTS_PER_FETCH = 2
    MAX_RESPONSE_BYTES = 4
    MAX_PEERS_PER_RESPONSE = 2
    MAX_TOTAL_KNOWN_PEERS = 3
    MaxFaults = 1
INVARIANTS
    
    HonestNeverAccused
    CaughtUpHoldsAll
PROPERTIES
    PeersAreOriginChains
