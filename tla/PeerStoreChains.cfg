SPECIFICATION Spec
CONSTANTS
    Peer = {"p", "q"}
    Self = "p"
    Contact = {"q"}
    Event <- ChainEvent
    NoEvent = "none"
    Blank = "blank"
    OriginOf <- MCOriginOf
    SequenceOf <- MCSequenceOf
    PreviousOf <- MCPreviousOf
    SignerOf <- MCSignerOf
    PayloadOf <- MCPayloadOf
    Process = {"serve", "cli"}
    CommandLine = {"cli"}
    Task = {"s1", "cli"}
    ProcessOf <- MCProcessOf
    NoTask = "free"
INVARIANTS
    TypeOK
    ChainIntegrity
    OnlyAuthentic
    ForkEvidenceSound
PROPERTIES
    AppendOnly
    ImplementsOriginChains
