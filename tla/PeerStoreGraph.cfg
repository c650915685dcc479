SPECIFICATION Spec
CONSTANTS
    Peer = {"p", "q"}
    Self = "p"
    Contact = {}
    Event <- GraphEvent
    NoEvent = "none"
    Blank = "blank"
    OriginOf <- MCOriginOf
    SequenceOf <- MCSequenceOf
    PreviousOf <- MCPreviousOf
    SignerOf <- MCSignerOf
    PayloadOf <- MCPayloadOf
    Process = {"serve", "cli"}
    CommandLine = {"cli"}
    Task = {"s1", "cli"}
    ProcessOf <- MCProcessOf
    NoTask = "free"
INVARIANTS
    ProjectionIsReplay
    RedactedStaysBlank
    
    HistoryResolves
