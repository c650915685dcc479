SPECIFICATION Spec
CONSTANTS
    Peer = {"p", "q"}
    Self = "p"
    Contact = {}
    Event <- TaskEvent
    NoEvent = "none"
    Blank = "blank"
    OriginOf <- MCOriginOf
    SequenceOf <- MCSequenceOf
    PreviousOf <- MCPreviousOf
    SignerOf <- MCSignerOf
    PayloadOf <- MCPayloadOf
    Process = {"serve", "cli"}
    CommandLine = {"cli"}
    Task = {"s1", "s2", "cli"}
    ProcessOf <- MCProcessOf
    NoTask = "free"
INVARIANTS
    LockMatchesCommit
    SnapshotCurrent
PROPERTIES
    RevocationSticks
