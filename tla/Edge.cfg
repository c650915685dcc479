SPECIFICATION EdgeSpec
CONSTANTS
    Key = {"k1", "k2", "k3"}
    WINDOW = 2
    MAX_REQUESTS_PER_WINDOW = 1
    SWEEP_THRESHOLD = 1
    MaxNow = 6
    MaxRequests = 4
    Call = {c1, c2, c3}
    Bootstrap = "boot"
    Grant = {{"graph:assert", "graph:retract-own"}}
    Tried = {"assert", "retract", "supersede"}
    MaxEvidence = 1
    MaxCrashes = 1
    LastLifetime = 2
    heartbeat_interval_seconds = 1
    trust_rebuild_seconds = 2
    announced_restart_grace_seconds = 2
    STALE_MULTIPLIER = 1
    MAX_CLOCK_SKEW_SECONDS = 1
    CLUSTER_MAX_CLOCK_SKEW_SECONDS = 1
    ClockOffset = {1}
    MaxTime = 5
    MaxMessages = 2
    MaxForked = 1
    Cluster = {"x", "y"}
    NoCluster = "none"
    ClaimOffset = {0, 1}
    MaxClaimTime = 3
    FrontCall = {"f1", "f2"}
    Peers = 3
    Sound = {1, 3}
    fanout_count = 0
    quorum_min_agree = 2
    ntp_tolerance_ms = 1
    ttl = 2
    HopError = 0
    WrongBy <- MCWrongBy
    Content = {"good", "bad"}
    TrueContent = "good"
    MaxGatewayTime = 3
SYMMETRY Callers
\* Clocks and calls are bounded: every part comes to an end.
CHECK_DEADLOCK FALSE
INVARIANTS
    SweepInvisible
    
    AnswersAreTrue
    RetractedByOwnerOrAdmin
    RevokedKeysOnlyFinish
    BootstrapOnce
    DepartedFade
    StaleClaimIsOld
    
PROPERTIES
    OnlyTheHeardGain
