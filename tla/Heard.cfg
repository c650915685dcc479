SPECIFICATION PresenceSpec
CONSTANTS
    LastLifetime = 2
    heartbeat_interval_seconds = 1
    trust_rebuild_seconds = 2
    announced_restart_grace_seconds = 2
    STALE_MULTIPLIER = 1
    MAX_CLOCK_SKEW_SECONDS = 1
    ClockOffset = {0}
    MaxTime = 5
    MaxMessages = 2
    MaxForked = 1
CHECK_DEADLOCK FALSE
INVARIANT HeardIsAccepted
