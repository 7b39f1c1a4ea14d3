\* Two addresses, two descriptors, frames of two bytes of header and two of
\* payload, a delay that is capped at its third step.
CONSTANTS
    Fds = {3, 4}
    MaxAddrs = 2
    HeaderLen = 2
    PayloadLen = 2
    reconnect_base_ms = 1
    reconnect_max_ms = 5
    reconnect_multiplier = 2
    MaxFailures = 3
    MaxFrames = 4
SPECIFICATION FairSpec
INVARIANTS
    ResourcesOwned
    ConnectedUsable
    WellFramed
    BackoffSchedule
    OneFrameAfterStop
PROPERTIES
    StopEndsLoop
    ReconnectsEventually
