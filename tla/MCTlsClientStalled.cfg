CONSTANTS
    Fds = {3, 4}
    MaxAddrs = 2
    HeaderLen = 2
    PayloadLen = 2
    reconnect_base_ms = 1
    reconnect_max_ms = 3
    reconnect_multiplier = 2
    MaxFailures = 2
    MaxFrames = 2
SPECIFICATION StalledSpec
PROPERTY
    StopEndsLoop
