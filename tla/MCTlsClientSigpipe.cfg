CONSTANTS
    Fds = {3}
    MaxAddrs = 1
    HeaderLen = 1
    PayloadLen = 2
    reconnect_base_ms = 1
    reconnect_max_ms = 2
    reconnect_multiplier = 2
    MaxFailures = 1
    MaxFrames = 1
SPECIFICATION Spec
INVARIANT
    SurvivesLostConnection
