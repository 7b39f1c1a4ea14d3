CONSTANTS
    capacity = 2
    MaxFrames = 4
    Fds = {3}
    MaxAddrs = 1
    HeaderLen = 1
    PayloadLen = 1
    reconnect_base_ms = 1
    reconnect_max_ms = 1
    reconnect_multiplier = 1
    MaxFailures = 0
SPECIFICATION ProgFairSpec
INVARIANTS
    NoUseAfterDelete
    PacketFreed
    StreamInOrder
PROPERTIES
    CaptureNeverBlocks
    ShutdownCompletes
