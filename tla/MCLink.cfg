CONSTANTS
    Fds = {3}
    MaxAddrs = 1
    HeaderLen = 1
    PayloadLen = 2
    reconnect_base_ms = 1
    reconnect_max_ms = 1
    reconnect_multiplier = 1
    MaxFailures = 0
    MaxFrames = 2
    MaxConns = 2
    MaxPayload = 2
    save_frames = TRUE
SPECIFICATION LinkFairSpec
INVARIANTS
    NoProtocolError
    ReceivedWasSent
    ReceivedInOrder
PROPERTY
    HandshakeAnswered
CHECK_DEADLOCK FALSE
