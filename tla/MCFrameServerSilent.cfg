\* One client, which may stay connected and send nothing more.
CONSTANTS
    MaxConns = 1
    Seqs = {0, 1}
    HeaderLen = 2
    MaxPayload = 2
    save_frames = FALSE
    Streams <- MCStreams
SPECIFICATION SilentSpec
PROPERTY
    StopEndsServer
