CONSTANTS
    MaxConns = 2
    Seqs = {0, 1}
    HeaderLen = 2
    MaxPayload = 2
    save_frames = TRUE
    Streams <- MCStreams
SPECIFICATION FairSpec
INVARIANTS
    TypeOK
    FilesWhole
    FramesCounted
    ServerResources
PROPERTIES
    StopEndsServer
    BacklogServed
