CONSTANTS
    capacity = 2
    max_frame_size = 1
    Consumers = {c1}
    TimeoutKinds = {"timed"}
    MaxFrames = 3
SPECIFICATION Spec
INVARIANT
    NewestFrameKept
