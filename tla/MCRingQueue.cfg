\* Two consumers, any timeout, a ring of two slots that wraps around twice.
CONSTANTS
    capacity = 2
    max_frame_size = 1
    Consumers = {c1, c2}
    TimeoutKinds = {"infinite", "nowait", "timed"}
    MaxFrames = 4
SPECIFICATION FairSpec
INVARIANTS
    HeldFramesIntact
    QueueInOrder
    FramesAccounted
    SlotsBound
    NoLostWakeup
PROPERTIES
    InOrderDelivery
    ImplementsChannel
    ShutdownEndsWaits
    TimedPopReturns
    PushReturns
