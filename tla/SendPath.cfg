SPECIFICATION Spec
CONSTANTS
    HeaderSize = 2
    BodySizes = {0, 1, 2}
    MaxMsgs = 3
INVARIANTS TypeOK PendingBufferLive WireInOrder FramesWhole
CHECK_DEADLOCK FALSE
