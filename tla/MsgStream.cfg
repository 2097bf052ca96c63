SPECIFICATION FairSpec
CONSTANTS
    HeaderSize = 2
    MaxLen = 3
    Lengths <- BoundaryLengths
    MsgTypes = {127, 200}
    Registered = {127, 200}
    ReadSize = 4
    MaxMsgs = 3
CHECK_DEADLOCK FALSE
 
PROPERTIES ChannelSpec EveryMessageHandled
