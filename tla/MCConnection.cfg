\* Every header before every protocol; three requests of clients that wait for answers or not;
\* two streams and five frames; all cut into segments in every way.
CONSTANTS
    Headers <- SmallHeaders
    Payloads <- SmallPayloads
    V1MaxLength = 7
    HeaderCap = 9
    MaxRequests = 3
    RawWires <- SmallRawWires
    Undefined = Undefined
    Stream = {1, 3}
    MaxFrames = 5
    Wires <- SmallWires
    HeaderSize = 2
    PrefaceSize = 3
SPECIFICATION ConnectionSpec
CHECK_DEADLOCK FALSE
INVARIANT ConnectionTypeOK
INVARIANT NothingLostOrAdded
INVARIANT HandlerOfWhole
INVARIANT DecidedInTime
INVARIANT PipelinedRefused
INVARIANT OwnBytesEchoed
INVARIANT EachFrameOnceInOrder
INVARIANT OthersHoldNothing
