\* The end of a request comes in after its echo has started.
CONSTANTS
    Stream = {1, 3}
    MaxFrames = 3
    Wires <- SmallWires
    HeaderSize = 2
    PrefaceSize = 3
SPECIFICATION Spec
CHECK_DEADLOCK FALSE
INVARIANT WholeRequestEchoed
