\* The body of an upload comes in after its answer.
CONSTANTS
    Wires <- UploadThenEcho
    Undefined = Undefined
SPECIFICATION Spec
CHECK_DEADLOCK FALSE
INVARIANT RequestEchoed
