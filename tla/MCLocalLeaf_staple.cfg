\* A context is made of a leaf that has been in use for a while.
CONSTANTS
    Host <- OnlySelfSignedRevoked
    Conn = {n1, n2}
    NoCert = NoCert
    OneDay = 2
    MaxDelay = 0
    MaxTime = 5
    MaxMade = 4
SYMMETRY Symmetry
SPECIFICATION Spec
CHECK_DEADLOCK FALSE
INVARIANT StapledRevoked
