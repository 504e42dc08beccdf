\* Two hosts that share a leaf, over two days and more.
CONSTANTS
    Host <- OneLeafTwoContexts
    Conn = {n1, n2}
    NoCert = NoCert
    OneDay = 2
    MaxDelay = 1
    MaxTime = 5
    MaxMade = 4
SYMMETRY Symmetry
SPECIFICATION Spec
CHECK_DEADLOCK FALSE
INVARIANT CachedCanAnswer
INVARIANT StapledFirstDay
INVARIANT TwoDaysOld
