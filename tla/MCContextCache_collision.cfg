\* wrong-host with and without untrusted-root.
CONSTANTS
    Host <- BothWrong
    Conn = {n1, n2}
    Example = "example"
    Wildcard = "*"
    Dns = FALSE
    NoCert = NoCert
    MaxSize = 2
    OneDay = 3
    TempTtl = 1
    Life = 2
    LocalLife = 6
    MaxTime = 1
    MaxDelay = 1
SYMMETRY Symmetry
SPECIFICATION Spec
CHECK_DEADLOCK FALSE
INVARIANT UntrustedRootIsLocal
