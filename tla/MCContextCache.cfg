\* Expiry: certificates that expire, are renewed, stand in, or are expired on purpose.
CONSTANTS
    Host <- PlainAndExpired
    Conn = {n1, n2}
    Example = "example"
    Wildcard = "*"
    Dns = FALSE
    NoCert = NoCert
    MaxSize = 2
    OneDay = 3
    TempTtl = 1
    Life = 4
    LocalLife = 6
    MaxTime = 4
    MaxDelay = 1
SYMMETRY Symmetry
SPECIFICATION Spec
CHECK_DEADLOCK FALSE
INVARIANT TypeOK
INVARIANT HitsInDate
INVARIANT OneDayOld
INVARIANT RealCertPickedUp
