\* The comment at local-ca.ts:243: a server that runs for long.
CONSTANTS
    Server = {s1}
    NoCa = NoCa
    NoCert = NoCert
    Kinds = {"clientAuth"}
    Stored <- UsableForNow
    Life = 4
    ClientLife = 2
    Margin = 1
    MaxTime = 2
    MaxMade = 2
    MaxOutages = 0
    MaxCrashes = 0
SPECIFICATION Spec
INVARIANT NeverServesExpiredCa
