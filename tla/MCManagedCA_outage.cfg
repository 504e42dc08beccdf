\* The comment at cert-cache.ts:50: an outage during boot.
CONSTANTS
    Server = {s1}
    NoCa = NoCa
    NoCert = NoCert
    Kinds = {"intermediate"}
    Stored <- Nothing
    Life = 4
    ClientLife = 2
    Margin = 1
    MaxTime = 0
    MaxMade = 2
    MaxOutages = 1
    MaxCrashes = 0
SPECIFICATION Spec
PROPERTY BootSurvivesOutage
