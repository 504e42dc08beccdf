\* The comment at local-ca.ts:452: calls after an outage.
CONSTANTS
    Server = {s1}
    NoCa = NoCa
    NoCert = NoCert
    Kinds = {"clientAuth"}
    Stored <- Nothing
    Life = 4
    ClientLife = 2
    Margin = 1
    MaxTime = 0
    MaxMade = 2
    MaxOutages = 1
    MaxCrashes = 0
SPECIFICATION Spec
PROPERTY FailureIsRetried
