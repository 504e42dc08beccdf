\* The comment at local-ca.ts:344: two servers renew at once.
CONSTANTS
    Server = {s1, s2}
    NoCa = NoCa
    NoCert = NoCert
    Kinds = {"clientAuth"}
    Stored <- CloseToExpiry
    Life = 4
    ClientLife = 2
    Margin = 1
    MaxTime = 0
    MaxMade = 2
    MaxOutages = 0
    MaxCrashes = 0
SPECIFICATION Spec
INVARIANT FleetConverges
