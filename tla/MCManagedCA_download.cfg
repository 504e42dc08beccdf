\* The comment at local-ca.ts:442: a renewal, and an old client certificate.
CONSTANTS
    Server = {s1, s2}
    NoCa = NoCa
    NoCert = NoCert
    Kinds = {"clientAuth"}
    Stored <- UsableForNow
    Life = 4
    ClientLife = 2
    Margin = 1
    MaxTime = 1
    MaxMade = 2
    MaxOutages = 0
    MaxCrashes = 0
SPECIFICATION Spec
INVARIANT DownloadedCertsKeepWorking
