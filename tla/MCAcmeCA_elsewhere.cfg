\* The comment at acme.ts:107.
CONSTANTS
    Server = {s1, s2}
    Call = {c1, c2}
    Attempt = {a1, a2}
    NoCert = NoCert
    NoAttempt = NoAttempt
    NoServer = NoServer
    Options <- Normal
    Life = 3
    RefreshWindow = 2
    MaxTime = 1
    MaxDelay = 1
    MaxCalls = 2
    MaxFailures = 0
    MaxCrashes = 0
SPECIFICATION Spec
PROPERTY PicksUpCertsIssuedElsewhere
