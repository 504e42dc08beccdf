\* One server under fairness: issuances and calls end.
CONSTANTS
    Server = {s1}
    Call = {c1, c2}
    Attempt = {a1, a2}
    NoCert = NoCert
    NoAttempt = NoAttempt
    NoServer = NoServer
    Options <- NormalOrRevoked
    Life = 3
    RefreshWindow = 2
    MaxTime = 1
    MaxDelay = 1
    MaxCalls = 3
    MaxFailures = 1
    MaxCrashes = 1
SPECIFICATION FairSpec
PROPERTY RenewalCompletes
PROPERTY CallsEnd
