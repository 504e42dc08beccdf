\* Two servers, all options: expiry, races, failures, a crash.
CONSTANTS
    Server = {s1, s2}
    Call = {c1, c2}
    Attempt = {a1, a2}
    NoCert = NoCert
    NoAttempt = NoAttempt
    NoServer = NoServer
    Options <- AnyOptions
    Life = 3
    RefreshWindow = 2
    MaxTime = 2
    MaxDelay = 1
    MaxCalls = 3
    MaxFailures = 1
    MaxCrashes = 1
SPECIFICATION Spec
SYMMETRY Symmetry
INVARIANT PendingIsLive
INVARIANT WaitersOnLiveAttempt
INVARIANT SingleFlight
INVARIANT RevokedBeforeUse
PROPERTY NoExpiredAnswer
