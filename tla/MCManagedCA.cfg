\* Both CAs on two servers, whatever is stored at first.
CONSTANTS
    Server = {s1, s2}
    NoCa = NoCa
    NoCert = NoCert
    Kinds = {"intermediate", "clientAuth"}
    Stored <- AnyRecord
    Life = 4
    ClientLife = 2
    Margin = 1
    MaxTime = 2
    MaxMade = 7
    MaxOutages = 1
    MaxCrashes = 1
SPECIFICATION FairSpec
INVARIANT Converged
INVARIANT ClientCertsAccepted
PROPERTY ServesPersistedUsableCa
PROPERTY ImplementsFleetCA
PROPERTY ClientCertCallsEnd
