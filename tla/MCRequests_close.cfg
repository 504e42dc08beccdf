\* A code that may not be sent.
CONSTANTS
    Word <- Words
    Part <- SniParts
    Contribution <- Contributions
    Alpn <- AlpnPreferences
    PlainTextAllowed <- PlainTextParts
    FirstHosts <- NoPart
    MaxSniParts = 4
    MaxLength = 5
    MaxChainDepth = 2
    Request = {1}
    HttpPaths <- OneHttpPath
    WsPaths <- OneWsPath
    MaxMessages = 0
    MaxRepeats = 0
SPECIFICATION FairSpec
CHECK_DEADLOCK FALSE
INVARIANT ClosedAsSpecified
