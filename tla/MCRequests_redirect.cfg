\* Four parts, some of them local-only, leave no room for untrusted-root.
CONSTANTS
    Word <- Words
    Part <- SniParts
    Contribution <- Contributions
    Alpn <- AlpnPreferences
    PlainTextAllowed <- PlainTextParts
    FirstHosts <- FourParts
    MaxSniParts = 4
    MaxLength = 5
    MaxChainDepth = 2
    Request = {1}
    HttpPaths <- OneHttpPath
    WsPaths <- OneWsPath
    MaxMessages = 0
    MaxRepeats = 0
SPECIFICATION FairSpec
CHECK_DEADLOCK FALSE
INVARIANT RedirectsToServable
