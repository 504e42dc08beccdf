\* Every host of up to two parts, and many of three and four; two requests at once on both
\* versions of HTTP; a session of up to three endpoints.
CONSTANTS
    Word <- Words
    Part <- SniParts
    Contribution <- Contributions
    Alpn <- AlpnPreferences
    PlainTextAllowed <- PlainTextParts
    FirstHosts <- Hosts
    MaxSniParts = 4
    MaxLength = 5
    MaxChainDepth = 2
    Request = {1, 2}
    HttpPaths <- SmallHttpPaths
    WsPaths <- SmallWsPaths
    MaxMessages = 2
    MaxRepeats = 3
SPECIFICATION FairSpec
CHECK_DEADLOCK FALSE
INVARIANT TypeOK
INVARIANT MergesAsASet
INVARIANT VersionsAsAsked
INVARIANT RedirectOnce
INVARIANT ServedOverOwnTls
INVARIANT AnswerOfChain
PROPERTY Answered
PROPERTY QuietAfterClose
PROPERTY IntervalsEnd
