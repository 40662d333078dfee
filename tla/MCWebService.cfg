SPECIFICATION Spec
CONSTANTS
    Required = {gcc}
    Optional = {gd}
    Hosts <- SomeHosts
    MaxAttempts = 2
    MaxOutput = 2
    Readers = {r1}
    ChannelSize = 2
    Lifetime = 2
    MaxSessions = 2
    MaxLogins = 5
    MaxTime = 5
    Fetchers = {v1, v2}
    CacheTime = 3
    FetchTimeout = 2
    Horizon = 8
    NoList = NoList
    Bundled = Bundled
INVARIANTS
    OneInstaller
    StreamInOrder
    SessionsAreKept
    ServedIsRecent
PROPERTIES
    ServerExits
CHECK_DEADLOCK FALSE
