SPECIFICATION FairSpec
CONSTANTS
    c1 = c1
    c2 = c2
    f1 = f1
    f2 = f2
    f3 = f3
    Callers = {c1, c2}
    Files = {f1, f2}
    Entries = {e1, e2}
    NoEntry = NoEntry
    NoFile = NoFile
    NoArchive = NoArchive
    Partial = Partial
    Anything = Anything
    NoCaller = NoCaller
    Sizes = {1}
    Hashes = {1, Anything}
    MaxBytes = 1
    CacheBytes = 1
PROPERTIES
    EveryFetchReturns
