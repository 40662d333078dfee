SPECIFICATION Spec
CONSTANTS
    c1 = c1
    c2 = c2
    f1 = f1
    f2 = f2
    f3 = f3
    Callers = {c1, c2}
    Files = {f1, f2, f3}
    Entries = {e1, e2}
    NoEntry = NoEntry
    NoFile = NoFile
    NoArchive = NoArchive
    Partial = Partial
    Anything = Anything
    NoCaller = NoCaller
    Sizes = {0, 2, 3}
    Hashes = {2, Anything}
    MaxBytes = 2
    CacheBytes = 2
INVARIANTS
    SourceTypeOK
    OneDownloadPerFile
    ArchiveStaysForCopy
    ServedIsVerified
PROPERTIES
    BudgetKept
    OldestGoFirst
SYMMETRY Symmetry
