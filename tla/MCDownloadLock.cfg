SPECIFICATION FairLockSpec
CONSTANTS
    Callers = {c1, c2, c3}
    Files = {f1, f2}
    Entries = {e1, e2, e3}
    NoEntry = NoEntry
    NoFile = NoFile
INVARIANTS
    MutualExclusion
    RefsMatchCallers
    TokenIsConserved
PROPERTIES
    EveryCallerIsServed
