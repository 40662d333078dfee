SPECIFICATION Spec
CONSTANTS
    Readers = {r1, r2}
    MaxWrites = 3
    ChunkSizes = {1, 2}
    MaxLogBytes = 3
    NoticeSize = 1
    ReadSlack = 2
    ChannelSize = 1
INVARIANTS
    StreamMatchesFile
    EofMeansComplete
    FileIsBounded
    NoPanic
PROPERTIES
    ClosedLogEnds
CHECK_DEADLOCK FALSE
