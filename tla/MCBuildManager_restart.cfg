SPECIFICATION Spec
CONSTANTS
    Phases <- OnePhase
    MaxBuilds = 2
    MaxConcurrentJobs = 2
    MaxQueuedJobs = 1
    MaxRetainedBuilds = 1
    MaxStops = 1
    MaxShutdowns = 0
    MaxFaulty = 1
INVARIANTS
    TypeOK
    CompletedHasArtifact
    AckedCancelStays
    RetentionBound
PROPERTIES
    RecordNeverRegresses
    ImplementsService
