SPECIFICATION FairSpec
CONSTANTS
    Phases <- OnePhase
    MaxBuilds = 2
    MaxConcurrentJobs = 1
    MaxQueuedJobs = 1
    MaxRetainedBuilds = 1
    MaxStops = 0
    MaxShutdowns = 1
    MaxFaulty = 0
PROPERTIES
    EveryJobEnds
    ShutdownDrains
