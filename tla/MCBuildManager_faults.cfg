SPECIFICATION Spec
CONSTANTS
    Phases <- TwoPhases
    MaxBuilds = 2
    MaxConcurrentJobs = 2
    MaxQueuedJobs = 1
    MaxRetainedBuilds = 1
    MaxStops = 0
    MaxShutdowns = 1
    MaxFaulty = 1
INVARIANTS
    InactiveIsSettled
    EofMeansEnded
    EndIsRecorded
    UnfinishedIsActive
    ShutdownIsFinal
PROPERTIES
    PruneKeepsNewest
    TerminalIsFinal
