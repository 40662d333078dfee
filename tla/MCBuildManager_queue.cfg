SPECIFICATION Spec
CONSTANTS
    Phases <- OnePhase
    MaxBuilds = 3
    MaxConcurrentJobs = 1
    MaxQueuedJobs = 1
    MaxRetainedBuilds = 1
    MaxStops = 0
    MaxShutdowns = 0
    MaxFaulty = 0
INVARIANTS
    AdmissionBound
    SlotsMatchWorkers
