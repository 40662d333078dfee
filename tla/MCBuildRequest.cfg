SPECIFICATION Spec
CONSTANTS
    Requests <- SomeRequests
    Host = Host
    Lists <- SomeLists
    Releases <- SomeReleases
    NoVersion = NoVersion
INVARIANTS PreviewIsBuilt BuildableArgs
