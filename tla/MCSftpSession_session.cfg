\* One server, two concurrent calls, one handle at a time of two; liveness, so no symmetry.
CONSTANTS
    Agents = {srv1}
    Requests = {r1, r2}
    Paths <- MCPaths
    RootPath <- MCRoot
    File = "/f"
    Profiles <- MCProfiles
    MaxHandles = 1
    MaxCounter = 2
    NoServer = NoServer
SPECIFICATION FairSpec
INVARIANTS
    TypeOK
    AwaitingIsWaiting
    HandleQuota
    FileHandlesAreOnline
    OneListingPerHandle
PROPERTIES
    FileAccessPermitted
    DropIsReported
    AcknowledgedByAgent
    EveryCallAnswered
