\* A listing through a handle that was opened before a revocation.
CONSTANTS
    Agents = {srv1}
    Requests = {r1}
    Paths <- MCPaths
    RootPath <- MCRoot
    File = "/f"
    Profiles <- MCProfiles
    MaxHandles = 1
    MaxCounter = 1
    NoServer = NoServer
SPECIFICATION Spec
PROPERTY ListingPermitted
