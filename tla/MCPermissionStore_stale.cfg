\* A grant on a deleted agent survives in the cache.
CONSTANTS
    Users = {admin, alice}
    Admin = admin
    Servers = {srv1, srv2}
    Paths <- MCPaths
    Root <- MCRoot
    Covers <- MCCovers
    PathLength <- MCPathLength
    GrantTokens <- MCGrantTokens
    MaxRows = 1
    NoRow = NoRow
SPECIFICATION Spec
INVARIANT ChecksMatchTable
