\* Two users, two servers, two paths, at most two granted rows.
CONSTANTS
    Users = {admin, alice}
    Admin = admin
    Servers = {srv1, srv2}
    Paths <- MCBranch
    Root <- MCRoot
    Covers <- MCCovers
    PathLength <- MCBranchLength
    GrantTokens <- MCGrantTokens
    MaxRows = 2
    NoRow = NoRow
SYMMETRY ServerSymmetry
SPECIFICATION Spec
INVARIANTS
    TypeOK
    RowsAreCached
    ChecksFollowRows
PROPERTY DeletedUserLosesAccess
