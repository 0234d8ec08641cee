\* Two runs of the script beside two calls of the role service.
SPECIFICATION AccessSpec
CONSTANTS
    r1 = r1
    r2 = r2
    c1 = c1
    c2 = c2
    New <- MCNew
    SeededAs <- MCSeededAs
    Made <- MCMade
    RoleIds <- MCRoleIds
    EditedIds <- MCEditedIds
    Runs = {r1, r2}
    RoleCalls = {c1, c2}
    MaxRoleCalls = 2
    RoleNames <- MCNames
CHECK_DEADLOCK FALSE
SYMMETRY Alike
INVARIANTS
    MatrixInForce
    EveryEndpointHasCaller
