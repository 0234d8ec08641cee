\* Calls, the seeder and the scripts on three accounts.
SPECIFICATION Spec
CONSTANTS
    admin = admin
    stray = stray
    resident = resident
    Persons <- MCPersons
    Newcomers <- MCNewcomers
    Provinces <- MCProvinces
    Roles <- MCRoles
    Lists <- MCLists
    Edits <- MCEdits
    RoleChoices <- MCRoleChoices
    Calls = {c1, c2}
    MaxCalls = 2
    MaxMishaps = 1
    Plan <- MCPlan
    SeedRole <- MCSeedRole
    SeedProvince <- MCSeedProvince
    Mocks <- MCNewcomers
    MockProvince = 2
    MaxRuns = 2
    FirstUsers <- MCFirstUsers
CHECK_DEADLOCK FALSE
SYMMETRY Slots
INVARIANTS
    EveryAccountHasRole
    SeedCompletes
PROPERTIES
    DeletedStaysAway
