SPECIFICATION MCSpec
CONSTANTS
    s1 = s1  s2 = s2  t1 = t1  t2 = t2  t3 = t3
    Sos = {s1, s2}
    Teams = {t1}
    Procs = {p1}
    Worker = worker
    NoSos = NoSos
    NoTeam = NoTeam
    Reach <- MCReach
    Weight <- MCWeight
    NeedsEquipment <- MCNeedsEquipment
    Mismatch <- MCMismatch
    MaxCandidates = 1
    MaxRetry = 0
    EditStatuses <- MCEdits
    EditCases = {}
    NewStatuses = {"ON_SITE", "RESOLVED"}
    InitStatuses = {"STANDBY"}
    MaxCalls = 1
    MaxQueue = 2
    MaxRestarts = 0
    Shown <- MCShown
    Dated <- MCDated
    MaxMissions = 1
    MaxAnswers = 1
    Crews = {t2, t3}
    MaxOps = 3
INVARIANTS OutcomesAddUp MissionsAreOnMap TimelineTellsLife
CHECK_DEADLOCK FALSE
