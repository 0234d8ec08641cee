SPECIFICATION FairSpec
CONSTANTS
    s1 = s1  s2 = s2  t1 = t1  t2 = t2
    Sos = {s1}
    Teams = {t1, t2}
    Procs = {p1}
    Worker = worker
    NoSos = NoSos
    NoTeam = NoTeam
    Reach <- ReachAll
    Weight <- Weights
    NeedsEquipment <- CriticalOnly
    Mismatch <- Mismatches
    MaxCandidates = 2
    MaxRetry = 1
    EditStatuses <- OffDutyAndBack
    EditCases = {0}
    NewStatuses <- AnyStatus
    InitStatuses = {"STANDBY","OFF_DUTY"}
    MaxCalls = 2
    MaxQueue = 2
    MaxRestarts = 1
INVARIANTS TypeOK LoadMatchesStatus
PROPERTIES ClosedAtRestIsFinal NoRequestStarves
CHECK_DEADLOCK FALSE
