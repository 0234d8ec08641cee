SPECIFICATION Spec
CONSTANTS
    t1 = t1  t2 = t2  t3 = t3
    Teams = {t1, t2, t3}
    TypeOf <- Types
    Capacity <- Capacities
    Places = {2, 3}
    Settings <- SomeSettings
    Severity = "CRITICAL"
    DefaultMapping <- Flood
    MaxCandidates = 2
    Detours = {0, 2}
    Minutes = {3, 12}
    MaxChanges = 2
INVARIANTS NoneMeansNone NearestConsidered BetterTeamFirst SmallGapsStaySmall
CHECK_DEADLOCK FALSE
