SPECIFICATION Spec
CONSTANTS
    n1 = n1  n2 = n2  n3 = n3  n4 = n4  m1 = m1  m2 = m2
    Clients = {m1, m2}
    Places <- Corners
    Areas <- Pools
    MaxAvoid = 2
    Order <- Square
    At <- Positions
    Ends <- Roads
    Length <- Kilometres
    Shape <- Bends
    Services = {"", "DIJKSTRA", "TOMTOM", "ORS"}
    DailyLimit = 1
    MaxAsks = 2
    MaxStarts = 2
SYMMETRY ClientSymmetry
INVARIANTS KeepsOff DijkstraExact RefusedMeansCutOff QuotaKept
CHECK_DEADLOCK FALSE
