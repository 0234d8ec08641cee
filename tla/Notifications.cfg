SPECIFICATION Spec
CONSTANTS
    u1 = u1  u2 = u2  k1 = k1  k2 = k2  web = web  phone = phone
    Users = {u1, u2}
    Sockets = {k1, k2}
    Devices = {web, phone}
    Owner <- OwnerOf
    DeviceOf <- Kinds
    Overlaps = FALSE
    MaxMishaps = 1
    Notifs = {n1}
    Channels = {"APP", "SMS", "ZALO"}
    Templates <- AppOrOthers
    MaxRows = 2
    Urgent = {}
    Calls = {c1, c2}
    MaxAsks = 2
SYMMETRY CallSymmetry
INVARIANTS PresenceExact SentMeansTried NoOrphans SettledWhenQuiet
PROPERTIES ReadSticks NobodyElseDeletes PushSkippedOnlyIfThere
CHECK_DEADLOCK FALSE
