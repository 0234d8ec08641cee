SPECIFICATION PSpec
CONSTANTS
    u1 = u1  u2 = u2  k1 = k1  k2 = k2  web = web  phone = phone
    Users = {u1, u2}
    Sockets = {k1, k2}
    Devices = {web, phone}
    Owner <- OwnerOf
    DeviceOf <- Kinds
    Overlaps = TRUE
    MaxMishaps = 0
INVARIANT OfflineMeansGone
CHECK_DEADLOCK FALSE
