\* A session is let in for up to a second more than its lifetime.
SPECIFICATION Spec
CONSTANTS
    k1 = k1
    k2 = k2
    s1 = s1
    s2 = s2
    aki = aki
    ren = ren
    Conns = {k1}
    Users = {aki, ren}
    SessionIds = {s1, s2}
    SESSION_TTL = 1
    TicksPerSecond = 2
    MaxClock = 4
    MaxRequests = 2
    MaxUpdates = 1
PROPERTY ExpiredIsRefused
