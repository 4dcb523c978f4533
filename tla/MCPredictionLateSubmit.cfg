SPECIFICATION Spec
CONSTANTS
    u1 = u1
    u2 = u2
    g1 = g1
    g2 = g2
    m1 = m1
    m2 = m2
    r1 = r1
    a1 = a1
    Users = {u1}
    Groups = {g1}
    Matches = {m1}
    Outcomes = {"HOME", "AWAY"}
    Null = Null
    Requests = {r1}
    Job = Job
    Admins = {}
    LockTimes = {1}
    MaxClock = 1
    MaxFaults = 0
PROPERTY LockedPicksStand
CHECK_DEADLOCK FALSE
