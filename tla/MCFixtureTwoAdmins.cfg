SPECIFICATION Spec
CONSTANTS
    m1 = m1
    u1 = u1
    u2 = u2
    l1 = l1
    l2 = l2
    g1 = g1
    g2 = g2
    a1 = a1
    a2 = a2
    Matches = {m1}
    Users = {u1, u2}
    Locks = {}
    Locked <- MCLocked
    Scores <- HomeWinOrDraw
    Null = Null
    Admins = {a1, a2}
    MaxCopies = 1
    MaxFaults = 0
    MaxEvents = 2
INVARIANTS
    OneEventPerMatch
CHECK_DEADLOCK FALSE
