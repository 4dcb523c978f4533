SPECIFICATION FairSpec
CONSTANTS
    u1 = u1
    u2 = u2
    g1 = g1
    g2 = g2
    m1 = m1
    r1 = r1
    a1 = a1
    c1 = c1
    Users = {u1}
    Groups = {g1}
    Matches = {m1}
    Predictable = {"HOME"}
    Scores <- HomeWin
    Stake = 1
    Null = Null
    Requests = {r1}
    Job = Job
    FixtureAdmins = {a1}
    Consumers = {c1}
    NoEvent = NoEvent
    LockTimes = {1, 2}
    ResultsAfterLock = TRUE
    MaxLong = 127
    MaxAttempts = 1
    MaxClock = 1
    MaxCopies = 2
    MaxEvents = 2
    MaxFaults = 1
INVARIANTS
    TypeOK
    DeadLettersKept
    ChargesAreAnnounced
    OneStakePerMatch
PROPERTIES
    ImplementsCommonPool
    PicksGetProjected
    LosersGetCharged
CHECK_DEADLOCK FALSE
