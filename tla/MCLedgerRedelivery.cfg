SPECIFICATION Spec
CONSTANTS
    u1 = u1
    u2 = u2
    e1 = e1
    e2 = e2
    c1 = c1
    c2 = c2
    Users <- MCUsers
    Events <- MCEvents
    Settlements <- MCSettlements
    ManualCommands <- MCManualCommands
    Consumers <- MCConsumers
    Admins <- MCAdmins
    NoEvent = NoEvent
    MaxLong = 127
    MaxAttempts = 2
    MaxCopies = 2
    MaxFaults = 1
    MaxEntries = 0
SYMMETRY ThreadSymmetry
INVARIANTS
    TypeOK
    KeysUnique
    OneAccountPerOwner
    AckedFullySettled
    PlayersOweTheirLosses
CHECK_DEADLOCK FALSE
