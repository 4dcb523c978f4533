SPECIFICATION FairSpec
CONSTANTS
    u1 = u1
    u2 = u2
    e1 = e1
    c1 = c1
    a1 = a1
    a2 = a2
    Users <- MCUsers
    Events <- MCEvents
    Settlements <- MCSettlements
    ManualCommands <- MCManualCommands
    Consumers <- MCConsumers
    Admins <- MCAdmins
    NoEvent = NoEvent
    MaxLong = 127
    MaxAttempts = 2
    MaxCopies = 1
    MaxFaults = 1
    MaxEntries = 2
PROPERTIES
    DeliveriesEnd
    TransactionsEnd
CHECK_DEADLOCK FALSE
