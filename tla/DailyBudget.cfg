SPECIFICATION FairSpec
CONSTANTS
    u1 = u1
    u2 = u2
    Users <- MCUsers
    MaxMsgs = 3
    Blank <- MCBlank
    MaxBuffers = 1
    MaxConcurrent = 1
    DailyBudget = 2
    TurnCost = 1
PROPERTY
    DegradesForToday
