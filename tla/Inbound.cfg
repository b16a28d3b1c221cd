SPECIFICATION FairSpec
CONSTANTS
    Users = {u1, u2}
    FirstUser = u1
    MaxMsgs = 3
    Writers <- MCWriters
    MaxPosts = 3
    MaxTime = 3
    MaxTroubles = 1
    PerMin = 1
    PerDay = 2
    Day = 2
    MaxWindows = 1
    Ttl = 3
    MaxSeen = 1
INVARIANTS
    TypeOK
    NothingIsSwallowed
PROPERTIES
    NoMessageTwice
    EveryMessageIsTaken
CHECK_DEADLOCK FALSE
