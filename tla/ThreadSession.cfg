SPECIFICATION FairSessionSpec
CONSTANTS
    MaxToolRounds = 1
    RecursionLimit = 11
    AskWindow = 2
    ResumeWindow = 2
    Drafts <- MCDrafts
    CallLists <- MCCallLists
    Updates <- MCUpdates
    Objections = {so_sanh}
    SoSanh = so_sanh
    InitialStages <- MCInitialStages
    NoText = NoText
INVARIANTS
    SessionTypeOK
    OwnedThreadIsParked
    OwnerWasCalledByThisTurn
PROPERTIES
    AsksOncePerWindow
    TimedOutThreadResumes
