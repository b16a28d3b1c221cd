SPECIFICATION Spec
CONSTANTS
    MaxToolRounds = 1
    RecursionLimit = 11
    AskWindow = 1
    Drafts <- MCDrafts
    CallLists <- MCCallLists
    Updates <- MCUpdates
    Objections = {so_sanh, gia_cao}
    SoSanh = so_sanh
    InitialStages <- MCInitialStages
    NoText = NoText
INVARIANT
    NeverArguesAboutCompetitor
