\* The graph of one thread over unboundedly many turns; the tool-round cap is
\* lowered to 1 so that the cap and the bounce meet in few states.
SPECIFICATION Spec
CONSTANTS
    MaxToolRounds = 1
    RecursionLimit = 11
    AskWindow = 1
    Drafts <- MCDrafts
    CallLists <- MCCallLists
    Updates <- MCUpdates
    Objections = {so_sanh, gia_cao}
    SoSanh = so_sanh
    InitialStages <- MCInitialStages
    NoText = NoText
INVARIANTS
    TypeOK
    WithinRecursionLimit
    ObjectionStaysOnScript
    RepeatIsArguedOnlyOnceAHumanIsCalled
    EscalatedIffRowWritten
    FinalDraftVerified
PROPERTIES
    StageNeverStepsBack
    AskIsStamped
