SPECIFICATION FairSpec
CONSTANTS
    Jobs = {j1, j2}
    MaxEdits = 2
    MaxOutages = 1
INVARIANTS
    TypeOK
    ServesTheSheet
    GuardIsNotBehindThePrompt
PROPERTIES
    NeverServesOlder
    SheetIsServed
