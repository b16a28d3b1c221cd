SPECIFICATION Spec
CONSTANTS
    NoId = "no id"
    NoText = "no text"
    ShortAliases <- MCShortAliases
    Sheets <- MCSheets
    Drafts <- MCDrafts
INVARIANTS
    QuotesTheNamedCourse
    HonestReplyPasses
    RowsAreServedOrRecorded
