SPECIFICATION TableSpec
CONSTANTS
    Boards = {"foundation", "induction"}
    Scopes = {"any", "fe"}
    SectionOf <- MCSectionOf
    Linked = {1}
    Marks = {"yes", "no"}
    PageSize = 1
    CanCreate = TRUE
    CanDelete = TRUE
    SectionChoices = {"fe"}
    StageChoices = {"lost", "quit"}
    MarkChoices = {"yes"}
    StartMarks = {"no"}
    Edited = {2}
    Later = {2}
    Others = {1}
    MaxViews = 2
    MaxCalls = 2
INVARIANTS NoEmptyPage  InductionCardsAgree
CHECK_DEADLOCK FALSE
