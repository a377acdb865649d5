SPECIFICATION PopupSpec
CONSTANTS
    Fee = 2
    Figures = {1, 2}
    Targets = {"token_amount", "lost"}
    MaxCalls = 2
    MaxOthers = 1
    MaxDrafts = 2
INVARIANTS
    
    RefusedOnlyIfStale
    SavingIsUnderWay
CHECK_DEADLOCK FALSE
