SPECIFICATION Spec
CONSTANTS
    Users <- MCUsers
    PanelSize = 1
    PageSize = 2
    MaxNotes = 2
    MaxCalls = 1
    Selecting = {"page"}
    Others = {1}
    Sent <- MCSent

    
PROPERTIES
    NeverTurnedAway
CHECK_DEADLOCK FALSE
