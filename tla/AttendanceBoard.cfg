SPECIFICATION BoardSpec
CONSTANTS
    Boards = {"polls", "foundation_class"}
    MeetingOf <- OneMeeting
    Sides = {"all", "no", "elsewhere"}
    OthersMarks = {"yes", "none"}
    MaxCalls = 2
    MaxTurns = 2
    MaxMeets = 2
INVARIANTS
    CorrectionStays
    MarksHaveMeetings
PROPERTY FollowedUpUnselected
CHECK_DEADLOCK FALSE
