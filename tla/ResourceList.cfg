SPECIFICATION Spec
CONSTANTS
    Pages = {"users", "roles", "departments", "programs", "courses", "batches", "tutors", "students", "companies", "placements", "tickets", "admissions"}
    MaxValues = 2
    MaxOpens = 2
    MaxCalls = 2
    MaxTurns = 1
    MaxFaults = 1
    MaxMissing = 1
INVARIANTS
    OwnEditsStand
    LockedInTime
CHECK_DEADLOCK FALSE
