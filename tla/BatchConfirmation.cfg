SPECIFICATION Spec
CONSTANTS
    asha = asha
    bala = bala
    mail = mail
    weekday = weekday
    r1 = r1
    r2 = r2
    None = None
    Requests <- MCRequests
    Leads <- MCLeads
    Changing <- MCChanging
    Batches <- MCBatches
    Edited <- MCBatches
    Emails <- MCEmails
    Email <- MCEmail
    Capacity <- MCCapacity
    Capacities = {2}
    Minimum = 1
    MaxSeats = 2
    MaxAdmissions = 2
SYMMETRY Alike
INVARIANTS OneLiveSeatPerLead ConfirmedSeatIsEnrolled RosterLocked
PROPERTY WithinCapacity
CHECK_DEADLOCK FALSE
