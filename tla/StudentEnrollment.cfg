SPECIFICATION Spec
CONSTANTS
    mail = mail
    batch20 = batch20
    noBatch = noBatch
    None = None
    Labels <- MCLabels
    Emails <- MCEmails
    Processes = {p1, p2}
    Leads <- MCTwoLeads
    MaxChanges = 2
SYMMETRY Interchangeable
INVARIANT InLineWithLeads
PROPERTIES SyncedOnceIsEnough CompletedStaysCompleted
