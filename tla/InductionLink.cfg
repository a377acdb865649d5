SPECIFICATION Spec
CONSTANTS
    n1 = n1
    g1 = g1
    g2 = g2
    None = None
    Requests = {r1}
    Numbers <- MCNumbers
    Groups <- MCGroups
    MaxLeads = 2
    MaxEntries = 2
    MaxEdits = 1
SYMMETRY Alike
INVARIANTS PointsAtARealLead LinksAgree OnOneBoard MovesTogether
PROPERTIES SubmissionLinks
