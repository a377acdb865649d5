SPECIFICATION Spec
CONSTANTS
    Tabs = {t1, t2}
    Slots = {1, 2}
    Busy = {t1}
    MaxExpired = 1
    MaxPairs = 2
INVARIANTS
    StoredPairWorks
    ThrownOutFairly
PROPERTIES
    CallsSettle
    LoadingEnds
CHECK_DEADLOCK FALSE
