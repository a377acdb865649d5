SPECIFICATION Spec
CONSTANTS
    Workers = {w1}
    Now = Now
    None = None
    MaxPayments = 2
INVARIANTS TokenStageHasToken PaidStageHasMoney EveryCopySound
CHECK_DEADLOCK FALSE
