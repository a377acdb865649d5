SPECIFICATION LedgerSpec
CONSTANTS
    recruitment = recruitment
    generalist = generalist
    single = single
    emi = emi
    NotSet = NotSet
    Programs <- MCPrograms
    Plans <- MCPlans
    Price <- MCPrice
    DearestPlan = 3
    Dates = {1, 2}
    LegacySlots <- MCSlots
INVARIANTS LedgerShape NeverUndercharged
PROPERTIES FeeMovesOnlyWithPlan PlanKeepsMoney PromiseKept ImplementsCollection
CHECK_DEADLOCK FALSE
