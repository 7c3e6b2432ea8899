\* Two requests at once, either of which may die.
SPECIFICATION Spec
CONSTANTS
    Slots = {s1, s2}
    Sellers = {a}
    MaxPayments = 2
    MaxCredits = 2
    LastDay = 1
    BoostDays = 1
    PlanDays = 1
    LeadLimit = 1
    Kinds = {"boost", "plan", "lead", "verification"}
    CanCrash = TRUE
SYMMETRY SlotSymmetry
INVARIANTS
    PaidMeansGiven
    OneFreeBoost
CHECK_DEADLOCK FALSE
