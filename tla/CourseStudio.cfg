SPECIFICATION Spec
CONSTANTS
    Lessons = {1, 2, 3}
    TopPrice = 2
    MaxBoosts = 2
    MaxCalls = 2
    MaxPresses = 4
INVARIANTS
    FeaturedIsPaidFor
    PricedMeansPayable
CHECK_DEADLOCK FALSE
