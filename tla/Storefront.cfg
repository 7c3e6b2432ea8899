SPECIFICATION Spec
CONSTANTS
    Products = {1, 2}
    Counted = {1}
    Cap = 2
    StockAtFirst = 1
    MaxOrders = 3
    MaxCalls = 2
    MaxPresses = 3
INVARIANTS
    
    NothingPaidTwice
CHECK_DEADLOCK FALSE
