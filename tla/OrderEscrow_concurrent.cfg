\* Two requests at once, every fault possible.
SPECIFICATION Spec
CONSTANTS
    Slots = {s1, s2}
    Plans = {"full", "deposit"}
    FirstPayment = 10
    BalancePayment = 5
    Commission = 1
    MaxBalanceTries = 1
    Faults = {"lost", "crash", "refuse", "fail", "reverse", "account"}
SYMMETRY SlotSymmetry
INVARIANTS
    GrantedOnce
    
    TransferredOnce
    PayoutHasCause
    ReleasedMeansSent
PROPERTIES
    ReleasedIsFinal
CHECK_DEADLOCK FALSE
