\* One request at a time, fair; Paystack's answers arrive, but transfers may
\* fail or be reversed and the seller may change the payout account.
SPECIFICATION FairSpec
CONSTANTS
    Slots = {s1}
    Plans = {"full", "deposit"}
    FirstPayment = 10
    BalancePayment = 5
    Commission = 1
    MaxBalanceTries = 2
    Faults = {"fail", "reverse", "account"}
PROPERTIES
    
    
    
    SellerIsPaid
    
CHECK_DEADLOCK FALSE
