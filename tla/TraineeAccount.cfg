SPECIFICATION Spec
CONSTANTS
    Emails = {mine}
    NoEmail = NoEmail
    MaxEnquiries = 2
    MaxCalls = 2
    MaxPresses = 4
INVARIANTS
    
    ProvenMeansProved
    StaffLeaveATrace
CHECK_DEADLOCK FALSE
