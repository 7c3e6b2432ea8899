\* One tab, loaded twice: what must be there to submit, and one text changed.
SPECIFICATION JoinSpec
CONSTANTS
    MaxEdits = 4
    MaxFiles = 2
    MaxPerKind = 1
    MaxRemovals = 1
    MaxSent = 2
    MaxFaults = 1
INVARIANTS
    
    DraftComesBack

    
CHECK_DEADLOCK FALSE
