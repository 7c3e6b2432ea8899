SPECIFICATION DeskSpec
CONSTANTS
    Pages = {p1}
    Labels = {small, large}
    Uncounted = Uncounted
    MaxProducts = 2
    MaxStock = 1
    MaxOptions = 3
    MaxPresses = 2
    MaxOthers = 1

    
    
PROPERTY
    OptionsKeepTheirIds
CHECK_DEADLOCK FALSE
