\* A page with two uploads.
SPECIFICATION FairSpec
CONSTANTS
    s1 = s1
    s2 = s2
    None = None
    MaxVideos = 2
    Sends <- MCSends
    Pieces <- MCPieces
    MaxLate = 1
    MaxRetries = 1
INVARIANTS
    OneSendAtATime
    NothingClaimedThatIsNotKept
PROPERTY
    EverySendEnds
CHECK_DEADLOCK FALSE
