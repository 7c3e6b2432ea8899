SPECIFICATION Spec
CONSTANTS
    LessonCount = 3
    MaxCalls = 3
    MaxPresses = 2
    CodeUses = 1
    MaxPurchases = 2
INVARIANTS
    CertificateIsEarned
    EarnedMeansGiven
    ChargedMeansUnlocked
CHECK_DEADLOCK FALSE
