\* The whole life of a video, with a second worker as DEPLOY.md describes.
SPECIFICATION FairSpec
CONSTANTS
    Workers = {w1, w2}
    Pieces = 3
    MaxFiles = 7
    MaxDeaths = 2
INVARIANTS
    WholeFile
    
    StreamPlays
PROPERTIES
    
    NothingIsLeftHalfMade
CHECK_DEADLOCK FALSE
