SPECIFICATION StateSpec
CONSTANTS
    Seeds <- MCSeeds
    OverlapAsked = {0, 1}
    MaxOverlap = 1
    MaxFresh = 2
    MaxTime = 2
    NoFile = NoFile
CHECK_DEADLOCK FALSE
INVARIANT RotatedOutIsRefused
