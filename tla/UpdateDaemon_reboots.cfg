SPECIFICATION MCSpec
CONSTANTS
    t1 = t1
    t2 = t2
    NoThread = NoThread
    Threads <- TwoThreads
    Images <- MCImages
    Tags <- MCTags
    MaxBoots = 0
    MaxReboots = 2
SYMMETRY TwoSymmetric
CHECK_DEADLOCK FALSE
INVARIANTS
    NoInstallInShutdown
