SPECIFICATION LiveSpec
CONSTANTS
    t1 = t1
    t2 = t2
    NoThread = NoThread
    Threads <- TwoThreads
    Images <- MCImages
    Tags <- MCTags
    MaxBoots = 0
    MaxReboots = 1
    c1 = c1
    c2 = c2
    o1 = o1
    o2 = o2
    Calls <- OneCall
    Operators <- TwoOperators
    GatewaySlots = 1
    BrokerSlots = 1
    MaxGens = 1
    Shell = s
    Forked = {f1, f2}
    RequireCgroup = FALSE
    Grace = 2
    RateLimit = 2
    RateWindow = 5
    Layouts = {"us", "de", "none"}
    WithKeymap = {"us", "de"}
    US = "us"
    Disks = {"sda", "sdb"}
    NoDisk = "none"
    PipeSize = 1
    MaxLines = 3
CHECK_DEADLOCK FALSE
INVARIANTS
    NoInstallInShutdown
    GenerationFollowsFlag
    NothingOutlivesItsCall
    RateHolds
    InstallIsAsTold
PROPERTIES
    PreviousIsPrevious
    EveryApplyEnds
    StoppedCallEnds
    StoppedBashReturns
    AbsentIsRestarted
    ProgressEnds
