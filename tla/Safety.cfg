SPECIFICATION SafetySpec
CONSTANTS
    t1 = t1
    t2 = t2
    NoThread = NoThread
    Threads <- TwoThreads
    Images <- MCImages
    Tags <- MCTags
    MaxBoots = 1
    MaxReboots = 2
    c1 = c1
    c2 = c2
    o1 = o1
    o2 = o2
    Calls <- TwoCalls
    Operators <- OneOperator
    GatewaySlots = 1
    BrokerSlots = 1
    MaxGens = 1
    Callers = {k1, k2}
    NoCaller = NoCaller
    Children = {p1, p2}
    NoChild = NoChild
    MaxClients = 2
    Agents = {a1, a2}
    NoAgent = NoAgent
    Elements = {e1, e2}
    NoElement = NoElement
    Paths = {p, q}
    PatchLength = 2
    Seeds <- MCSeeds
    OverlapAsked = {0, 1}
    MaxOverlap = 1
    MaxFresh = 2
    MaxTime = 1
    NoFile = NoFile
    Content <- MCContent
    NoContent = "no content"
SYMMETRY AllSwapped
CHECK_DEADLOCK FALSE
INVARIANTS
    TypeOK
    KnownGoodKept
    MarkerTellsTheInstall
    OneWriter
    JobBehindState
    InstalledMeansReady
    AnnouncedIsNewer
    StopTypeOK
    SlotsBalance
    PausedBrokerHasNoLiveCall
    OneOpenClient
    OkIsTrue
    RetryIsSafe
    NeverTorn
    PatchIsAllOrNothing
    FilesAgree
    LookupIsSound
PROPERTIES
    ImplementsSlotUpdate
    ReviewedOnly
    AbandonedLeavesNoTrace
    PendingUntilBoot
    NothingStartsInPausedBroker
    OnlyACallDropsAChild
    UserBearerIsKept
