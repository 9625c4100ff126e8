SPECIFICATION FairWatchSpec
CONSTANTS
    tray = tray
    cli = cli
    NoClient = NoClient
    Trays <- OneTray
    Installers <- OneInstaller
    MaxJobs = 2
    MaxEnds = 1
CHECK_DEADLOCK FALSE
INVARIANTS
    NoWorkInClosingService
    DeliverAwake
    ViewsAreTrue
PROPERTIES
    FollowedJobEnds
    FollowEnds
