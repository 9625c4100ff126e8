SPECIFICATION FairWatchSpec
CONSTANTS
    tray = tray
    cli = cli
    NoClient = NoClient
    Trays <- OneTray
    Installers <- OneInstaller
    MaxJobs = 1
    MaxEnds = 1
CHECK_DEADLOCK FALSE
PROPERTIES
    TrayLeavesBusy
