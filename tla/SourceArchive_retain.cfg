\* Standard and deep scans by one version, files that come and go.
SPECIFICATION Spec
CONSTANTS
    MaxLaunches = 2
    MaxRotations = 2
    MaxScans = 4
    MaxParser = 1
    Modes = {"standard", "deep"}
    ParsingMayFail = FALSE
    FilesMayHide = TRUE
CHECK_DEADLOCK FALSE
PROPERTIES
    LaunchesStayArchived
INVARIANTS
    SessionsAreTraceable
