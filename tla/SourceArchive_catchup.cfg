\* Standard and deep scans that find every file there is, across deferrals
\* and an upgrade of the parser.
SPECIFICATION Spec
CONSTANTS
    MaxLaunches = 2
    MaxRotations = 2
    MaxScans = 3
    MaxParser = 2
    Modes = {"standard", "deep"}
    ParsingMayFail = TRUE
    FilesMayHide = FALSE
CHECK_DEADLOCK FALSE
PROPERTIES
    CompleteScanArchivesWhatItSaw
    DeepRescanIsIdempotent
INVARIANTS
    TypeOK
