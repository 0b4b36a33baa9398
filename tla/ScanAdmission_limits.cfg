\* Two instances, every limit within reach, failures and cancellation at any
\* step.  A run that ended has no further step.
SPECIFICATION Spec
CONSTANTS
    Plans <- MCPlans
    Archives <- MCArchives
    SessionsOf <- MCSessionsOf
    Contexts <- MCContexts
    Unwieldy = {23}
    ParseResults <- MCParseResults
    InstanceLimits <- MCInstanceLimits
    ScanLimits <- MCScanLimits
    ArchiveLimits <- MCArchiveLimits
    FailedParse <- MCFailedParse
    MaxIssues = 2
    MaxIndexIssues = 1
CHECK_DEADLOCK FALSE
INVARIANTS
    RefusedLogsAreRetried
    WhatIsLeftOutIsTold
    RestoredIssuesAgree
PROPERTIES
    ArchiveStaysWithinLimits
