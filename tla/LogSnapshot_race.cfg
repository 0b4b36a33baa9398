\* One log, three writes by others at any step, short reads.  A log that was
\* parsed, skipped or given up has no further step.
SPECIFICATION Spec
CONSTANTS
    Byte = {1, 2}
    InitialLogs <- MCInitialLogs
    Rewrites <- MCRewrites
    PreviousSizes <- MCPreviousSizes
    PrefixBytes = 1
    BufferBytes = 2
    MaxWrites = 3
    MaxTime = 1
CHECK_DEADLOCK FALSE
INVARIANTS
    AcceptedLogStoodWhole
    NothingOutsideIsRead
    PrefixesAreOfTheLog
