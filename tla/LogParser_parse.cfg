\* Logs of up to four lines over three days of eight units, dated and undated,
\* and limits that lines of one to four bytes reach.
SPECIFICATION ParserSpec
CONSTANTS
    Day = 8
    Chunk = 2
    MaxBytes = 8
    MaxLineBytes = 3
    MaxLines = 4
    MaxEvidence = 7
    FirstInstants = {5, 6, 7}
    Steps = {1, 3, 4, 6}
    MaxLag = 1
    None = None
    Sources <- MCSources
CHECK_DEADLOCK FALSE
INVARIANTS
    ObservedTimesAreExact
    QuietLogsRunForward
    RefusedExactlyOverLimits
