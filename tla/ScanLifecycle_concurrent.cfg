\* One process, two command threads that overlap freely, fair threads.
\* There is no instance to stage, so the two loops of the worker are empty.
SPECIFICATION FairSpec
CONSTANTS
    c1 = c1  c2 = c2  p1 = p1  p2 = p2
    Procs = {p1}
    Callers = {c1, c2}
    Home <- OneProcess
    Scans = {s1, s2}
    Instances = {}
    NoScan = NoScan
    RollbackMayFail = TRUE
INVARIANTS
    TypeOK
    OneScanAtATime
    ReportedOutcomeIsDurable
PROPERTIES
    StatusSettles
