\* A client that issues one command at a time, working rollbacks, fair threads.
SPECIFICATION FairSpec
CONSTANTS
    c1 = c1  c2 = c2  p1 = p1  p2 = p2
    Procs = {p1}
    Callers = {c1}
    Home <- OneCaller
    Scans = {s1, s2}
    Instances = {i1, i2}
    NoScan = NoScan
    RollbackMayFail = FALSE
INVARIANTS
    ActiveScanIsReported
    NoOrphanedRun
PROPERTIES
    EveryRunEnds
