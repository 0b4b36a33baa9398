\* Two processes on one database, each with one command thread.
SPECIFICATION Spec
CONSTANTS
    c1 = c1  c2 = c2  p1 = p1  p2 = p2
    Procs = {p1, p2}
    Callers = {c1, c2}
    Home <- TwoProcesses
    Scans = {s1, s2}
    Instances = {i1}
    NoScan = NoScan
    RollbackMayFail = TRUE
SYMMETRY ScanSymmetry
INVARIANTS
    SettledRunsLeaveNoStaging
    ActiveStagingIsWhole
PROPERTIES
    ImplementsAtomicArchive
