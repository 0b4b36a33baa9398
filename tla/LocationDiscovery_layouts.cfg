\* Two scans while, twice, a layout changes or the user adds a location.
SPECIFICATION Spec
CONSTANTS
    MaxLauncherEntries = 3
    MaxDepth = 5
    MaxEntries = 20
    Places = {"official", "prism", "custom"}
    CandidateOf <- MCCandidateOf
    Layouts <- MCLayouts
    MaxChanges = 2
    MaxScans = 2
CHECK_DEADLOCK FALSE
INVARIANTS
    StagedUnderKnownInstance
    EveryInstanceVisitedOnce
    NoLogIsLostInSilence
    InstancesKeepApart
