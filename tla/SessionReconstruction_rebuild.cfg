\* Two launches split and copied in every way, disordered events, and logs
\* with overlaps of every length; two units of time are a second.
SPECIFICATION Spec
CONSTANTS
    Second = 2
    MergeWindow = 2
    TailLimit = 1
    MaxPlausible = 15
    None = None
    Inputs <- MCInputs
CHECK_DEADLOCK FALSE
INVARIANTS
    SessionsHaveSoundBounds
    EvidenceBelongsToOneSession
    SessionsFollowOneAnother
    EveryLaunchIsToldOnce
    OverlapIsLongest
    VerifiedIsObserved
