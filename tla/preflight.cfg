SPECIFICATION MCSpec
CONSTANTS
    Margin = 3
    MaxNames = 3
    MinFree = 8
    MaxWord = 15
    MaxLines = 2
    MaxChanges = 2
    MaxElapsed = 2
    MCSocketsOpen = 2
    Hosts <- MCHosts
    Nets <- MCNets
    Options <- MCOptions
CHECK_DEADLOCK FALSE
INVARIANTS
    ReportIsTrue
    HostVerdictsAreTrue
    ProbesOnlyWhenAllowed
    SteadyListenerIsSeen
