\* Two workers, two screens on top of each other.
SPECIFICATION TuiLiveSpec
CONSTANTS
    MaxWorkers = 2
    MaxScreens = 2
INVARIANTS CliIsKnown StatusIsTrue
PROPERTIES ForceEnds
CHECK_DEADLOCK FALSE
