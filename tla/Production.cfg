\* Two sources, two shards; a kill, a failing stage and a resumption with other settings; any number of runs.
SPECIFICATION LiveSpec
CONSTANTS
    Source = {s1, s2}
    Shards = 2
    None = None
    MaxKills = 1
    MaxFaults = 1
    MaxDrifts = 1
INVARIANTS SealedIsBacked
PROPERTIES PublishedIsDelivered PairStays 
