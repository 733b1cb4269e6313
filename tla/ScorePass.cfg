\* Two shards, a one-pass and a two-pass configuration; two kills and one exception; any number of runs.
SPECIFICATION LiveSpec
CONSTANTS
    NShards = 2
    Content = {h1, h2}
    Config = {one, two}
    TwoPass = {two}
    MaxKills = 2
    MaxFaults = 1
    None = None
INVARIANTS RecordedIsSealed ReturnMeansWhole
PROPERTIES BuildSpec ResumeCompletes
