\* A two-pass score pass whose second shard fails is resumed: it never completes.
SPECIFICATION LiveSpec
CONSTANTS
    NShards = 2
    Content = {h1}
    Config = {two}
    TwoPass = {two}
    MaxKills = 0
    MaxFaults = 1
    None = None
PROPERTIES EveryResumeCompletes
