\* Runs of two settings in one output directory; two killed, one assignment fails.
SPECIFICATION LiveSpec
CONSTANTS
    corpus = corpus
    Setting <- Sizes
    MaxKills = 2
    MaxFaults = 1
INVARIANTS PassIsWhole
PROPERTIES ProgressStays ResumePasses
