\* Three runs of any mode, each of which may stop anywhere; creators and resumptions run beside each other.
SPECIFICATION Spec
CONSTANTS
    Proc = {r1, r2, r3}
    Config = {c1, c2}
    Modes = {"create", "overwrite", "resume"}
    MaxLive = 3
    OverwriteAlone = TRUE
    MayPlaceForeign = TRUE
SYMMETRY Symmetry
INVARIANTS OldOrNewSurvives DamageHasBackup RecoveryIsSound OneWinner
PROPERTIES UnrelatedIsKept PublishedStays
CHECK_DEADLOCK FALSE
