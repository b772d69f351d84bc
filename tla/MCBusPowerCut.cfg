SPECIFICATION Spec
CONSTANTS
    SegmentBytes = 2
    MaxBytes = 0
    MaxRecords = 3
    MaxShortWrites = 0
    MaxKills = 0
    MaxPowerCuts = 1
    MaxReclaimFails = 0
    Groups = {"a"}
    Readers = {1}
    Membership <- OneReader
    StartEarliest = FALSE
    MaxCommitFails = 0
    MaxRots = 0
INVARIANTS
    NoSilentSkip
