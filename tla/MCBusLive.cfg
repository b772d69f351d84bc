SPECIFICATION FairSpec
CONSTANTS
    SegmentBytes = 1
    MaxBytes = 2
    MaxRecords = 2
    MaxShortWrites = 0
    MaxKills = 1
    MaxPowerCuts = 0
    MaxReclaimFails = 1
    Groups = {"a", "b"}
    Readers = {1, 2}
    Membership <- TwoGroups
    StartEarliest = FALSE
    MaxCommitFails = 0
    MaxRots = 0
PROPERTIES
    EventuallyDelivered
