SPECIFICATION Spec
CONSTANTS
    SegmentBytes = 1
    MaxBytes = 2
    MaxRecords = 2
    MaxShortWrites = 0
    MaxKills = 1
    MaxPowerCuts = 1
    MaxReclaimFails = 1
    Groups = {"a"}
    Readers = {1, 2}
    Membership <- SharedGroup
    StartEarliest = FALSE
    MaxCommitFails = 1
    MaxRots = 1
INVARIANTS
    BusTypeOK
    
