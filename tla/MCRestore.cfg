\* One backup, one loss of the home, deaths and failures, one act of others.
CONSTANTS
    v1 = v1
    v2 = v2
    d1 = d1
    d2 = d2
    none = none
    Volumes <- Two
    Dirs <- OneDir
    None <- none
    MaxFloor = 1
    MaxWrites = 1
    MaxFaults = 2
    MaxLosses = 1
    MaxHands = 1
    Races = FALSE
SPECIFICATION FairSpec
PROPERTIES RestoredWhole RivalsKept FloorsKept EvidenceKept AbandonEnds
CHECK_DEADLOCK FALSE
