\* Deaths, retries and the other verbs; the operator's hand kept away.
CONSTANTS
    Verbs <- Settings
    MaxNonce = 3
    MaxWrites = 2
    MaxFaults = 2
    MaxHands = 0
SPECIFICATION FairSpec
INVARIANTS NoLiveCopy BindNamesTheCopy
PROPERTIES MovesOnce RetriesFinish
CHECK_DEADLOCK FALSE
