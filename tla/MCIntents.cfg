\* Lost answers, late creates, deaths and others on the names of ours.
CONSTANTS
    MaxNonce = 4
    MaxFaults = 2
    MaxHands = 2
SPECIFICATION FairSpec
INVARIANTS WrittenAhead NetworkOnce RecordedStood
PROPERTIES GivenUpAbsent IntentSettles
CHECK_DEADLOCK FALSE
