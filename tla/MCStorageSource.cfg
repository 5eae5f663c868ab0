\* recreate between two attempts.
CONSTANTS
    Verbs <- Rebuilding
    MaxNonce = 1
    MaxWrites = 1
    MaxFaults = 1
    MaxHands = 0
SPECIFICATION Spec
INVARIANT SourceUntouched
CHECK_DEADLOCK FALSE
