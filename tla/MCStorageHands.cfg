\* The operator's own hand on the paths and on mythical.conf.
CONSTANTS
    Verbs <- Rebuilding
    MaxNonce = 2
    MaxWrites = 1
    MaxFaults = 1
    MaxHands = 2
SPECIFICATION Spec
PROPERTIES TreesKept
CHECK_DEADLOCK FALSE
