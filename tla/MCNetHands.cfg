\* The operator's hand on the daemon, containers uninstalled, MYTHICAL_NET changed midway.
CONSTANTS
    Containers = {c1, c2}
    Nets = {n1, n2}
    NoNet = NoNet
    Verbs <- Removing
    MaxFaults = 1
    MaxHands = 1
    MidEdits = TRUE
SPECIFICATION Spec
INVARIANTS AtHome
PROPERTIES NeverBare
CHECK_DEADLOCK FALSE
