\* Failures, deaths and re-runs of net rebind among the ordinary verbs.
CONSTANTS
    Containers = {c1, c2}
    Nets = {n1, n2}
    NoNet = NoNet
    Verbs <- Ordinary
    MaxFaults = 2
    MaxHands = 0
    MidEdits = FALSE
SPECIFICATION FairSpec
INVARIANTS ProvenBeforeDetached NoStrandedCheck
PROPERTIES SharesOne RerunFinishes
CHECK_DEADLOCK FALSE
