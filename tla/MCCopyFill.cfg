\* Regressed helpers, deaths, lost calls and other hands on the two trees.
CONSTANTS
    top = top
    deep = deep
    Paths <- MCPaths
    Depth <- MCDepth
    Targets <- MCTargets
    MaxFaults = 2
    MaxHands = 1
SPECIFICATION FairSpec
INVARIANTS AcceptedIsWhole AcceptedIsContained
PROPERTIES HealthyIsCopied
CHECK_DEADLOCK FALSE
