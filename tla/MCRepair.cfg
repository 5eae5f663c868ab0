\* Two containers, a volume, three networks; faults and acts of the hand.
CONSTANTS
    c1 = c1
    c2 = c2
    v1 = v1
    n1 = n1
    n2 = n2
    own = own
    nonet = nonet
    Containers <- TwoContainers
    Volumes <- OneVolume
    OpNets <- TwoNets
    Own <- own
    NoNet <- nonet
    MaxIdents = 2
    MaxFaults = 1
    MaxHands = 1
SPECIFICATION FairSpec
INVARIANTS NothingAssumedProven
PROPERTIES RebuildComplete AnchorSurvives RerunRecovers ReferenceHoldsFleet
CHECK_DEADLOCK FALSE
