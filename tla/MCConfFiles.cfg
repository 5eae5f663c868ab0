\* Two verbs, the settings screen and the editor; cuts, deaths and failed calls.
CONSTANTS
    p1 = p1
    p2 = p2
    Procs <- MCProcs
    k1 = k1
    k2 = k2
    s1 = s1
    s2 = s2
    h1 = h1
    h2 = h2
    Keys <- MCKeys
    Values <- MCValues
    HostValues <- MCHostValues
    MaxInodes = 2
    MaxFaults = 1
    MaxSaves = 2
SYMMETRY Symmetry
SPECIFICATION Spec
INVARIANTS AcceptedIsWhole ToldIsSet
PROPERTIES AddsOnly SharedWithFamily
CHECK_DEADLOCK FALSE
