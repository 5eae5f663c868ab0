------------------------------ MODULE MCRepair -------------------------------
(* Instances of Repair for TLC.                                             *)
EXTENDS Repair, TLC

CONSTANTS c1, c2, v1, n1, n2, own, nonet
TwoContainers == {c1, c2}
OneVolume     == {v1}
TwoNets       == {n1, n2}
Symmetric     == Permutations(TwoContainers)
=============================================================================
