--------------------------- MODULE MCBackupRestore ---------------------------
(* Instances of BackupRestore for TLC.                                      *)
EXTENDS BackupRestore, TLC

CONSTANTS v1, v2, d1, d2, none
Two     == {v1, v2}
OneDir  == {d1}
TwoDirs == {d1, d2}
Symmetric == Permutations(Two)
=============================================================================
