-------------------------- MODULE MCStorageMigrate ---------------------------
(* Instances of StorageMigrate for TLC: the other verbs of each one.        *)
EXTENDS StorageMigrate

Settings   == {"start", "stop"}
Rebuilding == {"start", "stop", "recreate"}
=============================================================================
