---------------------------- MODULE MCNetRebind ------------------------------
(* Instances of NetRebind for TLC: the other verbs of each one.             *)
EXTENDS NetRebind

Ordinary == {"install", "start", "stop"}
Removing == {"install", "stop", "uninstall"}
=============================================================================
