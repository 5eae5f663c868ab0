----------------------------- MODULE MCLifecycle -----------------------------
(* Instances of Lifecycle for TLC: the verb sets of the configurations.     *)
EXTENDS Lifecycle

ProductVerbs == {"install", "start", "stop", "restart", "recreate", "uninstall"}
FamilyVerbs  == {"install", "stop", "uninstall", "family"}
=============================================================================
