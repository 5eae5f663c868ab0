----------------------------- MODULE MCIntents -------------------------------
(* Instances of Intents for TLC.                                            *)
EXTENDS Intents
=============================================================================
