----------------------------- MODULE MCCopyFill -------------------------------
(* Instances of CopyFill for TLC.                                           *)
EXTENDS CopyFill

CONSTANTS top, deep   \* an entry at the root and one a directory below it

MCPaths   == {top, deep}
MCDepth   == [p \in MCPaths |-> IF p = top THEN 0 ELSE 1]
MCTargets == {<<"up", "down">>, <<"slash", "down">>}
=============================================================================
