----------------------------- MODULE StorageMove -----------------------------
(***************************************************************************)
(* What migrate-storage promises about one role of one product: its data   *)
(* has one current version, kept by one holder, the named volume or the    *)
(* host directory.  The product writes where it is kept; the migration     *)
(* moves the holder once, in one step, and no version is lost.             *)
(***************************************************************************)
EXTENDS Naturals

VARIABLES holder, latest

vars == <<holder, latest>>

Init == holder = "volume" /\ latest = 0

Write == latest' = latest + 1 /\ UNCHANGED holder

Move == holder = "volume" /\ holder' = "directory" /\ UNCHANGED latest

Next == Write \/ Move

Spec == Init /\ [][Next]_vars
=============================================================================
