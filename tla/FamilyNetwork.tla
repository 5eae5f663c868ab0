---------------------------- MODULE FamilyNetwork -----------------------------
(***************************************************************************)
(* What net rebind promises about a family of containers: there is always  *)
(* a network that every one of them is on, so any of them can resolve any  *)
(* other; and whenever no move is under way, the network the installation  *)
(* names is one of those.                                                  *)
(***************************************************************************)
CONSTANT Nets

VARIABLES
    shared,     \* the networks every container is on
    named,      \* the network the installation names
    moving      \* is a move recorded?

vars == <<shared, named, moving>>

Init == named \in Nets /\ shared = {named} /\ moving = FALSE

Open == ~moving /\ moving' = TRUE /\ UNCHANGED <<shared, named>>

Join(n) == moving /\ shared' = shared \cup {n} /\ UNCHANGED <<named, moving>>

Leave(n) ==
    /\ moving /\ n \in shared /\ shared # {n}
    /\ shared' = shared \ {n}
    /\ UNCHANGED <<named, moving>>

Commit(n) ==
    /\ moving /\ moving' = FALSE
    /\ n \in shared /\ named' = n
    /\ UNCHANGED shared

Next == Open \/ \E n \in Nets : Join(n) \/ Leave(n) \/ Commit(n)

Spec == Init /\ [][Next]_vars
=============================================================================
