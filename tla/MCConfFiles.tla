---------------------------- MODULE MCConfFiles -------------------------------
(* Instances of ConfFiles for TLC.                                          *)
EXTENDS ConfFiles, TLC
CONSTANTS p1, p2, k1, k2, s1, s2, h1, h2
MCProcs      == {p1, p2}
MCKeys       == {k1, k2}
MCValues     == {s1, s2}
MCHostValues == {h1, h2}
Symmetry ==
    {w @@ h : w \in {i @@ j : i \in Permutations(MCProcs), j \in Permutations(MCKeys)},
              h \in {i @@ j : i \in Permutations(MCValues), j \in Permutations(MCHostValues)}}
=============================================================================
