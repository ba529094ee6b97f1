----------------------------- MODULE MCRegistry -----------------------------
(* Instances of Registry for TLC.                                            *)
EXTENDS Registry, TLC

CONSTANTS c1, c2, c3

\* Two connections of one redirect, the third of another.
MCRedirectOf == [c \in Conns |-> IF c = c3 THEN "udp" ELSE "tcp"]

Symmetry == Permutations({c1, c2})
=============================================================================
