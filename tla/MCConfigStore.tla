---------------------------- MODULE MCConfigStore ----------------------------
(* Instances of ConfigStore for TLC.                                         *)
EXTENDS ConfigStore, TLC

CONSTANTS t1, t2, a, b

Symmetry == Permutations(Tools)
=============================================================================
