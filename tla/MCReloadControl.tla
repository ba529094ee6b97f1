--------------------------- MODULE MCReloadControl ---------------------------
(* Instances of ReloadControl for TLC.                                       *)
EXTENDS ReloadControl

CONSTANTS a, b, r1

\* The second edit moves the listener: two processes can run side by side.
MCListens == [v \in Versions |-> IF v < 1 THEN {a} ELSE {b}]
=============================================================================
