----------------------------- MODULE MCUdpRelay -----------------------------
(* Instances of UdpRelay for TLC.                                            *)
EXTENDS UdpRelay, TLC

CONSTANTS c1, c2, s1, s2, s3, t1, t2

\* Two targets with the offline message, two without, one with, one without.
MCTargetsOf == [g \in Configs |->
  IF g \in {"multiOffline", "multi"} THEN <<t1, t2>> ELSE <<t1>>]
MCOffline == Configs \cap {"multiOffline", "singleOffline"}
MCSize == [ping |-> 1, start |-> 1, data |-> 2]

Symmetry == Permutations(Clients) \cup Permutations(Sockets)
=============================================================================
