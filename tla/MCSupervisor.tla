---------------------------- MODULE MCSupervisor ----------------------------
(* Instances of Supervisor for TLC.                                          *)
EXTENDS Supervisor

CONSTANTS c1, tcp, udp

R(k, n, s) == [key |-> k, name |-> n, settings |-> s]

\* Reloads from one of these to another keep a listener and change its
\* name or settings, remove one, or bring one back that may still drain; the
\* first file may fail half way, at its favicon.
MCFiles == {<<R(udp, "bedrock", "plain"), R(tcp, "java", "icon")>>,
            <<R(tcp, "lobby", "other")>>,
            <<R(udp, "bedrock", "other")>>}
=============================================================================
