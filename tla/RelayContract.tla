--------------------------- MODULE RelayContract ---------------------------
(***************************************************************************)
(* What a UDP redirect promises its clients, whatever its tasks do: a      *)
(* client is admitted under the configuration in force and keeps it, with  *)
(* the target chosen for it, until its service ends; reconfiguring moves   *)
(* nobody; a closed redirect admits nobody and ends when it serves nobody. *)
(***************************************************************************)
CONSTANTS Clients, Configs, TargetsOf, Offline, None

VARIABLES
  role,     \* [client -> how it is served, under which configuration]
  current,  \* the configuration in force, None before the first
  open,     \* new clients are admitted
  ended

vars == <<role, current, open, ended>>

TargetsIn(g) == {TargetsOf[g][i] : i \in DOMAIN TargetsOf[g]}
Unserved        == [is |-> "none",      cfg |-> None, target |-> None]
Waiting(g)      == [is |-> "selecting", cfg |-> g,    target |-> None]
Relay(g, t)     == [is |-> "relayed",   cfg |-> g,    target |-> t]
ShownOffline(g) == [is |-> "offline",   cfg |-> g,    target |-> None]

Init == /\ role = [c \in Clients |-> Unserved]
        /\ current = None /\ open = TRUE /\ ended = FALSE

\* The configuration g serves c: by one of its targets or its offline message.
ServedUnder(c, g) == \/ \E t \in TargetsIn(g) : role'[c] = Relay(g, t)
                     \/ g \in Offline /\ role'[c] = ShownOffline(g)

\* A handshake that expired is forgotten when its client is next heard of, so
\* an offline client can be admitted anew.
Admit(c) == /\ open /\ current # None /\ role[c].is \in {"none", "offline"}
            /\ ServedUnder(c, current) \/ role'[c] = Waiting(current)

Resolve(c) == /\ role[c].is = "selecting"
              /\ ServedUnder(c, role[c].cfg) \/ role'[c] = Unserved

Leave(c) == /\ role[c].is \in {"relayed", "offline"}
            /\ role'[c] = Unserved

Serve == /\ role' = [c \in Clients |-> role'[c]]
         /\ \A c \in Clients :
              role'[c] = role[c] \/ Admit(c) \/ Resolve(c) \/ Leave(c)
         /\ UNCHANGED <<current, open, ended>>

Reconfigure == /\ current' \in Configs
               /\ UNCHANGED <<role, open, ended>>

Close == open' = FALSE /\ UNCHANGED <<role, current, ended>>

End == /\ ~open \/ current = None
       /\ ended' = TRUE
       /\ \A c \in Clients : role[c].is \in {"none", "offline"}
       /\ role' = [c \in Clients |-> Unserved]
       /\ UNCHANGED <<current, open>>

Next == ~ended /\ (Serve \/ Reconfigure \/ Close \/ End)

Spec == Init /\ [][Next]_vars
=============================================================================
