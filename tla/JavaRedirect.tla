----------------------------- MODULE JavaRedirect -----------------------------
(***************************************************************************)
(* A TCP redirect in front of a Java server, with the offline plugin of    *)
(* minecraft_offline.rs: the connection of TcpConnection, in which         *)
(* on_target_failure is the plugin's dialogue with the client, under one   *)
(* timeout.  A packet is its kind, and stands for one of the bytes that    *)
(* the client sends.                                                       *)
(***************************************************************************)
EXTENDS TcpConnection

\* Bound of the model: bytes of one direction of a connection to a target.
CONSTANT MaxServed

\* A handshake asks for the status or to join (also by a transfer, since
\* protocol 766); "request" is any other packet with the id 0, "ping" has the
\* id 1, and "bad" another one or no valid length.
Handshakes == {"status", "login"}
WithId0 == Handshakes \cup {"request"}
Packets == WithId0 \cup {"ping", "bad"}

\* settings: a redirect has the one plugin.
ASSUME PluginAssumption == Plugins = 1
ASSUME ServedAssumption == MaxServed \in Nat

VARIABLES
  packets,   \* what the client has sent before a target was found
  taken,     \* how many of them the plugin has read
  awaiting,  \* the packet that the plugin reads next
  answers    \* what the plugin has written

javaVars == <<packets, taken, awaiting, answers>>
dialogueVars == <<taken, awaiting, answers>>
javaState == <<vars, javaVars>>

JavaInit == /\ Init /\ packets = <<>> /\ taken = 0
            /\ awaiting = "handshake" /\ answers = <<>>
-----------------------------------------------------------------------------
(* The client and a target *)

Unserved == stage \in {"probing", "admitting", "connecting", "failing"}

ClientSends(packet) ==
  /\ PeerSends("up")
  /\ Unserved \/ sent["up"] < MaxServed
  /\ packets' = IF Unserved THEN Append(packets, packet) ELSE packets
  /\ UNCHANGED dialogueVars

TargetSends ==
  sent["down"] < MaxServed /\ PeerSends("down") /\ UNCHANGED javaVars

\* What the client has sent so far is as any other bytes to a target.
Established == /\ Connected /\ sent["up"] <= MaxServed
               /\ packets' = <<>>
               /\ UNCHANGED dialogueVars
-----------------------------------------------------------------------------
(* on_target_failure and handle_slp *)

Talking(packet) ==
  stage = "failing" /\ next <= Plugins /\ awaiting = packet
Arrived == taken < Len(packets) /\ peer["client"] # "reset"
Ended   == ~Arrived /\ peer["client"] # "open"
Packet  == packets[taken + 1]

Take == taken' = taken + 1 /\ UNCHANGED packets
TakeNone == UNCHANGED <<packets, taken>>
GoOn(to) == awaiting' = to /\ UNCHANGED vars
\* Handled; or an error, after which the next plugin is asked.
Handled == OnTargetFailure /\ result' = "handled" /\ UNCHANGED awaiting
PassThrough == /\ OnTargetFailure /\ next' = next + 1
               /\ awaiting' = "handshake"
Says(what) == answers' = Append(answers, what)
Silent == UNCHANGED answers
\* A write may fail once the client is gone.
WriteMayFail == peer["client"] = "closed"

ReadHandshake ==
  /\ Talking("handshake") /\ Arrived /\ Take /\ Silent
  /\ \/ Packet = "status" /\ GoOn("request")
     \/ Packet = "login" /\ GoOn("loginStart")
     \/ Packet \notin Handshakes /\ PassThrough

\* handle_status
\* Mutant: the packet's id is not looked at.
ReadRequest_AnyId ==
  /\ Talking("request") /\ Arrived /\ Take
  /\ GoOn("ping") /\ Says("status")
ReadRequest ==
  /\ Talking("request") /\ Arrived /\ Take
  /\ \/ Packet \in WithId0 /\ GoOn("ping") /\ Says("status")
     \/ /\ Packet \in WithId0 => WriteMayFail
        /\ PassThrough /\ Silent

ReadPing ==
  /\ Talking("ping") /\ Arrived /\ Take /\ Handled
  /\ IF Packet = "ping" THEN Says("pong") ELSE Silent

\* handle_login
ReadLoginStart ==
  /\ Talking("loginStart") /\ Arrived /\ Take
  /\ \/ Packet \in WithId0 /\ Handled /\ Says("disconnect")
     \/ /\ Packet \in WithId0 => WriteMayFail
        /\ PassThrough /\ Silent

\* The client leaves the dialogue; after the status, it has got its answer.
ReadFails ==
  /\ Ended /\ TakeNone /\ Silent
  /\ \/ Talking("ping") /\ Handled
     \/ /\ \E packet \in {"handshake", "request", "loginStart"} : Talking(packet)
        /\ PassThrough

\* HANDSHAKE_TIMEOUT ends a dialogue that waits for the client.
\* Mutant: it is a timeout of the handshake only.
TimesOut_HandshakeOnly ==
  /\ Talking("handshake") /\ ~Arrived /\ ~Ended
  /\ TakeNone /\ Silent /\ PassThrough
TimesOut ==
  /\ stage = "failing" /\ next <= Plugins /\ ~Arrived /\ ~Ended
  /\ TakeNone /\ Silent /\ PassThrough

NobodyHandles ==
  stage = "failing" /\ next > Plugins /\ OnTargetFailure /\ UNCHANGED javaVars
-----------------------------------------------------------------------------
Dialogue == \/ ReadHandshake \/ ReadRequest \/ ReadPing \/ ReadLoginStart
            \/ ReadFails \/ TimesOut \/ NobodyHandles

Others ==
  \/ Probe \/ OnConnect \/ ConnectFailed \/ SpawnFailed \/ Spawn
  \/ ReadReport \/ Reap \/ Drained

JavaHandler == Established \/ Dialogue
                 \/ (Others /\ UNCHANGED javaVars)

JavaNext ==
  \/ JavaHandler
  \/ \E packet \in Packets : ClientSends(packet)
  \/ TargetSends
  \/ \E side \in Sides, how \in Leaving :
       PeerLeaves(side, how) /\ UNCHANGED javaVars
  \/ \E d \in Dirs : Copy(d) /\ UNCHANGED javaVars
  \/ (Report \/ WorkerExits \/ WorkerKilled) /\ UNCHANGED javaVars

JavaSpec == JavaInit /\ [][JavaNext]_javaState

FairJavaSpec ==
  /\ JavaSpec
  /\ WF_javaState(JavaHandler) /\ WF_javaState(WorkerExits /\ UNCHANGED javaVars)
  /\ \A d \in Dirs : WF_javaState(Copy(d) /\ UNCHANGED javaVars)
-----------------------------------------------------------------------------
(* What the offline plugin promises *)

\* A client of a server that is offline is told what it has asked for, in the
\* order of the protocol, and nothing else, whichever way the dialogue ends;
\* "the plugin fully handled the client socket" only if it has been told.
AnswersFit ==
  /\ answers \in {<<>>, <<"status">>, <<"status", "pong">>, <<"disconnect">>}
  /\ answers # <<>> =>
       /\ Len(packets) >= 2 /\ packets[2] \in WithId0
       /\ packets[1] = IF answers = <<"disconnect">> THEN "login" ELSE "status"
  /\ answers = <<"status", "pong">> => Len(packets) >= 3 /\ packets[3] = "ping"
  /\ result = "handled" => answers # <<>>

\* A connection that no target accepts ends, whatever its client sends or
\* leaves out: it cannot hold the handler by its silence.
FailureEnds == stage = "failing" ~> stage = "ended"
=============================================================================
