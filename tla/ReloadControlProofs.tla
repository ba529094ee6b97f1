------------------------- MODULE ReloadControlProofs -------------------------
(***************************************************************************)
(* What the reload endpoint promises, for any number of processes and      *)
(* requesters, every config and every bound: an acknowledgement means that *)
(* the update was applied, a process that lives alone can be reached, the  *)
(* endpoint leads to a process that listens or that ended by a signal or a *)
(* crash, and nobody waits for an answer that no process owes it.          *)
(***************************************************************************)
EXTENDS ReloadControl, FiniteSetTheorems, TLAPS

\* An abbreviation of two phases.
USE DEF Unreturned

-----------------------------------------------------------------------------
(* Types                                                                   *)

LEMMA InitTypeOK == Init => TypeOK
<1> SUFFICES ASSUME Init PROVE TypeOK
  OBVIOUS
<1>1. 0 \in Versions
  BY VersionAssumption DEF Versions
<1>2. NoCall \in Calls /\ NoConn \in Conns
  BY <1>1 DEF NoCall, NoConn, Calls, Conns
<1>3. QED
  BY <1>1, <1>2 DEF Init, TypeOK, Phases

LEMMA CloseType ==
  ASSUME TypeOK, NEW cs, NEW answer \in {"ok", "error"}, NEW dead,
         Close(cs, answer, dead)
  PROVE  call' \in [Clients -> Calls] /\ conn' \in [Clients -> Conns]
<1>1. Closed \in Conns
  BY DEF Closed, NoConn, Conns
<1>2. NoCall \in Calls
  BY VersionAssumption DEF NoCall, Calls, Versions
<1>3. \A c \in Clients : call[c].state = "waiting" =>
                           [call[c] EXCEPT !.state = answer] \in Calls
  BY DEF TypeOK, Calls
<1>4. QED
  BY <1>1, <1>2, <1>3 DEF Close, TypeOK

LEMMA EndType ==
  ASSUME TypeOK, NEW p \in Processes, NEW how \in {"exited", "stopped", "killed"},
         End(p, how), endpoint' \in Endpoints \cup {None}
  PROVE  TypeOK'
<1>1. call' \in [Clients -> Calls] /\ conn' \in [Clients -> Conns]
  BY CloseType DEF End
<1>2. QED
  BY <1>1 DEF End, TypeOK, Phases

LEMMA TypeOKStep == TypeOK /\ [Next]_vars => TypeOK'
<1> SUFFICES ASSUME TypeOK, [Next]_vars PROVE TypeOK'
  OBVIOUS
<1> USE DEF files, processVars, callVars
<1>1. ASSUME NEW p \in Processes, Startup(p) PROVE TypeOK'
  <2>1. CASE Start(p)
    BY <2>1 DEF Start, TypeOK, Phases
  <2>2. CASE Listen(p)
    BY <2>2 DEF Listen, TypeOK, Phases
  <2>3. CASE Check(p)
    <3>1. call' \in [Clients -> Calls]
      <4>1. 0 \in Versions
        BY VersionAssumption DEF Versions
      <4>2. endpoint # None =>
              [state |-> "found", to |-> endpoint, asked |-> 0] \in Calls
        BY <4>1 DEF TypeOK, Calls
      <4>3. QED
        BY <2>3, <4>2 DEF Check, TypeOK
    <3>2. QED
      BY <2>3, <3>1 DEF Check, TypeOK, Phases
  <2>4. CASE Pinged(p)
    <3>1. NoCall \in Calls
      BY VersionAssumption DEF NoCall, Calls, Versions
    <3>2. QED
      BY <2>4, <3>1 DEF Pinged, TypeOK, Phases
  <2>5. CASE Publish(p)
    BY <2>5 DEF Publish, TypeOK, Phases, Endpoints
  <2>6. CASE CannotPublish(p)
    BY <2>6 DEF CannotPublish, TypeOK, Phases
  <2>7. QED
    BY <1>1, <2>1, <2>2, <2>3, <2>4, <2>5, <2>6 DEF Startup
<1>2. ASSUME NEW p \in Processes, Serve(p) PROVE TypeOK'
  <2>1. CASE Hangup(p)
    BY <2>1 DEF Hangup, TypeOK, Phases
  <2>2. CASE Reload(p)
    <3>1. call' \in [Clients -> Calls] /\ conn' \in [Clients -> Conns]
      BY <2>2, CloseType DEF Reload
    <3>2. applied' \in [Processes -> Versions \cup {None}]
      BY <2>2 DEF Reload, TypeOK
    <3>3. QED
      BY <2>2, <3>1, <3>2 DEF Reload, TypeOK, Phases
  <2>3. ASSUME NEW c \in Clients, Accept(p, c) PROVE TypeOK'
    <3>1. [conn[c] EXCEPT !.state = "auth"] \in Conns
      BY DEF TypeOK, Conns
    <3>2. QED
      BY <2>3, <3>1 DEF Accept, TypeOK
  <2>4. ASSUME NEW c \in Clients, BeginReload(p, c) PROVE TypeOK'
    <3>1. [conn[c] EXCEPT !.state = "job"] \in Conns
      BY DEF TypeOK, Conns
    <3>2. QED
      BY <2>4, <3>1 DEF BeginReload, TypeOK, Phases
  <2>5. ASSUME NEW c \in Clients, AnswerPing(p, c) \/ Deny(p, c) PROVE TypeOK'
    <3>1. call' \in [Clients -> Calls] /\ conn' \in [Clients -> Conns]
      BY <2>5, CloseType DEF AnswerPing, Deny
    <3>2. QED
      BY <2>5, <3>1 DEF AnswerPing, Deny, TypeOK
  <2>6. QED
    BY <1>2, <2>1, <2>2, <2>3, <2>4, <2>5 DEF Serve
<1>3. ASSUME NEW p \in Processes, Finish(p) PROVE TypeOK'
  <2>1. endpoint \in Endpoints \cup {None}
    BY DEF TypeOK
  <2>2. CASE Kill(p)
    BY <2>1, <2>2, EndType DEF Kill
  <2>s. CASE Stop(p)
    BY <2>1, <2>s, EndType DEF Stop
  <2>3. CASE Interrupt(p)
    <3>1. CASE End(p, "exited") /\ UNCHANGED endpoint
      BY <2>1, <3>1, EndType
    <3>2. QED
      BY <2>3, <3>1 DEF Interrupt, TypeOK, Phases
  <2>4. CASE Drop(p)
    <3>1. CASE End(p, "exited") /\ UNCHANGED endpoint
      BY <2>1, <3>1, EndType
    <3>2. QED
      BY <2>4, <3>1 DEF Drop, TypeOK, Phases
  <2>5. CASE Remove(p)
    BY <2>5, EndType DEF Remove
  <2>6. QED
    BY <1>3, <2>2, <2>s, <2>3, <2>4, <2>5 DEF Finish
<1>4. ASSUME NEW c \in Clients, Ask(c) PROVE TypeOK'
  <2>1. CASE Look(c)
    <3>1. [state |-> IF endpoint = None THEN "error" ELSE "found",
           to |-> endpoint, asked |-> config] \in Calls
      BY DEF TypeOK, Calls
    <3>2. QED
      BY <2>1, <3>1 DEF Look, TypeOK
  <2>2. CASE Connect(c)
    <3>1. /\ \A x \in {"error", "waiting"} : [call[c] EXCEPT !.state = x] \in Calls
          /\ call[c].to # None
      BY <2>2 DEF Connect, TypeOK, Calls
    <3>2. ASSUME NEW q \in Processes, Listening(q), port[q] = call[c].to.port,
                 call' = [call EXCEPT ![c].state = "waiting"],
                 conn' = [conn EXCEPT ![c] =
                   [state |-> "backlog", server |-> q,
                    token |-> call[c].to.token, sent |-> FALSE]]
          PROVE  TypeOK'
      <4>1. call[c].to.token \in Processes
        BY <3>1 DEF TypeOK, Calls, Endpoints
      <4>2. [state |-> "backlog", server |-> q,
             token |-> call[c].to.token, sent |-> FALSE] \in Conns
        BY <4>1 DEF Conns
      <4>3. QED
        BY <2>2, <3>1, <3>2, <4>2 DEF Connect, TypeOK
    <3>3. QED
      BY <2>2, <3>1, <3>2 DEF Connect, TypeOK
  <2>3. CASE Send(c)
    <3>1. [conn[c] EXCEPT !.sent = TRUE] \in Conns
      BY DEF TypeOK, Conns
    <3>2. QED
      BY <2>3, <3>1 DEF Send, TypeOK
  <2>4. CASE GiveUp(c)
    <3>1. [call[c] EXCEPT !.state = "error"] \in Calls
      BY DEF TypeOK, Calls
    <3>2. QED
      BY <2>4, <3>1 DEF GiveUp, TypeOK
  <2>5. QED
    BY <1>4, <2>1, <2>2, <2>3, <2>4 DEF Ask
<1>5. CASE EditConfig
  BY <1>5, VersionAssumption DEF EditConfig, TypeOK, Versions
<1>6. CASE UNCHANGED vars
  BY <1>6 DEF vars, TypeOK
<1>7. QED
  BY <1>1, <1>2, <1>3, <1>4, <1>5, <1>6 DEF Next

\* Every reachable state is well typed; in particular a request that found an
\* endpoint knows its port and token until it ends.
THEOREM TypeCorrect == Spec => []TypeOK
<1>1. QED
  BY InitTypeOK, TypeOKStep, PTL DEF Spec

-----------------------------------------------------------------------------
(* Versions                                                                *)

\* A process reads a version that is not older than the one it runs under.
VersionsGrow ==
  \A p \in Processes :
    /\ phase[p] \in {"starting", "reloading"} => loaded[p] # None
    /\ loaded[p] # None => /\ loaded[p] <= config
                           /\ applied[p] # None => applied[p] <= loaded[p]
    /\ applied[p] # None => applied[p] <= config

LEMMA VersionsAreNat == Versions \subseteq Nat /\ None \notin Versions
  BY VersionAssumption, NameAssumption DEF Versions

\* What a step can do to one process.
ReadsConfig(p) == /\ loaded'[p] = config /\ applied'[p] = applied[p]
Applies(p) == /\ loaded[p] # None /\ loaded'[p] = None
              /\ applied'[p] \in {applied[p], loaded[p]}
              /\ phase'[p] \notin {"starting", "reloading"}
Forgets(p) == /\ loaded'[p] = None /\ applied'[p] = applied[p]
              /\ phase'[p] \notin {"starting", "reloading"}
KeepsVersions(p) ==
  /\ loaded'[p] = loaded[p] /\ applied'[p] = applied[p]
  /\ phase'[p] \in {"starting", "reloading"} => phase'[p] = phase[p]

LEMMA VersionEffect ==
  ASSUME TypeOK, VersionsGrow, Next, NEW p \in Processes
  PROVE  ReadsConfig(p) \/ Applies(p) \/ Forgets(p) \/ KeepsVersions(p)
<1> USE DEF files, processVars, callVars
<1> DEFINE Goal == ReadsConfig(p) \/ Applies(p) \/ Forgets(p) \/ KeepsVersions(p)
<1>a. /\ phase \in [Processes -> Phases]
      /\ loaded \in [Processes -> Versions \cup {None}]
      /\ applied \in [Processes -> Versions \cup {None}]
  BY DEF TypeOK
<1>1. ASSUME UNCHANGED <<phase, loaded, applied>> PROVE Goal
  BY <1>1 DEF KeepsVersions
<1>2. ASSUME NEW q \in Processes, Startup(q) PROVE Goal
  <2>1. CASE q # p
    BY <1>2, <1>a, <2>1
    DEF Startup, Start, Listen, Check, Pinged, Publish, CannotPublish, KeepsVersions
  <2>2. CASE Start(p)
    BY <1>a, <2>2 DEF Start, ReadsConfig, Forgets
  <2>3. CASE Listen(p)
    <3>1. loaded[p] # None
      BY <2>3 DEF Listen, VersionsGrow
    <3>2. QED
      BY <1>a, <2>3, <3>1 DEF Listen, Applies
  <2>4. CASE Check(p) \/ Pinged(p) \/ Publish(p) \/ CannotPublish(p)
    BY <1>a, <2>4 DEF Check, Pinged, Publish, CannotPublish, KeepsVersions
  <2>5. QED
    BY <1>2, <2>1, <2>2, <2>3, <2>4 DEF Startup
<1>3. ASSUME NEW q \in Processes, Serve(q) PROVE Goal
  <2>1. CASE q # p
    BY <1>3, <1>a, <2>1
    DEF Serve, Hangup, Reload, Accept, BeginReload, AnswerPing, Deny, KeepsVersions
  <2>2. CASE Hangup(p) \/ \E c \in Clients : BeginReload(p, c)
    BY <1>a, <2>2 DEF Hangup, BeginReload, ReadsConfig
  <2>3. CASE Reload(p)
    <3>1. loaded[p] # None
      BY <2>3 DEF Reload, VersionsGrow
    <3>2. QED
      BY <1>a, <2>3, <3>1 DEF Reload, Applies
  <2>4. CASE \E c \in Clients : Accept(p, c) \/ AnswerPing(p, c) \/ Deny(p, c)
    BY <1>1, <2>4 DEF Accept, AnswerPing, Deny
  <2>5. QED
    BY <1>3, <2>1, <2>2, <2>3, <2>4 DEF Serve
<1>4. ASSUME NEW q \in Processes, Finish(q) PROVE Goal
  <2>1. ASSUME NEW how \in {"exited", "stopped", "killed"}, End(q, how) PROVE Goal
    BY <1>a, <2>1 DEF End, Forgets, KeepsVersions
  <2>2. CASE /\ phase' \in {[phase EXCEPT ![q] = "closing"],
                            [phase EXCEPT ![q] = "removing"]}
             /\ UNCHANGED <<loaded, applied>>
    BY <1>a, <2>2 DEF KeepsVersions
  <2>3. QED
    BY <1>4, <2>1, <2>2 DEF Finish, Stop, Kill, Interrupt, Drop, Remove
<1>5. QED
  BY <1>1, <1>2, <1>3, <1>4
  DEF Next, EditConfig, Ask, Look, Connect, Send, GiveUp

\* Only an edit changes the version of the config file.
LEMMA ConfigMoves == Next => config' \in {config, config + 1}
<1> USE DEF files
<1>1. ASSUME NEW p \in Processes, Startup(p) PROVE config' = config
  BY <1>1 DEF Startup, Start, Listen, Check, Pinged, Publish, CannotPublish
<1>2. ASSUME NEW p \in Processes, Serve(p) PROVE config' = config
  BY <1>2 DEF Serve, Hangup, Reload, Accept, BeginReload, AnswerPing, Deny
<1>3. ASSUME NEW p \in Processes, Finish(p) PROVE config' = config
  <2>1. ASSUME NEW how \in {"exited", "stopped", "killed"}, End(p, how)
        PROVE  config' = config
    BY <2>1 DEF End
  <2>2. QED
    BY <1>3, <2>1 DEF Finish, Stop, Kill, Interrupt, Drop, Remove
<1>4. ASSUME NEW c \in Clients, Ask(c) PROVE config' = config
  BY <1>4 DEF Ask, Look, Connect, Send, GiveUp
<1>5. QED
  BY <1>1, <1>2, <1>3, <1>4 DEF Next, EditConfig

LEMMA VersionsGrowStep ==
  TypeOK /\ VersionsGrow /\ [Next]_vars => VersionsGrow'
<1> SUFFICES ASSUME TypeOK, VersionsGrow, Next, NEW p \in Processes
             PROVE  /\ phase'[p] \in {"starting", "reloading"} => loaded'[p] # None
                    /\ loaded'[p] # None =>
                         /\ loaded'[p] <= config'
                         /\ applied'[p] # None => applied'[p] <= loaded'[p]
                    /\ applied'[p] # None => applied'[p] <= config'
  BY DEF VersionsGrow, vars, files, processVars
<1>1. /\ config \in Nat /\ config # None /\ loaded[p] \in Nat \cup {None}
      /\ applied[p] \in Nat \cup {None}
  BY VersionsAreNat DEF TypeOK
<1>2. config' \in {config, config + 1}
  BY ConfigMoves
<1>3. ReadsConfig(p) \/ Applies(p) \/ Forgets(p) \/ KeepsVersions(p)
  BY VersionEffect
<1>4. QED
  BY <1>1, <1>2, <1>3
  DEF VersionsGrow, ReadsConfig, Applies, Forgets, KeepsVersions

-----------------------------------------------------------------------------
(* Acknowledgements                                                        *)

\* A requester asked for a version that exists, and its connection carries the
\* token of the endpoint it found.
RequestsMatch ==
  \A c \in Requesters :
    /\ call[c].asked <= config
    /\ call[c].state \in {"none", "found"} => conn[c].server = None
    /\ conn[c].server # None => /\ call[c].to # None
                                /\ call[c].to.token = conn[c].token

\* A reload that a process carries out is that of a requester which asked for
\* no later version than the one it has read, and which showed its own token.
JobsMatch ==
  \A p \in Processes : job[p] # None =>
    /\ phase[p] = "reloading"
    /\ conn[job[p]].state = "job"
    /\ conn[job[p]].server = p /\ conn[job[p]].token = p
    /\ call[job[p]].asked <= loaded[p]

\* What a step can do to one requester.
Untouched(c) == call'[c] = call[c] /\ conn'[c] = conn[c]
Looks(c) ==
  /\ call[c].state = "none" /\ conn'[c] = conn[c]
  /\ call'[c] = [state |-> IF endpoint = None THEN "error" ELSE "found",
                 to |-> endpoint, asked |-> config]
Connects(c) ==
  /\ call[c].state = "found"
  /\ \/ /\ call'[c] = [call[c] EXCEPT !.state = "waiting"]
        /\ \E q \in Processes :
             conn'[c] = [state |-> "backlog", server |-> q,
                         token |-> call[c].to.token, sent |-> FALSE]
     \/ call'[c] = [call[c] EXCEPT !.state = "error"] /\ conn'[c] = conn[c]
Sends(c) == call'[c] = call[c] /\ conn'[c] = [conn[c] EXCEPT !.sent = TRUE]
GivesUp(c) == /\ call[c].state = "waiting" /\ conn'[c] = conn[c]
              /\ call'[c] = [call[c] EXCEPT !.state = "error"]
MovesOn(c) ==
  /\ call'[c] = call[c]
  /\ \/ /\ conn[c].state = "backlog"
        /\ conn'[c] = [conn[c] EXCEPT !.state = "auth"]
     \/ /\ conn[c].state = "auth"
        /\ conn'[c] = [conn[c] EXCEPT !.state = "job"]
IsClosed(c, answer) ==
  /\ conn'[c] = Closed
  /\ call'[c] = IF call[c].state = "waiting"
                  THEN [call[c] EXCEPT !.state = answer] ELSE call[c]
Refused(c) ==
  /\ IsClosed(c, "error")
  /\ \/ conn[c].state = "auth"
     \/ \E p \in Processes : conn[c].server = p /\ job'[p] = None
Answered(c) ==
  \E p \in Processes :
    /\ job[p] = c /\ job'[p] = None
    /\ \/ IsClosed(c, "error")
       \/ IsClosed(c, "ok") /\ applied'[p] = loaded[p] /\ Reload(p)

LEMMA CloseEffect ==
  ASSUME TypeOK, NEW c \in Requesters, NEW cs, NEW answer, NEW dead,
         c \notin dead, Close(cs, answer, dead)
  PROVE  IF c \in cs THEN IsClosed(c, answer) ELSE Untouched(c)
  BY DEF Close, Clients, IsClosed, Untouched

LEMMA RequestEffect ==
  ASSUME TypeOK, Next, NEW c \in Requesters
  PROVE  \/ Untouched(c) \/ Looks(c) \/ Connects(c) \/ Sends(c) \/ GivesUp(c)
         \/ MovesOn(c) \/ Refused(c) \/ Answered(c)
<1> USE DEF files, processVars, callVars
<1> DEFINE Goal == \/ Untouched(c) \/ Looks(c) \/ Connects(c) \/ Sends(c)
                   \/ GivesUp(c) \/ MovesOn(c) \/ Refused(c) \/ Answered(c)
<1>a. /\ call \in [Clients -> Calls] /\ conn \in [Clients -> Conns]
      /\ job \in [Processes -> Requesters \cup {None}]
      /\ applied \in [Processes -> Versions \cup {None}]
      /\ c \in Clients /\ c \notin Processes /\ c # None
  BY NameAssumption DEF TypeOK, Clients
<1>1. ASSUME NEW q \in Processes, Startup(q) PROVE Goal
  BY <1>1, <1>a
  DEF Startup, Start, Listen, Check, Pinged, Publish, CannotPublish, Untouched
<1>2. ASSUME NEW q \in Processes, Serve(q) PROVE Goal
  <2>1. CASE Hangup(q)
    BY <2>1 DEF Hangup, Untouched
  <2>2. CASE Reload(q)
    <3>1. job'[q] = None
      BY <1>a, <2>2 DEF Reload
    <3>2. PICK answer \in {"ok", "error"} :
            /\ Close({job[q]} \ {None}, answer, {})
            /\ answer = "ok" => applied'[q] = loaded[q]
      BY <1>a, <2>2 DEF Reload
    <3>3. CASE job[q] = c
      BY <1>a, <2>2, <3>1, <3>2, <3>3, CloseEffect DEF Answered
    <3>4. CASE job[q] # c
      BY <1>a, <3>2, <3>4, CloseEffect
    <3>5. QED
      BY <3>3, <3>4
  <2>3. ASSUME NEW d \in Clients, Accept(q, d) PROVE Goal
    BY <1>a, <2>3 DEF Accept, MovesOn, Untouched
  <2>4. ASSUME NEW d \in Clients, BeginReload(q, d) PROVE Goal
    BY <1>a, <2>4 DEF BeginReload, Authenticating, MovesOn, Untouched
  <2>5. ASSUME NEW d \in Clients, AnswerPing(q, d) PROVE Goal
    BY <1>a, <2>5, CloseEffect DEF AnswerPing
  <2>6. ASSUME NEW d \in Clients, Deny(q, d) PROVE Goal
    BY <1>a, <2>6, CloseEffect DEF Deny, Authenticating, Refused
  <2>7. QED
    BY <1>2, <2>1, <2>2, <2>3, <2>4, <2>5, <2>6 DEF Serve
<1>3. ASSUME NEW q \in Processes, Finish(q) PROVE Goal
  <2>1. ASSUME NEW how, End(q, how) PROVE Goal
    <3>1. job'[q] = None
      BY <1>a, <2>1 DEF End
    <3>2. QED
      BY <1>a, <2>1, <3>1, CloseEffect DEF End, Refused
  <2>2. CASE UNCHANGED callVars
    BY <2>2 DEF Untouched
  <2>3. QED
    BY <1>3, <2>1, <2>2 DEF Finish, Stop, Kill, Interrupt, Drop, Remove
<1>4. ASSUME NEW d \in Clients, Ask(d) PROVE Goal
  <2>1. CASE d # c
    BY <1>4, <1>a, <2>1 DEF Ask, Look, Connect, Send, GiveUp, Untouched
  <2>2. CASE Look(c)
    BY <1>a, <2>2 DEF Look, Looks
  <2>3. CASE Connect(c)
    BY <1>a, <2>3 DEF Connect, Connects
  <2>4. CASE Send(c) \/ GiveUp(c)
    BY <1>a, <2>4 DEF Send, GiveUp, Sends, GivesUp
  <2>5. QED
    BY <1>4, <2>1, <2>2, <2>3, <2>4 DEF Ask
<1>5. CASE EditConfig
  BY <1>5 DEF EditConfig, Untouched
<1>6. QED
  BY <1>1, <1>2, <1>3, <1>4, <1>5 DEF Next

\* What a step can do to the job of one process.
BeginsJob(p) ==
  /\ job'[p] \in Requesters /\ phase'[p] = "reloading" /\ loaded'[p] = config
  /\ conn[job'[p]].state = "auth" /\ conn[job'[p]].server = p
  /\ conn[job'[p]].token = p
  /\ conn'[job'[p]] = [conn[job'[p]] EXCEPT !.state = "job"]
  /\ call'[job'[p]] = call[job'[p]]
KeepsJob(p) ==
  /\ job'[p] = job[p]
  /\ phase[p] = "reloading" =>
       phase'[p] = "reloading" /\ loaded'[p] = loaded[p]

LEMMA JobEffect ==
  ASSUME TypeOK, Next, NEW p \in Processes
  PROVE  job'[p] = None \/ BeginsJob(p) \/ KeepsJob(p)
<1> USE DEF files, processVars, callVars
<1> DEFINE Goal == job'[p] = None \/ BeginsJob(p) \/ KeepsJob(p)
<1>a. /\ phase \in [Processes -> Phases]
      /\ job \in [Processes -> Requesters \cup {None}]
      /\ loaded \in [Processes -> Versions \cup {None}]
      /\ call \in [Clients -> Calls] /\ conn \in [Clients -> Conns]
  BY DEF TypeOK
<1>1. ASSUME UNCHANGED <<phase, loaded, job>> PROVE Goal
  BY <1>1 DEF KeepsJob
<1>2. ASSUME NEW q \in Processes, Startup(q) PROVE Goal
  BY <1>2, <1>a
  DEF Startup, Start, Listen, Check, Pinged, Publish, CannotPublish, KeepsJob
<1>3. ASSUME NEW q \in Processes, Serve(q) PROVE Goal
  <2>1. CASE Hangup(q)
    BY <1>a, <2>1 DEF Hangup, KeepsJob
  <2>2. CASE Reload(q)
    BY <1>a, <2>2 DEF Reload, KeepsJob
  <2>3. ASSUME NEW c \in Clients, BeginReload(q, c) PROVE Goal
    <3>1. CASE q = p
      <4>1. /\ job'[p] = c /\ c \in Requesters /\ phase'[p] = "reloading"
            /\ loaded'[p] = config /\ call' = call
            /\ conn' = [conn EXCEPT ![c].state = "job"]
            /\ conn[c].state = "auth" /\ conn[c].server = p /\ conn[c].token = p
        BY <1>a, <2>3, <3>1 DEF BeginReload, Authenticating, Authorized
      <4>2. QED
        BY <1>a, <4>1 DEF BeginsJob
    <3>2. CASE q # p
      BY <1>a, <2>3, <3>2 DEF BeginReload, KeepsJob
    <3>3. QED
      BY <3>1, <3>2
  <2>4. ASSUME NEW c \in Clients, Accept(q, c) \/ AnswerPing(q, c) \/ Deny(q, c)
        PROVE  Goal
    BY <1>1, <2>4 DEF Accept, AnswerPing, Deny
  <2>5. QED
    BY <1>3, <2>1, <2>2, <2>3, <2>4 DEF Serve
<1>4. ASSUME NEW q \in Processes, Finish(q) PROVE Goal
  <2>1. ASSUME NEW how, End(q, how) PROVE Goal
    BY <1>a, <2>1 DEF End, KeepsJob
  <2>2. CASE /\ phase[q] \in {"serving", "closing"} /\ UNCHANGED <<loaded, job>>
             /\ phase' \in {[phase EXCEPT ![q] = "closing"],
                            [phase EXCEPT ![q] = "removing"]}
    BY <1>a, <2>2 DEF KeepsJob
  <2>3. QED
    BY <1>4, <2>1, <2>2 DEF Finish, Stop, Kill, Interrupt, Drop, Remove
<1>5. QED
  BY <1>1, <1>2, <1>3, <1>4
  DEF Next, EditConfig, Ask, Look, Connect, Send, GiveUp

\* The inductive invariant of the acknowledgements.
AckInv == /\ TypeOK /\ VersionsGrow /\ RequestsMatch /\ JobsMatch
          /\ AckMeansApplied

LEMMA ConfigGrows ==
  ASSUME TypeOK, Next
  PROVE  config \in Nat /\ config' \in {config, config + 1}
<1>1. config \in Nat
  BY VersionsAreNat DEF TypeOK
<1>2. QED
  BY <1>1, ConfigMoves

LEMMA RequestsMatchStep == AckInv /\ Next => RequestsMatch'
<1> SUFFICES ASSUME AckInv, Next, NEW c \in Requesters
             PROVE  /\ call'[c].asked <= config'
                    /\ call'[c].state \in {"none", "found"} => conn'[c].server = None
                    /\ conn'[c].server # None =>
                         call'[c].to # None /\ call'[c].to.token = conn'[c].token
  BY DEF RequestsMatch
<1>1. /\ call[c] \in Calls /\ conn[c] \in Conns /\ call[c].asked \in Nat
      /\ config \in Nat /\ config' \in Nat /\ config' >= config
  <2>1. call[c] \in Calls /\ conn[c] \in Conns
    BY DEF AckInv, TypeOK, Clients
  <2>2. call[c].asked \in Nat
    BY <2>1, VersionsAreNat DEF Calls
  <2>3. QED
    BY <2>1, <2>2, ConfigGrows DEF AckInv
<1>2. /\ call[c].asked <= config'
      /\ call[c].state \in {"none", "found"} => conn[c].server = None
      /\ conn[c].server # None =>
           call[c].to # None /\ call[c].to.token = conn[c].token
  BY <1>1 DEF AckInv, RequestsMatch
<1>3. CASE Untouched(c)
  BY <1>2, <1>3 DEF Untouched
<1>4. CASE Looks(c)
  BY <1>1, <1>2, <1>4 DEF Looks
<1>5. CASE Connects(c)
  <2>1. call[c].state = "found" /\ call[c].to # None /\ conn[c].server = None
    BY <1>1, <1>2, <1>5 DEF Connects, Calls
  <2>2. call'[c].to = call[c].to /\ call'[c].asked = call[c].asked
    BY <1>1, <1>5 DEF Connects, Calls
  <2>3. CASE conn'[c] = conn[c]
    BY <1>2, <2>1, <2>2, <2>3
  <2>4. CASE call'[c] = [call[c] EXCEPT !.state = "waiting"] /\ conn'[c] # conn[c]
    <3>1. call'[c].state = "waiting"
      BY <1>1, <2>4 DEF Calls
    <3>2. \E q \in Processes :
            conn'[c] = [state |-> "backlog", server |-> q,
                        token |-> call[c].to.token, sent |-> FALSE]
      BY <1>5, <2>4, Zenon DEF Connects
    <3>3. conn'[c].token = call[c].to.token
      BY <3>2
    <3>4. QED
      BY <1>2, <2>1, <2>2, <3>1, <3>3
  <2>5. QED
    BY <1>5, <2>3, <2>4 DEF Connects
<1>6. CASE Sends(c) \/ GivesUp(c) \/ MovesOn(c)
  BY <1>1, <1>2, <1>6 DEF Sends, GivesUp, MovesOn, Calls, Conns
<1>7. ASSUME NEW answer \in {"ok", "error"}, IsClosed(c, answer)
      PROVE  /\ call'[c].asked <= config'
             /\ conn'[c].server = None
  BY <1>1, <1>2, <1>7 DEF IsClosed, Closed, NoConn, Calls
<1>8. CASE Refused(c) \/ Answered(c)
  BY <1>7, <1>8 DEF Refused, Answered
<1>9. QED
  BY <1>3, <1>4, <1>5, <1>6, <1>8, RequestEffect DEF AckInv

LEMMA JobsMatchStep == AckInv /\ Next => JobsMatch'
<1> SUFFICES ASSUME AckInv, Next, NEW p \in Processes, job'[p] # None
             PROVE  /\ phase'[p] = "reloading"
                    /\ conn'[job'[p]].state = "job"
                    /\ conn'[job'[p]].server = p /\ conn'[job'[p]].token = p
                    /\ call'[job'[p]].asked <= loaded'[p]
  BY DEF JobsMatch
<1>1. CASE BeginsJob(p)
  <2>1. conn[job'[p]] \in Conns /\ call[job'[p]].asked <= config
    BY <1>1 DEF BeginsJob, AckInv, TypeOK, Clients, RequestsMatch
  <2>2. QED
    BY <1>1, <2>1 DEF BeginsJob, Conns
<1>2. CASE KeepsJob(p)
  <2> DEFINE c == job[p]
  <2>1. /\ job'[p] = c /\ c # None /\ phase'[p] = "reloading"
        /\ loaded'[p] = loaded[p]
        /\ conn[c].state = "job" /\ conn[c].server = p /\ conn[c].token = p
        /\ call[c].asked <= loaded[p]
    BY <1>2 DEF KeepsJob, AckInv, JobsMatch
  <2>2. /\ c \in Requesters /\ call[c] \in Calls /\ conn[c] \in Conns
        /\ p # None
    BY <2>1, NameAssumption DEF AckInv, TypeOK, Clients
  <2>3. call[c].state \notin {"none", "found"}
    BY <2>1, <2>2 DEF AckInv, RequestsMatch
  <2>4. ~Refused(c)
    BY <2>1 DEF Refused
  <2>5. ~Answered(c)
    <3>1. ASSUME NEW q \in Processes, job[q] = c, job'[q] = None PROVE FALSE
      <4>1. conn[c].server = q
        BY <2>1, <3>1 DEF AckInv, JobsMatch
      <4>2. QED
        BY <2>1, <3>1, <4>1
    <3>2. QED
      BY <3>1 DEF Answered
  <2>6. Untouched(c) \/ Sends(c) \/ GivesUp(c)
    BY <2>1, <2>2, <2>3, <2>4, <2>5, RequestEffect
    DEF AckInv, Looks, Connects, MovesOn
  <2> HIDE DEF c
  <2>7. /\ conn'[c].state = "job" /\ conn'[c].server = p /\ conn'[c].token = p
        /\ call'[c].asked = call[c].asked
    BY <2>1, <2>2, <2>6 DEF Untouched, Sends, GivesUp, Calls, Conns
  <2>8. QED
    BY <2>1, <2>7
<1>3. QED
  BY <1>1, <1>2, JobEffect DEF AckInv

\* A process never goes back to an older version.
LEMMA AppliedGrows ==
  ASSUME AckInv, Next, NEW p \in Processes, applied[p] # None
  PROVE  applied'[p] # None /\ applied'[p] >= applied[p]
<1>1. applied[p] \in Nat /\ (loaded[p] # None => loaded[p] >= applied[p])
  <2>1. applied[p] \in Nat /\ loaded[p] \in Nat \cup {None}
    BY VersionsAreNat DEF AckInv, TypeOK
  <2>2. loaded[p] # None => applied[p] <= loaded[p]
    BY DEF AckInv, VersionsGrow
  <2>3. QED
    BY <2>1, <2>2
<1>2. applied'[p] = applied[p] \/ (applied'[p] = loaded[p] /\ loaded[p] # None)
  <2>1. ReadsConfig(p) \/ Applies(p) \/ Forgets(p) \/ KeepsVersions(p)
    BY VersionEffect DEF AckInv
  <2>2. QED
    BY <2>1 DEF ReadsConfig, Applies, Forgets, KeepsVersions
<1>3. QED
  BY <1>1, <1>2

LEMMA AckMeansAppliedStep == AckInv /\ Next => AckMeansApplied'
<1> SUFFICES ASSUME AckInv, Next, NEW c \in Requesters, call'[c].state = "ok"
             PROVE  /\ applied'[call'[c].to.token] # None
                    /\ applied'[call'[c].to.token] >= call'[c].asked
  BY DEF AckMeansApplied
<1>1. call[c] \in Calls /\ call[c].asked \in Nat
  <2>1. call[c] \in Calls
    BY DEF AckInv, TypeOK, Clients
  <2>2. QED
    BY <2>1, VersionsAreNat DEF Calls
<1>2. CASE call'[c] = call[c] /\ call[c].state = "ok"
  <2> DEFINE p == call[c].to.token
  <2>1. /\ p \in Processes /\ applied[p] # None /\ applied[p] >= call[c].asked
    BY <1>1, <1>2 DEF Calls, Endpoints, AckInv, AckMeansApplied
  <2>2. applied[p] \in Nat /\ applied'[p] \in Nat \cup {None}
    BY <2>1, VersionsAreNat, TypeOKStep DEF AckInv, TypeOK
  <2>3. applied'[p] # None /\ applied'[p] >= applied[p]
    BY <2>1, AppliedGrows
  <2>4. QED
    BY <1>1, <1>2, <2>1, <2>2, <2>3
<1>3. CASE Answered(c) /\ call[c].state = "waiting"
  <2>1. PICK p \in Processes :
          /\ job[p] = c /\ applied'[p] = loaded[p]
          /\ call'[c] = [call[c] EXCEPT !.state = "ok"]
    BY <1>1, <1>3 DEF Answered, IsClosed, Calls
  <2>2. /\ phase[p] = "reloading" /\ conn[c].server = p /\ conn[c].token = p
        /\ call[c].asked <= loaded[p] /\ p # None
    BY <2>1, NameAssumption DEF AckInv, JobsMatch
  <2>3. call[c].to.token = p
    BY <2>2 DEF AckInv, RequestsMatch
  <2>4. loaded[p] # None /\ loaded[p] \in Nat
    BY <2>2, VersionsAreNat DEF AckInv, VersionsGrow, TypeOK
  <2>5. call'[c].to = call[c].to /\ call'[c].asked = call[c].asked
    BY <1>1, <2>1 DEF Calls
  <2>6. QED
    BY <1>1, <2>1, <2>2, <2>3, <2>4, <2>5
<1>4. \/ call'[c] = call[c] /\ call[c].state = "ok"
      \/ Answered(c) /\ call[c].state = "waiting"
  <2>1. CASE Untouched(c) \/ Sends(c) \/ MovesOn(c)
    BY <2>1 DEF Untouched, Sends, MovesOn
  <2>2. CASE Looks(c) \/ Connects(c) \/ GivesUp(c)
    <3>1. call'[c].state # "ok"
      BY <1>1, <2>2 DEF Looks, Connects, GivesUp, Calls
    <3>2. QED
      BY <3>1
  <2>3. ASSUME NEW answer \in {"ok", "error"}, IsClosed(c, answer)
        PROVE  \/ call'[c] = call[c] /\ call[c].state = "ok"
               \/ answer = "ok" /\ call[c].state = "waiting"
    BY <1>1, <2>3 DEF IsClosed, Calls
  <2>4. CASE Refused(c) \/ Answered(c)
    BY <2>3, <2>4 DEF Refused, Answered
  <2>5. QED
    BY <2>1, <2>2, <2>4, RequestEffect DEF AckInv
<1>5. QED
  BY <1>2, <1>3, <1>4

LEMMA AckInductive == Spec => []AckInv
<1>1. Init => AckInv
  <2> SUFFICES ASSUME Init PROVE AckInv
    OBVIOUS
  <2>1. 0 <= config /\ config \in Nat
    BY DEF Init
  <2>2. VersionsGrow /\ JobsMatch
    BY DEF Init, VersionsGrow, JobsMatch
  <2>3. RequestsMatch /\ AckMeansApplied
    BY DEF Init, RequestsMatch, AckMeansApplied, NoCall, NoConn, Clients
  <2>4. QED
    BY <2>2, <2>3, InitTypeOK DEF AckInv
<1>2. AckInv /\ [Next]_vars => AckInv'
  <2>1. AckInv /\ Next => AckInv'
    BY TypeOKStep, VersionsGrowStep, RequestsMatchStep, JobsMatchStep,
       AckMeansAppliedStep DEF AckInv
  <2>2. ASSUME AckInv, UNCHANGED vars PROVE AckInv'
    BY <2>2 DEF AckInv, vars, files, processVars, callVars, TypeOK, VersionsGrow,
      RequestsMatch, JobsMatch, AckMeansApplied
  <2>3. QED
    BY <2>1, <2>2
<1>3. QED
  BY <1>1, <1>2, PTL DEF Spec

\* "The command returns success only after the running process accepts the
\* update": whatever was edited, killed or started meanwhile, the process that
\* the requester's endpoint named has applied the config as it was when the
\* command was given, or a later one.
THEOREM AcknowledgedIsApplied == Spec => []AckMeansApplied
<1>1. AckInv => AckMeansApplied
  BY DEF AckInv
<1>2. QED
  BY <1>1, AckInductive, PTL

-----------------------------------------------------------------------------
(* Endpoints                                                               *)

Controlling == {"serving", "reloading", "closing", "removing"}

\* The endpoint file is that of a process which still has its control socket,
\* or of one that ended without returning from run.
OwnersLive ==
  /\ \A p \in Processes : control[p] = "held" => phase[p] \in Controlling
  /\ endpoint # None => \/ phase[endpoint.token] \in Unreturned
                        \/ /\ control[endpoint.token] = "held"
                           /\ port[endpoint.token] = endpoint.port

\* What a step of the process p can do to its control socket.
Starts(p) == /\ phase[p] \notin Controlling \cup Unreturned
             /\ UNCHANGED <<endpoint, port>> /\ control'[p] # "held"
Refuses(p) == /\ phase[p] \notin Controlling \cup Unreturned
              /\ UNCHANGED <<endpoint, port>> /\ UNCHANGED control
Publishes(p) == /\ control'[p] = "held" /\ phase'[p] = "serving"
                /\ endpoint' = [port |-> port'[p], token |-> p]
Serves(p) == /\ phase[p] \in Controlling /\ phase'[p] \in Controlling
             /\ UNCHANGED <<endpoint, control, port>>
Returns(p) ==
  /\ control'[p] = "none"
  /\ \/ phase'[p] \in Unreturned /\ UNCHANGED endpoint
     \/ endpoint' = None
     \/ /\ phase[p] \in Controlling /\ UNCHANGED endpoint
        /\ control[p] # "held" \/ endpoint # Own(p)
OthersKept(p) ==
  \A q \in Processes \ {p} :
    phase'[q] = phase[q] /\ control'[q] = control[q] /\ port'[q] = port[q]

LEMMA ControlEffect ==
  ASSUME TypeOK, OwnersLive, Next
  PROVE  \/ UNCHANGED <<endpoint, phase, control, port>>
         \/ \E p \in Processes :
              /\ OthersKept(p)
              /\ \/ Starts(p) \/ Refuses(p) \/ Publishes(p) \/ Serves(p)
                 \/ Returns(p)
<1> USE DEF files, processVars, callVars
<1> DEFINE Did(p) == /\ OthersKept(p)
                     /\ \/ Starts(p) \/ Refuses(p) \/ Publishes(p) \/ Serves(p)
                        \/ Returns(p)
           Kept == UNCHANGED <<endpoint, phase, control, port>>
<1>a. /\ phase \in [Processes -> Phases]
      /\ control \in [Processes -> {"none", "held", "refused", "failed"}]
      /\ port \in [Processes -> Ports \cup {None}]
  BY DEF TypeOK
<1>1. ASSUME NEW p \in Processes, Startup(p) PROVE Did(p)
  <2>1. CASE Start(p) \/ Listen(p) \/ Check(p)
    BY <1>a, <2>1 DEF Start, Listen, Check, Refuses, OthersKept, Controlling
  <2>2. CASE Pinged(p)
    BY <1>a, <2>2 DEF Pinged, Starts, Refuses, OthersKept, Controlling
  <2>3. CASE Publish(p)
    BY <1>a, <2>3 DEF Publish, Publishes, OthersKept
  <2>4. CASE CannotPublish(p)
    BY <1>a, <2>4 DEF CannotPublish, Starts, OthersKept, Controlling
  <2>5. QED
    BY <1>1, <2>1, <2>2, <2>3, <2>4 DEF Startup
<1>2. ASSUME NEW p \in Processes, Serve(p) PROVE Kept \/ Did(p)
  <2>1. CASE Hangup(p) \/ Reload(p) \/ \E c \in Clients : BeginReload(p, c)
    BY <1>a, <2>1
    DEF Hangup, Reload, BeginReload, Serves, OthersKept, Controlling
  <2>2. CASE \E c \in Clients : Accept(p, c) \/ AnswerPing(p, c) \/ Deny(p, c)
    BY <2>2 DEF Accept, AnswerPing, Deny
  <2>3. QED
    BY <1>2, <2>1, <2>2 DEF Serve
<1>3. ASSUME NEW p \in Processes, Finish(p) PROVE Did(p)
  <2>1. ASSUME NEW how, End(p, how)
        PROVE  OthersKept(p) /\ control'[p] = "none" /\ phase'[p] = how
    BY <1>a, <2>1 DEF End, OthersKept
  <2>2. CASE Stop(p) \/ Kill(p)
    BY <2>1, <2>2 DEF Stop, Kill, Returns, Unreturned
  <2>3. CASE Remove(p)
    BY <2>1, <2>3 DEF Remove, Returns
  <2>4. CASE Interrupt(p)
    <3>1. CASE control[p] = "held"
      BY <1>a, <2>4, <3>1 DEF Interrupt, Serves, OthersKept, Controlling
    <3>2. CASE control[p] # "held"
      BY <2>1, <2>4, <3>2 DEF Interrupt, Returns, Controlling
    <3>3. QED
      BY <3>1, <3>2
  <2>5. CASE Drop(p)
    <3>1. CASE endpoint = Own(p)
      BY <1>a, <2>5, <3>1 DEF Drop, Serves, OthersKept, Controlling
    <3>2. CASE endpoint # Own(p)
      BY <2>1, <2>5, <3>2 DEF Drop, Returns, Controlling
    <3>3. QED
      BY <3>1, <3>2
  <2>6. QED
    BY <1>3, <2>2, <2>3, <2>4, <2>5 DEF Finish
<1>4. CASE EditConfig \/ \E c \in Clients : Ask(c)
  BY <1>4 DEF EditConfig, Ask, Look, Connect, Send, GiveUp
<1>5. QED
  BY <1>1, <1>2, <1>3, <1>4 DEF Next

LEMMA OwnersLiveStep == TypeOK /\ OwnersLive /\ Next => OwnersLive'
<1> SUFFICES ASSUME TypeOK, OwnersLive, Next PROVE OwnersLive'
  OBVIOUS
<1>a. /\ endpoint # None => /\ endpoint \in Endpoints
                            /\ endpoint.token \in Processes
      /\ \A p \in Processes : Own(p).token = p /\ Own(p).port = port[p]
  BY DEF TypeOK, Endpoints, Own
<1>1. CASE UNCHANGED <<endpoint, phase, control, port>>
  BY <1>1 DEF OwnersLive
<1>2. ASSUME NEW p \in Processes, OthersKept(p),
             \/ Starts(p) \/ Refuses(p) \/ Publishes(p) \/ Serves(p)
             \/ Returns(p)
      PROVE  OwnersLive'
  <2>1. ASSUME NEW q \in Processes, control'[q] = "held"
        PROVE  phase'[q] \in Controlling
    BY <1>2, <2>1 DEF OthersKept, Starts, Refuses, Publishes, Serves, Returns,
      OwnersLive, Controlling
  <2>2. CASE endpoint' = endpoint /\ endpoint # None /\ endpoint.token # p
    BY <1>a, <1>2, <2>1, <2>2 DEF OthersKept, OwnersLive
  <2>3. CASE endpoint' = endpoint /\ endpoint # None /\ endpoint.token = p
    <3>1. \/ phase[p] \in Unreturned
          \/ /\ control[p] = "held" /\ port[p] = endpoint.port
             /\ phase[p] \in Controlling
      BY <2>3 DEF OwnersLive
    <3>2. control[p] = "held" => endpoint = Own(p)
      BY <1>a, <2>3, <3>1 DEF Endpoints, Own, Controlling, OwnersLive
    <3>3. \/ phase'[p] \in Unreturned
          \/ control'[p] = "held" /\ port'[p] = endpoint.port
      BY <1>2, <2>3, <3>1, <3>2
      DEF Starts, Refuses, Publishes, Serves, Returns, Controlling
    <3>4. QED
      BY <2>1, <2>3, <3>3 DEF OwnersLive
  <2>4. CASE endpoint' = None
    BY <2>1, <2>4 DEF OwnersLive
  <2>5. CASE Publishes(p)
    <3>1. endpoint'.token = p /\ endpoint'.port = port'[p] /\ control'[p] = "held"
      BY <2>5 DEF Publishes
    <3>2. QED
      BY <2>1, <3>1 DEF OwnersLive
  <2>6. endpoint' = endpoint \/ endpoint' = None \/ Publishes(p)
    BY <1>2 DEF Starts, Refuses, Serves, Returns
  <2>7. QED
    BY <2>2, <2>3, <2>4, <2>5, <2>6
<1>3. QED
  BY <1>1, <1>2, ControlEffect

LEMMA InitOwnersLive == Init => OwnersLive
  BY DEF Init, OwnersLive

LEMMA OwnersAlwaysLive == Spec => [](TypeOK /\ OwnersLive)
<1>1. Init => TypeOK /\ OwnersLive
  BY InitTypeOK, InitOwnersLive
<1>2. TypeOK /\ OwnersLive /\ [Next]_vars => (TypeOK /\ OwnersLive)'
  <2>1. ASSUME OwnersLive, UNCHANGED vars PROVE OwnersLive'
    BY <2>1 DEF OwnersLive, vars, files, processVars
  <2>2. QED
    BY <2>1, TypeOKStep, OwnersLiveStep
<1>3. QED
  BY <1>1, <1>2, PTL DEF Spec

\* Server::bind and drop: what a process writes, reads and removes in separate
\* steps next to others that do the same never leads to a process that is not
\* listening there, but for one that ended without returning from run.
THEOREM EndpointAlwaysServed == Spec => []EndpointIsServed
<1>1. TypeOK /\ OwnersLive => EndpointIsServed
  BY DEF TypeOK, OwnersLive, EndpointIsServed, Controlling, Endpoints, Listening, Own
<1>2. QED
  BY <1>1, OwnersAlwaysLive, PTL

-----------------------------------------------------------------------------
(* A process alone                                                         *)

\* A process that is alone asks nobody and holds the endpoint it serves.
StaysAlone(p) ==
  /\ Live(p) /\ \A q \in Processes \ {p} : ~Live(q)
  /\ phase[p] \notin {"starting", "checking"}
  /\ phase[p] = "pinging" => call[p].state \in {"found", "error"}
  /\ phase[p] \in {"serving", "reloading"} /\ control[p] # "failed" =>
       control[p] = "held" /\ endpoint = Own(p)
AloneStays == \A p \in Processes : alone[p] => StaysAlone(p)

LEMMA PingOfTheAlone ==
  ASSUME TypeOK, AloneStays, Next, NEW p \in Processes, alone[p],
         phase[p] = "pinging", phase'[p] = "pinging"
  PROVE  call'[p].state \in {"found", "error"}
<1> USE DEF files, processVars, callVars
<1>a. /\ call \in [Clients -> Calls] /\ call[p] \in Calls
      /\ phase \in [Processes -> Phases] /\ p \in Clients
      /\ \A x \in {"found", "error"} :
           [call[p] EXCEPT !.state = x].state \in {"found", "error"}
  BY DEF TypeOK, Clients, Calls
<1>b. /\ call[p].state \in {"found", "error"}
      /\ \A q \in Processes \ {p} : ~Live(q)
  BY DEF AloneStays, StaysAlone
<1>1. ASSUME UNCHANGED call PROVE call'[p].state \in {"found", "error"}
  BY <1>1, <1>b
<1>2. ASSUME NEW q \in Processes, Startup(q)
      PROVE  call'[p].state \in {"found", "error"}
  <2>1. CASE q = p
    BY <1>2, <2>1, <1>a
    DEF Startup, Start, Listen, Check, Pinged, Publish, CannotPublish
  <2>2. CASE q # p
    BY <1>2, <2>2, <1>a, <1>b
    DEF Startup, Start, Listen, Check, Pinged, Publish, CannotPublish
  <2>3. QED
    BY <2>1, <2>2
<1>3. ASSUME NEW q \in Processes, Serve(q)
      PROVE  FALSE
  <2>1. q # p
    BY <1>3, <1>a
    DEF Serve, Hangup, Reload, Accept, BeginReload, AnswerPing, Deny
  <2>2. QED
    BY <1>3, <1>b, <2>1
    DEF Serve, Hangup, Reload, Accept, BeginReload, AnswerPing, Deny, Live
<1>4. ASSUME NEW q \in Processes, Finish(q)
      PROVE  FALSE
  <2>1. q # p
    BY <1>4, <1>a DEF Finish, Stop, Kill, Interrupt, Drop, Remove, End
  <2>2. QED
    BY <1>4, <1>b, <2>1 DEF Finish, Stop, Kill, Interrupt, Drop, Remove, Live
<1>5. ASSUME NEW c \in Clients, Ask(c)
      PROVE  call'[p].state \in {"found", "error"}
  <2>1. CASE c # p
    BY <1>5, <2>1, <1>a, <1>b DEF Ask, Look, Connect, Send, GiveUp
  <2>2. CASE c = p
    <3>1. \A q \in Processes : ~Listening(q)
      BY <1>b DEF Listening, Live
    <3>2. p \notin Requesters
      BY NameAssumption
    <3>3. QED
      BY <1>5, <2>2, <3>1, <3>2, <1>a, <1>b DEF Ask, Look, Connect, Send, GiveUp
  <2>3. QED
    BY <2>1, <2>2
<1>6. QED
  BY <1>1, <1>2, <1>3, <1>4, <1>5 DEF Next, EditConfig

LEMMA AloneStaysStep == TypeOK /\ AloneStays /\ Next => AloneStays'
<1> SUFFICES ASSUME TypeOK, AloneStays, Next, NEW p \in Processes, alone'[p]
             PROVE  StaysAlone(p)'
  BY DEF AloneStays
<1> USE DEF files, processVars, callVars
<1>a. /\ phase \in [Processes -> Phases] /\ alone \in [Processes -> BOOLEAN]
      /\ control \in [Processes -> {"none", "held", "refused", "failed"}]
      /\ port \in [Processes -> Ports \cup {None}]
      /\ call \in [Clients -> Calls] /\ p \in Clients
  BY DEF TypeOK, Clients
<1>b. alone[p] => StaysAlone(p)
  BY DEF AloneStays
\* Only what p does itself matters: the others are not live.
<1>1. ASSUME NEW q \in Processes \ {p}, Startup(q) \/ Serve(q) \/ Finish(q)
      PROVE  FALSE
  <2>1. ~Start(q)
    BY <1>a DEF Start
  <2>2. alone[p] /\ ~Live(q)
    <3>1. Startup(q) => alone'[p] = alone[p]
      BY <2>1, <1>a DEF Startup, Listen, Check, Pinged, Publish, CannotPublish
    <3>2. Serve(q) => alone'[p] = alone[p]
      BY DEF Serve, Hangup, Reload, Accept, BeginReload, AnswerPing, Deny
    <3>3. Finish(q) => alone'[p] = alone[p]
      BY <1>a DEF Finish, Stop, Kill, Interrupt, Drop, Remove, End
    <3>4. QED
      BY <1>1, <3>1, <3>2, <3>3, <1>b DEF StaysAlone
  <2>3. QED
    BY <1>1, <2>1, <2>2
    DEF Startup, Listen, Check, Pinged, Publish, CannotPublish, Serve, Hangup,
        Reload, Accept, BeginReload, AnswerPing, Deny, Finish, Stop, Kill, Interrupt,
        Drop, Remove, Live
<1>2. CASE Check(p)
  <2>1. /\ \A q \in Processes \ {p} : ~Live(q) /\ phase'[q] = phase[q]
        /\ phase'[p] \in {"pinging", "publishing"}
        /\ phase'[p] = "pinging" => call'[p].state = "found"
    BY <1>2, <1>a DEF Check
  <2>2. QED
    BY <2>1 DEF StaysAlone, Live
<1>3. ASSUME alone[p], \A q \in Processes \ {p} : phase'[q] = phase[q],
             phase'[p] \notin {"off", "starting", "checking", "exited"} \cup Unreturned,
             phase'[p] # "pinging" \/ phase[p] = "pinging",
             phase'[p] \in {"serving", "reloading"} /\ control'[p] # "failed" =>
               control'[p] = "held" /\ endpoint' = Own(p)'
      PROVE  StaysAlone(p)'
  <2>1. \A q \in Processes \ {p} : ~Live(q)'
    BY <1>3, <1>b DEF StaysAlone, Live
  <2>2. phase'[p] = "pinging" => call'[p].state \in {"found", "error"}
    BY <1>3, PingOfTheAlone
  <2>3. QED
    BY <1>3, <2>1, <2>2 DEF StaysAlone, Live
<1>4. ASSUME alone[p], UNCHANGED <<phase, control, port, endpoint>>
      PROVE  StaysAlone(p)'
  <2>1. /\ phase'[p] \notin {"off", "starting", "checking", "exited"} \cup Unreturned
        /\ phase'[p] \in {"serving", "reloading"} /\ control'[p] # "failed" =>
             control'[p] = "held" /\ endpoint' = Own(p)'
    BY <1>4, <1>b DEF StaysAlone, Live, Own
  <2>2. QED
    BY <1>3, <1>4, <2>1
<1>5. CASE Startup(p) /\ ~Check(p)
  <2>1. alone[p] /\ StaysAlone(p)
    BY <1>5, <1>a, <1>b
    DEF Startup, Start, Listen, Pinged, Publish, CannotPublish
  <2>2. CASE Pinged(p)
    BY <1>3, <1>a, <2>1, <2>2 DEF Pinged, StaysAlone
  <2>3. CASE Publish(p)
    <3>1. endpoint' = Own(p)'
      BY <1>a, <2>3 DEF Publish, Own
    <3>2. QED
      BY <1>3, <1>a, <2>1, <2>3, <3>1 DEF Publish
  <2>4. CASE CannotPublish(p)
    BY <1>3, <1>a, <2>1, <2>4 DEF CannotPublish
  <2>5. QED
    BY <1>5, <1>a, <2>1, <2>2, <2>3, <2>4
    DEF Startup, Start, Listen, StaysAlone, Live
<1>6. CASE Serve(p)
  <2>1. alone[p] /\ StaysAlone(p) /\ UNCHANGED <<endpoint, control, port>>
    BY <1>6, <1>b
    DEF Serve, Hangup, Reload, Accept, BeginReload, AnswerPing, Deny
  <2>2. CASE UNCHANGED phase
    BY <1>4, <2>1, <2>2
  <2>3. CASE Hangup(p) \/ Reload(p) \/ \E c \in Clients : BeginReload(p, c)
    <3>1. /\ phase[p] \in {"serving", "reloading"}
          /\ phase'[p] \in {"serving", "reloading"}
          /\ \A q \in Processes \ {p} : phase'[q] = phase[q]
      BY <2>3, <1>a DEF Hangup, Reload, BeginReload
    <3>2. control[p] # "failed" => control[p] = "held" /\ endpoint = Own(p)
      BY <2>1, <3>1 DEF StaysAlone
    <3>3. Own(p)' = Own(p)
      BY <2>1 DEF Own
    <3>4. QED
      BY <1>3, <2>1, <3>1, <3>2, <3>3
  <2>4. QED
    BY <1>6, <2>2, <2>3 DEF Serve, Accept, AnswerPing, Deny
<1>7. CASE Finish(p)
  <2>1. ASSUME NEW how, End(p, how) PROVE FALSE
    BY <1>a, <2>1 DEF End
  <2>2. /\ alone[p]
        /\ phase' \in {[phase EXCEPT ![p] = "closing"],
                       [phase EXCEPT ![p] = "removing"]}
    BY <1>7, <2>1 DEF Finish, Stop, Kill, Interrupt, Drop, Remove
  <2>3. QED
    BY <1>3, <1>a, <2>2
<1>8. CASE EditConfig \/ \E c \in Clients : Ask(c)
  BY <1>4, <1>8 DEF EditConfig, Ask, Look, Connect, Send, GiveUp
<1>9. QED
  BY <1>1, <1>2, <1>5, <1>6, <1>7, <1>8 DEF Next

\* "Stale endpoint files from a crash are replaced on startup": a process next
\* to which no other has lived since it looked for one owns the endpoint and
\* listens, whatever those before it have left behind.
THEOREM AloneIsFound == Spec => []AloneIsReachable
<1>1. Init => AloneStays
  BY DEF Init, AloneStays
<1>2. TypeOK /\ AloneStays /\ [Next]_vars => AloneStays'
  <2>1. ASSUME AloneStays, UNCHANGED vars PROVE AloneStays'
    BY <2>1
    DEF AloneStays, StaysAlone, Live, Own, vars, files, processVars, callVars
  <2>2. QED
    BY <2>1, AloneStaysStep
<1>3. AloneStays => AloneIsReachable
  BY DEF AloneStays, StaysAlone, AloneIsReachable, Listening
<1>4. QED
  BY <1>1, <1>2, <1>3, TypeCorrect, PTL DEF Spec
-----------------------------------------------------------------------------
(* Connections                                                             *)

\* A connection the server has not closed is one that it still serves: its
\* control socket is open, and as a reload it is the one under way.
OnItsWay(c) == conn[c].state \in {"backlog", "auth", "job"}
Served(c) == /\ conn[c].server \in Processes /\ Listening(conn[c].server)
             /\ conn[c].state = "job" => job[conn[c].server] = c
ConnectionsAreServed ==
  \A c \in Clients : /\ OnItsWay(c) => Served(c)
                     /\ call[c].state = "waiting" => OnItsWay(c)

\* What a step can do to one connection.
GoesOnListening(p) ==
  control'[p] = "held" /\ phase'[p] \in {"serving", "reloading", "closing", "removing"}
Leaves(c) == /\ conn'[c] = conn[c] \/ conn'[c] = [conn[c] EXCEPT !.sent = TRUE]
             /\ call'[c].state = "waiting" => call[c].state = "waiting"
             /\ OnItsWay(c) => /\ GoesOnListening(conn[c].server)
                               /\ conn[c].state = "job" =>
                                    job'[conn[c].server] = job[conn[c].server]
Reaches(c) == /\ conn'[c].state = "backlog" /\ conn'[c].server \in Processes
              /\ GoesOnListening(conn'[c].server)
Proceeds(c) ==
  /\ OnItsWay(c) /\ conn'[c].server = conn[c].server
  /\ GoesOnListening(conn[c].server)
  /\ \/ conn'[c].state = "auth"
     \/ conn'[c].state = "job" /\ job'[conn[c].server] = c
Ends(c) == conn'[c] = Closed /\ call'[c].state # "waiting"

LEMMA EffectsServe ==
  ASSUME TypeOK, ConnectionsAreServed, NEW c \in Clients,
         Leaves(c) \/ Reaches(c) \/ Proceeds(c) \/ Ends(c)
  PROVE  /\ OnItsWay(c)' => Served(c)'
         /\ call'[c].state = "waiting" => OnItsWay(c)'
<1>1. /\ conn[c] \in Conns
      /\ OnItsWay(c) => Served(c)
      /\ call[c].state = "waiting" => OnItsWay(c)
  BY DEF TypeOK, ConnectionsAreServed
<1>2. CASE Leaves(c)
  <2>1. conn'[c].state = conn[c].state /\ conn'[c].server = conn[c].server
    BY <1>1, <1>2 DEF Leaves, Conns
  <2>2. OnItsWay(c)' <=> OnItsWay(c)
    BY <2>1 DEF OnItsWay
  <2>3. OnItsWay(c) => Served(c)'
    BY <1>1, <1>2, <2>1 DEF Leaves, Served, GoesOnListening, Listening
  <2>4. QED
    BY <1>1, <1>2, <2>2, <2>3 DEF Leaves
<1>3. CASE Reaches(c)
  BY <1>3 DEF Reaches, OnItsWay, Served, GoesOnListening, Listening
<1>4. CASE Proceeds(c)
  BY <1>1, <1>4 DEF Proceeds, OnItsWay, Served, GoesOnListening, Listening
<1>5. CASE Ends(c)
  BY <1>5 DEF Ends, Closed, NoConn, OnItsWay
<1>6. QED
  BY <1>2, <1>3, <1>4, <1>5

LEMMA CloseEnds ==
  ASSUME TypeOK, NEW c \in Clients, NEW cs, NEW answer \in {"ok", "error"},
         NEW dead, Close(cs, answer, dead)
  PROVE  IF c \in cs THEN Ends(c)
         ELSE /\ conn'[c] = conn[c]
              /\ call'[c].state = "waiting" => call[c].state = "waiting"
<1>1. call[c] \in Calls
  BY DEF TypeOK
<1>2. NoCall.state = "none"
  BY DEF NoCall
<1>3. [call[c] EXCEPT !.state = answer].state = answer
  BY <1>1 DEF Calls
<1>4. QED
  BY <1>2, <1>3 DEF Close, Ends

LEMMA ConnectionEffect ==
  ASSUME AckInv, ConnectionsAreServed, Next, NEW c \in Clients
  PROVE  Leaves(c) \/ Reaches(c) \/ Proceeds(c) \/ Ends(c)
<1> USE DEF files, processVars, callVars
<1> DEFINE Goal == Leaves(c) \/ Reaches(c) \/ Proceeds(c) \/ Ends(c)
           s == conn[c].server
<1>a. /\ TypeOK /\ phase \in [Processes -> Phases]
      /\ control \in [Processes -> {"none", "held", "refused", "failed"}]
      /\ job \in [Processes -> Requesters \cup {None}]
      /\ call \in [Clients -> Calls] /\ conn \in [Clients -> Conns]
      /\ call[c] \in Calls /\ conn[c] \in Conns
  BY DEF AckInv, TypeOK
<1>b. OnItsWay(c) => /\ s \in Processes /\ Listening(s)
                     /\ conn[c].state = "job" => /\ job[s] = c /\ c # None
                                                 /\ phase[s] = "reloading"
  <2>1. c # None
    BY NameAssumption DEF Clients
  <2>2. QED
    BY <2>1 DEF ConnectionsAreServed, Served, AckInv, JobsMatch
\* As long as a process does not end it goes on listening.
<1>c. ASSUME conn'[c] = conn[c] \/ conn'[c] = [conn[c] EXCEPT !.sent = TRUE],
             call'[c].state = "waiting" => call[c].state = "waiting",
             OnItsWay(c) => /\ phase'[s] \in {"serving", "reloading", "closing", "removing"}
                            /\ control'[s] = control[s]
                            /\ conn[c].state = "job" => job'[s] = job[s]
      PROVE  Goal
  BY <1>b, <1>c DEF Leaves, GoesOnListening, Listening
<1>1. ASSUME UNCHANGED <<phase, control, job>>,
             conn'[c] = conn[c] \/ conn'[c] = [conn[c] EXCEPT !.sent = TRUE],
             call'[c].state = "waiting" => call[c].state = "waiting"
      PROVE  Goal
  BY <1>b, <1>c, <1>1 DEF Listening
<1>2. ASSUME NEW q \in Processes, Startup(q) PROVE Goal
  <2>1. phase[q] \in {"off", "starting", "checking", "pinging", "publishing"}
    BY <1>2 DEF Startup, Start, Listen, Check, Pinged, Publish, CannotPublish
  <2>2. conn' = conn /\ job' = job
    BY <1>2 DEF Startup, Start, Listen, Check, Pinged, Publish, CannotPublish
  <2>3. \A p \in Processes \ {q} : phase'[p] = phase[p] /\ control'[p] = control[p]
    BY <1>2, <1>a DEF Startup, Start, Listen, Check, Pinged, Publish, CannotPublish
  <2>4. call'[c].state = "waiting" => call[c].state = "waiting"
    <3>1. /\ NoCall.state = "none"
          /\ [state |-> "found", to |-> endpoint, asked |-> 0].state = "found"
      BY DEF NoCall
    <3>2. QED
      BY <1>2, <1>a, <3>1
      DEF Startup, Start, Listen, Check, Pinged, Publish, CannotPublish
  <2>5. OnItsWay(c) => s # q
    BY <1>b, <2>1 DEF Listening
  <2>6. QED
    BY <1>b, <1>c, <2>2, <2>3, <2>4, <2>5 DEF Listening
<1>3. ASSUME NEW q \in Processes, Serve(q) PROVE Goal
  <2>1. CASE Hangup(q)
    <3>1. OnItsWay(c) /\ conn[c].state = "job" => s # q
      BY <1>b, <2>1 DEF Hangup
    <3>2. QED
      BY <1>a, <1>b, <1>c, <2>1 DEF Hangup, Listening
  <2>2. CASE Reload(q)
    <3>1. PICK answer \in {"ok", "error"} : Close({job[q]} \ {None}, answer, {})
      BY <2>2 DEF Reload
    <3>2. IF c \in {job[q]} \ {None} THEN Ends(c)
          ELSE /\ conn'[c] = conn[c]
               /\ call'[c].state = "waiting" => call[c].state = "waiting"
      BY <1>a, <3>1, CloseEnds
    <3>3. /\ phase' = [phase EXCEPT ![q] = "serving"] /\ control' = control
          /\ job' = [job EXCEPT ![q] = None]
      BY <2>2 DEF Reload
    <3>4. CASE c \in {job[q]} \ {None}
      BY <3>2, <3>4
    <3>5. CASE c \notin {job[q]} \ {None}
      <4>1. OnItsWay(c) /\ conn[c].state = "job" => s # q
        BY <1>b, <3>5
      <4>2. OnItsWay(c) =>
              /\ phase'[s] \in {"serving", "reloading", "closing", "removing"}
              /\ control'[s] = control[s]
              /\ conn[c].state = "job" => job'[s] = job[s]
        BY <1>a, <1>b, <3>3, <4>1 DEF Listening
      <4>3. QED
        BY <1>c, <3>2, <3>5, <4>2
    <3>6. QED
      BY <3>4, <3>5
  <2>3. ASSUME NEW d \in Clients, Accept(q, d) PROVE Goal
    <3>1. CASE d = c
      <4>1. conn'[c].state = "auth" /\ conn'[c].server = s /\ OnItsWay(c)
        BY <1>a, <2>3, <3>1 DEF Accept, OnItsWay, Conns
      <4>2. GoesOnListening(s)
        BY <1>b, <2>3, <4>1 DEF Accept, Listening, GoesOnListening
      <4>3. QED
        BY <4>1, <4>2 DEF Proceeds
    <3>2. CASE d # c
      BY <1>1, <1>a, <2>3, <3>2 DEF Accept
    <3>3. QED
      BY <3>1, <3>2
  <2>4. ASSUME NEW d \in Clients, BeginReload(q, d) PROVE Goal
    <3>1. CASE d = c
      <4>1. /\ conn'[c].state = "job" /\ conn'[c].server = s /\ OnItsWay(c)
            /\ s = q
        BY <1>a, <2>4, <3>1 DEF BeginReload, Authenticating, OnItsWay, Conns
      <4>2. GoesOnListening(s) /\ job'[s] = c
        BY <1>a, <1>b, <2>4, <3>1, <4>1 DEF BeginReload, Listening, GoesOnListening
      <4>3. QED
        BY <4>1, <4>2 DEF Proceeds
    <3>2. CASE d # c
      <4>1. OnItsWay(c) /\ conn[c].state = "job" => s # q
        BY <1>b, <2>4 DEF BeginReload
      <4>2. /\ phase' = [phase EXCEPT ![q] = "reloading"] /\ control' = control
            /\ job' = [job EXCEPT ![q] = d] /\ call' = call /\ conn'[c] = conn[c]
        BY <1>a, <2>4, <3>2 DEF BeginReload
      <4>3. OnItsWay(c) =>
              /\ phase'[s] \in {"serving", "reloading", "closing", "removing"}
              /\ control'[s] = control[s]
              /\ conn[c].state = "job" => job'[s] = job[s]
        BY <1>a, <1>b, <4>1, <4>2 DEF Listening
      <4>4. QED
        BY <1>c, <4>2, <4>3
    <3>3. QED
      BY <3>1, <3>2
  <2>5. ASSUME NEW d \in Clients, AnswerPing(q, d) \/ Deny(q, d) PROVE Goal
    <3>1. PICK answer \in {"ok", "error"} : Close({d}, answer, {})
      BY <2>5 DEF AnswerPing, Deny
    <3>2. QED
      BY <1>1, <1>a, <2>5, <3>1, CloseEnds DEF AnswerPing, Deny
  <2>6. QED
    BY <1>3, <2>1, <2>2, <2>3, <2>4, <2>5 DEF Serve
<1>4. ASSUME NEW q \in Processes, Finish(q) PROVE Goal
  <2>1. ASSUME NEW how, End(q, how) PROVE Goal
    <3>1. /\ Close({x \in Clients : conn[x].server = q}, "error", {q})
          /\ phase' = [phase EXCEPT ![q] = how]
          /\ control' = [control EXCEPT ![q] = "none"]
          /\ job' = [job EXCEPT ![q] = None]
      BY <2>1 DEF End
    <3>2. CASE s = q
      BY <1>a, <3>1, <3>2, CloseEnds
    <3>3. CASE s # q
      <4>1. /\ conn'[c] = conn[c]
            /\ call'[c].state = "waiting" => call[c].state = "waiting"
        BY <1>a, <3>1, <3>3, CloseEnds
      <4>2. QED
        BY <1>a, <1>b, <1>c, <3>1, <3>3, <4>1 DEF Listening
    <3>4. QED
      BY <3>2, <3>3
  <2>2. CASE /\ phase' \in {[phase EXCEPT ![q] = "closing"],
                            [phase EXCEPT ![q] = "removing"]}
             /\ UNCHANGED <<control, job, callVars>>
    BY <1>a, <1>b, <1>c, <2>2 DEF Listening
  <2>3. QED
    BY <1>4, <2>1, <2>2 DEF Finish, Stop, Kill, Interrupt, Drop, Remove
<1>5. ASSUME NEW d \in Clients, Ask(d) PROVE Goal
  <2>1. UNCHANGED <<phase, control, job, port>>
    BY <1>5 DEF Ask, Look, Connect, Send, GiveUp
  <2>2. CASE d # c
    BY <1>1, <1>5, <1>a, <2>1, <2>2 DEF Ask, Look, Connect, Send, GiveUp
  <2>3. CASE Look(c)
    <3>1. call'[c].state # "waiting" /\ conn' = conn
      BY <1>a, <2>3 DEF Look
    <3>2. QED
      BY <1>1, <2>1, <3>1
  <2>4. CASE Connect(c)
    <3>1. CASE call' = [call EXCEPT ![c].state = "error"] /\ conn' = conn
      <4>1. call'[c].state = "error"
        BY <1>a, <3>1 DEF Calls
      <4>2. QED
        BY <1>1, <2>1, <3>1, <4>1
    <3>2. CASE \E p \in Processes :
            /\ Listening(p)
            /\ conn' = [conn EXCEPT ![c] =
                  [state |-> "backlog", server |-> p,
                   token |-> call[c].to.token, sent |-> FALSE]]
      BY <1>a, <2>1, <3>2 DEF Reaches, Listening, GoesOnListening
    <3>3. QED
      BY <2>4, <3>1, <3>2 DEF Connect
  <2>5. CASE Send(c)
    BY <1>1, <1>a, <2>1, <2>5 DEF Send
  <2>6. CASE GiveUp(c)
    <3>1. call'[c].state = "error" /\ conn' = conn
      BY <1>a, <2>6 DEF GiveUp, Calls
    <3>2. QED
      BY <1>1, <2>1, <3>1
  <2>7. QED
    BY <1>5, <2>2, <2>3, <2>4, <2>5, <2>6 DEF Ask
<1>6. CASE EditConfig
  BY <1>1, <1>6 DEF EditConfig
<1>7. QED
  BY <1>2, <1>3, <1>4, <1>5, <1>6 DEF Next

LEMMA ConnectionsStep ==
  AckInv /\ ConnectionsAreServed /\ [Next]_vars => ConnectionsAreServed'
<1>1. ASSUME AckInv, ConnectionsAreServed, Next PROVE ConnectionsAreServed'
  BY <1>1, ConnectionEffect, EffectsServe DEF ConnectionsAreServed, AckInv
<1>2. ASSUME ConnectionsAreServed, UNCHANGED vars PROVE ConnectionsAreServed'
  BY <1>2 DEF ConnectionsAreServed, OnItsWay, Served, Listening, vars, files,
     processVars, callVars
<1>3. QED
  BY <1>1, <1>2

LEMMA InitConnections == Init => ConnectionsAreServed
  BY DEF Init, ConnectionsAreServed, OnItsWay, NoConn, NoCall

\* Whoever waits for an answer is heard: its connection is queued, being
\* authenticated or the reload under way at a process that has its socket.
WaitsAreHeard ==
  \A c \in Clients : call[c].state = "waiting" =>
    \E p \in Processes :
      /\ conn[c].server = p /\ Listening(p)
      /\ \/ conn[c].state \in {"backlog", "auth"}
         \/ conn[c].state = "job" /\ job[p] = c /\ phase[p] = "reloading"

\* authenticate and run's select!: a client that waits never waits for a
\* process that has ended or forgotten it; only its own answer is missing.
THEOREM NobodyIsForgotten == Spec => []WaitsAreHeard
<1>1. AckInv /\ ConnectionsAreServed => WaitsAreHeard
  <2> SUFFICES ASSUME AckInv, ConnectionsAreServed,
                      NEW c \in Clients, call[c].state = "waiting"
               PROVE  /\ OnItsWay(c) /\ Served(c)
                      /\ conn[c].state = "job" => phase[conn[c].server] = "reloading"
    BY DEF WaitsAreHeard, OnItsWay, Served
  <2>1. OnItsWay(c) /\ Served(c) /\ c # None
    BY NameAssumption DEF ConnectionsAreServed, Clients
  <2>2. QED
    BY <2>1 DEF Served, AckInv, JobsMatch
<1>2. QED
  BY <1>1, AckInductive, InitConnections, ConnectionsStep, PTL DEF Spec

-----------------------------------------------------------------------------
(* Slots                                                                   *)

\* The JoinSet of connections being authenticated is bounded.
SlotsHold ==
  \A p \in Processes : /\ IsFiniteSet(Authenticating(p))
                       /\ Cardinality(Authenticating(p)) <= Slots

\* Only Accept adds to the connections that are being authenticated.
LEMMA AuthenticatingStep ==
  ASSUME TypeOK, Next, NEW p \in Processes
  PROVE  \/ Authenticating(p)' \subseteq Authenticating(p)
         \/ \E c \in Clients :
              /\ Authenticating(p)' \subseteq Authenticating(p) \cup {c}
              /\ Cardinality(Authenticating(p)) < Slots
<1> USE DEF files, processVars, callVars
<1> DEFINE Fewer == Authenticating(p)' \subseteq Authenticating(p)
<1>a. conn \in [Clients -> Conns]
  BY DEF TypeOK
<1>b. ASSUME \A c \in Clients : conn'[c].state = "auth" => conn'[c] = conn[c]
      PROVE  Fewer
  BY <1>b DEF Authenticating
<1>1. ASSUME NEW cs, NEW answer, NEW dead, Close(cs, answer, dead) PROVE Fewer
  BY <1>1, <1>b DEF Close, Closed, NoConn
<1>2. ASSUME conn' = conn PROVE Fewer
  BY <1>2, <1>b
<1>3. ASSUME NEW q \in Processes, NEW c \in Clients, Accept(q, c)
      PROVE  /\ p = q \/ Fewer
             /\ Authenticating(p)' \subseteq Authenticating(p) \cup {c}
             /\ Cardinality(Authenticating(q)) < Slots
  BY <1>3, <1>a DEF Accept, Authenticating, Conns
<1>4. ASSUME NEW q \in Processes, NEW c \in Clients, BeginReload(q, c) PROVE Fewer
  BY <1>4, <1>a, <1>b DEF BeginReload, Conns
<1>5. ASSUME NEW c \in Clients, Ask(c) PROVE Fewer
  <2>1. CASE Connect(c)
    BY <1>a, <1>b, <2>1 DEF Connect
  <2>2. CASE Send(c)
    <3>1. \A d \in Clients : /\ conn'[d].state = conn[d].state
                             /\ conn'[d].server = conn[d].server
      BY <1>a, <2>2 DEF Send, Conns
    <3>2. QED
      BY <3>1 DEF Authenticating
  <2>3. CASE Look(c) \/ GiveUp(c)
    BY <1>2, <2>3 DEF Look, GiveUp
  <2>4. QED
    BY <1>5, <2>1, <2>2, <2>3 DEF Ask
<1>6. ASSUME NEW q \in Processes, Startup(q) PROVE conn' = conn
  BY <1>6 DEF Startup, Start, Listen, Check, Pinged, Publish, CannotPublish
<1>7. ASSUME NEW q \in Processes, Serve(q)
      PROVE  \/ conn' = conn \/ Fewer \/ \E c \in Clients : Accept(q, c)
  BY <1>1, <1>4, <1>7 DEF Serve, Hangup, Reload, AnswerPing, Deny
<1>8. ASSUME NEW q \in Processes, Finish(q) PROVE conn' = conn \/ Fewer
  BY <1>1, <1>8 DEF Finish, Stop, Kill, Interrupt, Drop, Remove, End
<1>9. QED
  BY <1>2, <1>3, <1>5, <1>6, <1>7, <1>8 DEF Next, EditConfig

LEMMA SlotsStep == TypeOK /\ SlotsHold /\ [Next]_vars => SlotsHold'
<1> SUFFICES ASSUME TypeOK, SlotsHold, [Next]_vars, NEW p \in Processes
             PROVE  /\ IsFiniteSet(Authenticating(p)')
                    /\ Cardinality(Authenticating(p)') <= Slots
  BY DEF SlotsHold
<1> DEFINE A == Authenticating(p)  B == Authenticating(p)'
<1>1. IsFiniteSet(A) /\ Cardinality(A) \in Nat /\ Cardinality(A) <= Slots
  BY FS_CardinalityType DEF SlotsHold
<1>2. \/ B \subseteq A
      \/ \E c : B \subseteq A \cup {c} /\ Cardinality(A) < Slots
  BY AuthenticatingStep DEF vars, callVars, Authenticating
<1> HIDE DEF A, B
<1>3. CASE B \subseteq A
  <2>1. IsFiniteSet(B) /\ Cardinality(B) <= Cardinality(A)
    BY <1>1, <1>3, FS_Subset
  <2>2. Cardinality(B) \in Nat
    BY <2>1, FS_CardinalityType
  <2>3. QED
    BY <1>1, <2>1, <2>2, SlotAssumption DEF B
<1>4. ASSUME NEW c, B \subseteq A \cup {c}, Cardinality(A) < Slots
      PROVE  IsFiniteSet(B) /\ Cardinality(B) <= Slots
  <2> DEFINE C == A \cup {c}
  <2>1. /\ IsFiniteSet(C) /\ Cardinality(C) \in Nat
        /\ Cardinality(C) <= Cardinality(A) + 1
    <3>1. /\ IsFiniteSet(C)
          /\ Cardinality(C) = IF c \in A THEN Cardinality(A) ELSE Cardinality(A) + 1
      BY <1>1, FS_AddElement
    <3>2. QED
      BY <1>1, <3>1
  <2> HIDE DEF C
  <2>2. IsFiniteSet(B) /\ Cardinality(B) <= Cardinality(C)
    BY <1>4, <2>1, FS_Subset DEF C
  <2>3. Cardinality(B) \in Nat
    BY <2>2, FS_CardinalityType
  <2>4. QED
    BY <1>1, <1>4, <2>1, <2>2, <2>3, SlotAssumption
<1>5. QED
  BY <1>2, <1>3, <1>4 DEF B

\* authenticating.len() < 32 (runtime.rs): however many clients connect and stay
\* silent, no more are authenticated at a time than there are slots.
THEOREM SlotsAreKept == Spec => []SlotsHold
<1>1. Init => SlotsHold
  <2> SUFFICES ASSUME Init, NEW p \in Processes PROVE Authenticating(p) = {}
    BY FS_EmptySet, SlotAssumption DEF SlotsHold
  <2>1. QED
    BY DEF Init, Authenticating, NoConn
<1>2. QED
  BY <1>1, SlotsStep, TypeCorrect, PTL DEF Spec
=============================================================================
