---------------------------- MODULE ReloadControl ----------------------------
(***************************************************************************)
(* The reload endpoint of a config file (reload.rs, and the loop of        *)
(* runtime::run): processes started on the file publish the address of     *)
(* their control socket and a token in a file next to it, whoever edited   *)
(* the config reads that file and asks for a reload, and a process that is *)
(* starting asks the one it finds there whether it still lives.            *)
(*                                                                         *)
(* A process and its requesters share the two files and nothing else.  A   *)
(* process can be stopped by a signal or crash at any step; the one that   *)
(* starts next may be given the port of the dead one.  What a reload does  *)
(* to the listeners is Supervisor's: here it takes the addresses of a      *)
(* version of the config or is rejected.                                   *)
(***************************************************************************)
EXTENDS Naturals, FiniteSets

CONSTANTS
  Processes,   \* runs of the program, numbered as they start; the number of
               \* each stands for its token
  Requesters,  \* runs of redir-rust --reload, one request each
  Ports,       \* loopback ports the system hands out
  Addresses,   \* addresses a config can listen on
  Listens,     \* [version of the config -> its addresses]
  Bad,         \* versions that do not validate
  MaxEdits,    \* bound: edits of the config
  Slots,       \* connections authenticated at a time, 32 in the code
  None

Versions == 0..MaxEdits
Clients  == Requesters \cup Processes

ASSUME VersionAssumption ==
  /\ MaxEdits \in Nat /\ Bad \subseteq Versions
  /\ Listens \in [Versions -> SUBSET Addresses]
ASSUME SlotAssumption == Slots \in Nat \ {0}
ASSUME NameAssumption ==
  /\ Processes \subseteq Nat
  /\ Processes \cap Requesters = {}
  /\ None \notin Processes \cup Requesters \cup Ports \cup Versions

VARIABLES
  config,    \* version of the config file
  endpoint,  \* contents of the endpoint file, None when there is none
  phase,     \* [process -> where its main task is]
  loaded,    \* [process -> the version it has read and not applied yet]
  applied,   \* [process -> the version its listeners run under]
  control,   \* [process -> its reload::Server, or why it has none]
  port,      \* [process -> the port of its control socket]
  job,       \* [process -> the client whose reload it carries out]
  alone,     \* history: [process -> no other lived since it read endpoint]
  call,      \* [client -> its request as it sees it]
  conn       \* [client -> its connection as the server sees it]

files == <<config, endpoint>>
processVars == <<phase, loaded, applied, control, port, job, alone>>
callVars == <<call, conn>>
vars == <<files, processVars, callVars>>

NoCall == [state |-> "none", to |-> None, asked |-> 0]
NoConn == [state |-> "none", server |-> None, token |-> None, sent |-> FALSE]
Closed == [NoConn EXCEPT !.state = "closed"]
Own(p) == [port |-> port[p], token |-> p]

\* A process ends by returning from run, by a signal that nothing in it
\* handles, or by a crash.
Unreturned == {"stopped", "killed"}
Live(p) == phase[p] \notin {"off", "exited"} \cup Unreturned
Listening(p) ==
  control[p] = "held" /\
  phase[p] \in {"serving", "reloading", "closing", "removing"}
Authenticating(p) ==
  {c \in Clients : conn[c].state = "auth" /\ conn[c].server = p}

\* Whether p can bind the addresses of v.
Free(p, v) == \A q \in Processes \ {p} :
  Live(q) /\ applied[q] # None => Listens[v] \cap Listens[applied[q]] = {}

Init ==
  /\ config = 0 /\ endpoint = None
  /\ phase = [p \in Processes |-> "off"]
  /\ loaded = [p \in Processes |-> None]
  /\ applied = [p \in Processes |-> None]
  /\ control = [p \in Processes |-> "none"]
  /\ port = [p \in Processes |-> None]
  /\ job = [p \in Processes |-> None]
  /\ alone = [p \in Processes |-> FALSE]
  /\ call = [c \in Clients |-> NoCall]
  /\ conn = [c \in Clients |-> NoConn]

-----------------------------------------------------------------------------
(* Startup *)

\* FileConfig::parse, which a start takes its redirects from.  A reload takes
\* an empty config as well: it retires all listeners.
Startable(v) == v \notin Bad /\ Listens[v] # {}

\* The config is loaded before run is called.
Start(p) ==
  /\ phase[p] = "off" /\ \A q \in Processes : q < p => phase[q] # "off"
  /\ phase' = [phase EXCEPT ![p] = IF Startable(config) THEN "starting"
                                   ELSE "exited"]
  /\ loaded' = [loaded EXCEPT ![p] = IF Startable(config) THEN config
                                     ELSE None]
  /\ alone' = [q \in Processes |-> FALSE]
  /\ UNCHANGED <<files, applied, control, port, job, callVars>>

\* The first apply; an error ends the process.
Listen(p) ==
  /\ phase[p] = "starting"
  /\ IF Free(p, loaded[p])
       THEN /\ phase' = [phase EXCEPT ![p] = "checking"]
            /\ applied' = [applied EXCEPT ![p] = loaded[p]]
       ELSE /\ phase' = [phase EXCEPT ![p] = "exited"]
            /\ UNCHANGED applied
  /\ loaded' = [loaded EXCEPT ![p] = None]
  /\ UNCHANGED <<files, control, port, job, alone, callVars>>

\* Server::bind looks for an endpoint, and asks it for a sign of life.
\* Mutant: a file left behind is enough to refuse.
Check_Trusting(p) ==
  /\ phase[p] = "checking"
  /\ alone' = [alone EXCEPT ![p] = \A q \in Processes \ {p} : ~Live(q)]
  /\ phase' = [phase EXCEPT ![p] = IF endpoint = None THEN "publishing"
                                   ELSE "serving"]
  /\ control' = [control EXCEPT ![p] = IF endpoint = None THEN @
                                       ELSE "refused"]
  /\ UNCHANGED <<files, loaded, applied, port, job, callVars>>
Check(p) ==
  /\ phase[p] = "checking"
  /\ alone' = [alone EXCEPT ![p] = \A q \in Processes \ {p} : ~Live(q)]
  /\ IF endpoint = None
       THEN /\ phase' = [phase EXCEPT ![p] = "publishing"]
            /\ UNCHANGED call
       ELSE /\ phase' = [phase EXCEPT ![p] = "pinging"]
            /\ call' = [call EXCEPT ![p] =
                          [state |-> "found", to |-> endpoint, asked |-> 0]]
  /\ UNCHANGED <<files, loaded, applied, control, port, job, conn>>

\* Whoever answered owns the endpoint; run goes on without one.
Pinged(p) ==
  /\ phase[p] = "pinging" /\ call[p].state \in {"ok", "error"}
  /\ IF call[p].state = "ok"
       THEN /\ phase' = [phase EXCEPT ![p] = "serving"]
            /\ control' = [control EXCEPT ![p] = "refused"]
       ELSE /\ phase' = [phase EXCEPT ![p] = "publishing"]
            /\ UNCHANGED control
  /\ call' = [call EXCEPT ![p] = NoCall]
  /\ UNCHANGED <<files, loaded, applied, port, job, alone, conn>>

\* The control socket is bound and its endpoint renamed into place.
Publish(p) ==
  /\ phase[p] = "publishing"
  /\ phase' = [phase EXCEPT ![p] = "serving"]
  /\ control' = [control EXCEPT ![p] = "held"]
  /\ \E n \in Ports \ {port[q] : q \in {r \in Processes : Listening(r)}} :
       /\ port' = [port EXCEPT ![p] = n]
       /\ endpoint' = [port |-> n, token |-> p]
  /\ UNCHANGED <<config, loaded, applied, job, alone, callVars>>

\* The directory of the config cannot be written.
CannotPublish(p) ==
  /\ phase[p] = "publishing"
  /\ phase' = [phase EXCEPT ![p] = "serving"]
  /\ control' = [control EXCEPT ![p] = "failed"]
  /\ UNCHANGED <<files, loaded, applied, port, job, alone, callVars>>

-----------------------------------------------------------------------------
(* Requests *)

EditConfig ==
  /\ config < MaxEdits
  /\ config' = config + 1
  /\ UNCHANGED <<endpoint, processVars, callVars>>

\* request: the endpoint is looked up.
Look(c) ==
  /\ c \in Requesters /\ call[c].state = "none"
  /\ call' = [call EXCEPT ![c] =
       [state |-> IF endpoint = None THEN "error" ELSE "found",
        to |-> endpoint, asked |-> config]]
  /\ UNCHANGED <<files, processVars, conn>>

\* Whoever listens at the port by now gets the connection.
Connect(c) ==
  /\ call[c].state = "found"
  /\ \/ \E q \in Processes :
          /\ Listening(q) /\ port[q] = call[c].to.port
          /\ call' = [call EXCEPT ![c].state = "waiting"]
          /\ conn' = [conn EXCEPT ![c] =
                [state |-> "backlog", server |-> q,
                 token |-> call[c].to.token, sent |-> FALSE]]
     \/ /\ \A q \in Processes : Listening(q) => port[q] # call[c].to.port
        /\ call' = [call EXCEPT ![c].state = "error"]
        /\ UNCHANGED conn
  /\ UNCHANGED <<files, processVars>>

Send(c) ==
  /\ call[c].state = "waiting" /\ ~conn[c].sent
  /\ conn' = [conn EXCEPT ![c].sent = TRUE]
  /\ UNCHANGED <<files, processVars, call>>

\* The answer takes longer than the client waits; the server does not notice.
GiveUp(c) ==
  /\ call[c].state = "waiting"
  /\ call' = [call EXCEPT ![c].state = "error"]
  /\ UNCHANGED <<files, processVars, conn>>

-----------------------------------------------------------------------------
(* The loop of run *)

\* The connections in cs are closed, those whose client still waits with an
\* answer; the calls of the processes in dead are forgotten.
Close(cs, answer, dead) ==
  /\ conn' = [c \in Clients |-> IF c \in cs THEN Closed ELSE conn[c]]
  /\ call' = [c \in Clients |->
       IF c \in dead THEN NoCall
       ELSE IF c \in cs /\ call[c].state = "waiting"
         THEN [call[c] EXCEPT !.state = answer] ELSE call[c]]

Accept(p, c) ==
  /\ phase[p] = "serving" /\ control[p] = "held"
  /\ Cardinality(Authenticating(p)) < Slots
  /\ conn[c].state = "backlog" /\ conn[c].server = p
  /\ conn' = [conn EXCEPT ![c].state = "auth"]
  /\ UNCHANGED <<files, processVars, call>>

\* Mutant: the token is not compared.
Authorized_AnyToken(p, c) == conn[c].sent
Authorized(p, c) == conn[c].sent /\ conn[c].token = p

\* A reload reads the config as it is when its turn comes.
BeginReload(p, c) ==
  /\ phase[p] = "serving"
  /\ c \in Authenticating(p) \cap Requesters /\ Authorized(p, c)
  /\ phase' = [phase EXCEPT ![p] = "reloading"]
  /\ loaded' = [loaded EXCEPT ![p] = config]
  /\ job' = [job EXCEPT ![p] = c]
  /\ conn' = [conn EXCEPT ![c].state = "job"]
  /\ UNCHANGED <<files, applied, control, port, alone, call>>

AnswerPing(p, c) ==
  /\ phase[p] = "serving"
  /\ c \in Authenticating(p) \cap Processes /\ Authorized(p, c)
  /\ Close({c}, "ok", {})
  /\ UNCHANGED <<files, processVars>>

\* The wrong token, or no complete request in two seconds.
\* Mutant: it waits for the request as long as that takes.
Deny_NoTimeout(p, c) ==
  /\ phase[p] = "serving"
  /\ c \in Authenticating(p) /\ ~Authorized(p, c) /\ conn[c].sent
  /\ Close({c}, "error", {})
  /\ UNCHANGED <<files, processVars>>
Deny(p, c) ==
  /\ phase[p] = "serving"
  /\ c \in Authenticating(p) /\ ~Authorized(p, c)
  /\ Close({c}, "error", {})
  /\ UNCHANGED <<files, processVars>>

\* SIGHUP.
Hangup(p) ==
  /\ phase[p] = "serving"
  /\ phase' = [phase EXCEPT ![p] = "reloading"]
  /\ loaded' = [loaded EXCEPT ![p] = config]
  /\ UNCHANGED <<files, applied, control, port, job, alone, callVars>>

\* Supervisor::reload, and the answer.
Reload(p) ==
  /\ phase[p] = "reloading"
  /\ phase' = [phase EXCEPT ![p] = "serving"]
  /\ job' = [job EXCEPT ![p] = None]
  /\ IF loaded[p] \notin Bad /\ Free(p, loaded[p])
       THEN /\ applied' = [applied EXCEPT ![p] = loaded[p]]
            /\ Close({job[p]} \ {None}, "ok", {})
       ELSE /\ Close({job[p]} \ {None}, "error", {})
            /\ UNCHANGED applied
  /\ loaded' = [loaded EXCEPT ![p] = None]
  /\ UNCHANGED <<files, control, port, alone>>

-----------------------------------------------------------------------------
(* The end of a process *)

End(p, how) ==
  /\ phase' = [phase EXCEPT ![p] = how]
  /\ loaded' = [loaded EXCEPT ![p] = None]
  /\ control' = [control EXCEPT ![p] = "none"]
  /\ port' = [port EXCEPT ![p] = None]
  /\ job' = [job EXCEPT ![p] = None]
  /\ alone' = [alone EXCEPT ![p] = FALSE]
  /\ Close({c \in Clients : conn[c].server = p}, "error", {p})
  /\ UNCHANGED <<config, applied>>

\* --stop and --restart: systemctl sends SIGTERM, as the packaged unit names no
\* other signal, and on Windows it is taskkill.  run handles neither, so that
\* nothing is dropped.
Stop(p) == Live(p) /\ End(p, "stopped") /\ UNCHANGED endpoint

\* A crash, or a kill from outside.
Kill(p) == Live(p) /\ End(p, "killed") /\ UNCHANGED endpoint

\* Ctrl+C, or a listener's task that failed: run returns and drops the server.
\* (A Ctrl+C that comes while a reload is carried out is not seen.)
Interrupt(p) ==
  /\ phase[p] = "serving"
  /\ IF control[p] = "held"
       THEN /\ phase' = [phase EXCEPT ![p] = "closing"]
            /\ UNCHANGED <<files, loaded, applied, control, port, job, alone,
                           callVars>>
       ELSE End(p, "exited") /\ UNCHANGED endpoint

\* Server::drop reads the endpoint file and removes it if it is its own.
\* Mutant: the file stays.
Drop_Keeps(p) ==
  /\ phase[p] = "closing"
  /\ End(p, "exited") /\ UNCHANGED endpoint
Drop(p) ==
  /\ phase[p] = "closing"
  /\ IF endpoint = Own(p)
       THEN /\ phase' = [phase EXCEPT ![p] = "removing"]
            /\ UNCHANGED <<files, loaded, applied, control, port, job, alone,
                           callVars>>
       ELSE End(p, "exited") /\ UNCHANGED endpoint

Remove(p) ==
  /\ phase[p] = "removing"
  /\ endpoint' = None
  /\ End(p, "exited")

-----------------------------------------------------------------------------
Startup(p) == \/ Start(p) \/ Listen(p) \/ Check(p) \/ Pinged(p)
              \/ Publish(p) \/ CannotPublish(p)
Serve(p) == \/ Hangup(p) \/ Reload(p)
            \/ \E c \in Clients : \/ Accept(p, c) \/ BeginReload(p, c)
                                  \/ AnswerPing(p, c) \/ Deny(p, c)
Finish(p) == Stop(p) \/ Kill(p) \/ Interrupt(p) \/ Drop(p) \/ Remove(p)
Ask(c) == Look(c) \/ Connect(c) \/ Send(c) \/ GiveUp(c)

Next == \/ EditConfig
        \/ \E p \in Processes : Startup(p) \/ Serve(p) \/ Finish(p)
        \/ \E c \in Clients : Ask(c)

Spec == Init /\ [][Next]_vars

Authenticated(p) ==
  \E c \in Clients : BeginReload(p, c) \/ AnswerPing(p, c) \/ Deny(p, c)

\* The loop's select! picks at random among what is ready, so that no kind of
\* event is passed over for ever however often another occurs.
Fairness == \A p \in Processes :
  /\ SF_vars(\E c \in Clients : Accept(p, c))
  /\ SF_vars(Authenticated(p))
  /\ WF_vars(Reload(p)) /\ WF_vars(Drop(p)) /\ WF_vars(Remove(p))

FairSpec == Spec /\ Fairness
-----------------------------------------------------------------------------
(* What the endpoint promises *)

Phases == {"off", "starting", "checking", "pinging", "publishing", "serving",
           "reloading", "closing", "removing", "exited"} \cup Unreturned
Endpoints == [port : Ports, token : Processes]
Calls == {r \in [state : {"none", "found", "waiting", "ok", "error"},
                 to : Endpoints \cup {None}, asked : Versions] :
            r.state \in {"found", "waiting", "ok"} => r.to # None}
Conns == [state : {"none", "backlog", "auth", "job", "closed"},
          server : Processes \cup {None}, token : Processes \cup {None},
          sent : BOOLEAN]

TypeOK ==
  /\ config \in Versions /\ endpoint \in Endpoints \cup {None}
  /\ phase \in [Processes -> Phases]
  /\ loaded \in [Processes -> Versions \cup {None}]
  /\ applied \in [Processes -> Versions \cup {None}]
  /\ control \in [Processes -> {"none", "held", "refused", "failed"}]
  /\ port \in [Processes -> Ports \cup {None}]
  /\ job \in [Processes -> Requesters \cup {None}]
  /\ alone \in [Processes -> BOOLEAN]
  /\ call \in [Clients -> Calls] /\ conn \in [Clients -> Conns]

\* "The command returns success only after the running process accepts the
\* update" (docs/usage.md): when it does, the process its endpoint named runs
\* under the config as it was when the command was given, or a later one,
\* whatever was edited meanwhile and whoever had the port by then.
AckMeansApplied ==
  \A c \in Requesters : call[c].state = "ok" =>
    /\ applied[call[c].to.token] # None
    /\ applied[call[c].to.token] >= call[c].asked

\* "Stale endpoint files from a crash are replaced on startup": a process that
\* no other lived next to since it looked for one can be reached, whatever
\* its predecessors left behind, unless the file cannot be written at all.
AloneIsReachable ==
  \A p \in Processes :
    /\ alone[p] /\ phase[p] \in {"serving", "reloading"}
    /\ control[p] # "failed"
    => endpoint = Own(p) /\ Listening(p)

\* Server::bind and drop: the endpoint file leads to the process it names, at
\* the port it names, unless that process ended without returning from run: it
\* is never left behind by a start that was given up, a reload or a return.
EndpointIsServed ==
  endpoint # None =>
    LET p == endpoint.token
    IN phase[p] \in Unreturned \/ (Listening(p) /\ endpoint = Own(p))

\* "Normal shutdown removes the process's own file" (docs/usage.md): the file
\* does not name a process that has returned or was stopped as a service is.
\* It may: a stop is a signal that run does not handle.
ShutdownRemovesOwn ==
  \A p \in Processes : phase[p] \in {"exited", "stopped"} =>
    endpoint = None \/ endpoint.token # p

\* runtime.rs authenticates at most 32 connections at a time: connections that
\* stay silent may take all slots, but only delay a request.  One that was sent
\* is answered, or its server has ended.  (How long it is delayed is not said:
\* that the timeouts of silent ones run side by side, as tests/reload.rs wants
\* it, takes time and more than one slot.)
RequestsAreAnswered ==
  \A c \in Clients :
    conn[c].sent ~> (conn[c].state = "closed")
=============================================================================
