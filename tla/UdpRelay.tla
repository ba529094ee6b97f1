------------------------------ MODULE UdpRelay ------------------------------
(***************************************************************************)
(* The UDP relay of one redirect (udp_proxy.rs): the select loop of        *)
(* run_reconfigurable together with the tasks it spawns, which are one     *)
(* target selection per new client of a multi-target redirect, one return  *)
(* path per session, and the reachability prober of a single-target        *)
(* redirect with the Bedrock offline plugin.                               *)
(*                                                                         *)
(* A step is the code between two awaits whose outcome another task can    *)
(* influence.  Real time is abstracted by flags: idle[s] holds once        *)
(* last_seen.elapsed() >= idle_timeout, and a fake session's life becomes  *)
(* "idle" once its last_activity is FAKE_SESSION_IDLE_TIMEOUT old.         *)
(***************************************************************************)
EXTENDS Integers, Sequences, FiniteSets, Functions
LOCAL INSTANCE SequencesExt

CONSTANTS
  Clients,              \* client addresses
  Sockets,              \* target-side sockets the process can hold at once
  Configs,              \* the configurations the supervisor may publish
  TargetsOf,            \* [Configs -> Seq(target addresses)], in probe order
  Offline,              \* the configurations that set bedrock_offline
  Size,                 \* [kinds of datagram -> bytes]
  None,
  MaxPendingClients, MaxPendingDatagrams, MaxPendingBytes, MaxFakeSessions,
  MaxReceived,          \* bound of the model: datagrams received per client
  MaxUpdates            \* bound of the model: values the supervisor publishes

Kinds == {"ping", "start", "data"}
Targets == UNION {{TargetsOf[g][i] : i \in DOMAIN TargetsOf[g]} : g \in Configs}

\* There are only so many socket addresses.
ASSUME ClientAssumption == IsFiniteSet(Clients)
\* A Vec<SocketAddr> that validate_config accepted is not empty.
ASSUME ConfigAssumption ==
  /\ Offline \subseteq Configs
  /\ DOMAIN TargetsOf = Configs
  /\ \A g \in Configs : TargetsOf[g] \in Seq(Targets) /\ TargetsOf[g] # <<>>
ASSUME NoneAssumption ==
  None \notin Clients \cup Sockets \cup Configs \cup Targets
ASSUME LimitAssumption ==
  /\ Size \in [Kinds -> Nat]
  /\ {MaxPendingClients, MaxPendingDatagrams, MaxPendingBytes,
      MaxFakeSessions, MaxReceived, MaxUpdates} \subseteq Nat \ {0}

VARIABLES
  watch,      \* the watch channel: latest value (None once retired), unseen
  published,  \* values published so far (bounded by MaxUpdates)
  status,     \* of the relay's task: starting, running, returned or failed
  config, draining, watchOpen,      \* the loop's locals
  reach,      \* the prober's flag, None when there is no prober
  due,        \* branches that were found ready when the loop last polled
  work,       \* datagrams the loop still has to send in the current branch
  session,    \* [client -> socket of its session, or None]
  path,       \* [socket -> its return path and what the session pins]
  pending,    \* [client -> its selection's generation and queue]
  bytes,      \* PendingState::total_bytes
  generation, \* next_generation
  probes,     \* selection tasks in flight
  results,    \* the unbounded channel of SelectionResults
  fakes,      \* [client -> its OfflineSession]
  received,   \* history: datagrams received from each client
  forwarded   \* history: numbers of the datagrams sent on to a target

updateVars == <<watch, published>>
loopVars   == <<status, config, draining, watchOpen, reach>>
pendVars   == <<pending, bytes, generation>>
taskVars   == <<probes, results>>
vars == <<watch, published, status, config, draining, watchOpen, reach, due,
          work, session, path, pending, bytes, generation, probes, results,
          fakes, received, forwarded>>

Datagrams == [num : 1..MaxReceived, kind : Kinds]
FreePath  == [state |-> "free", client |-> None, target |-> None,
              cfg |-> None, idle |-> FALSE]
NotPending == [gen |-> 0, queue |-> <<>>]
NoFake    == [life |-> "none", cfg |-> None]
NoWork    == [mode |-> "none", client |-> None, sock |-> None, cfg |-> None,
              queue |-> <<>>]

-----------------------------------------------------------------------------
(* Helpers *)

\* reachability_for: only a single target with an offline config is probed.
ReachabilityFor(g) ==
  IF Len(TargetsOf[g]) = 1 /\ g \in Offline THEN "unknown" ELSE None

BytesOf(queue) == SumFunction([i \in DOMAIN queue |-> Size[queue[i].kind]])

UpdateReady == watchOpen /\ (watch.unseen \/ watch.value = None)

\* The biased select! polls its branches in order.  due holds the branches
\* ready at that poll: a branch below one of them is not taken.
Ready == (IF UpdateReady THEN {"update"} ELSE {})
           \cup (IF results # <<>> THEN {"result"} ELSE {})
LoopTop == due' = Ready'

AtSelect == status = "running" /\ work = NoWork

FreeSockets == {s \in Sockets : path[s] = FreePath /\ work.sock # s}

\* fake_sessions.retain(last_activity.elapsed() < FAKE_SESSION_IDLE_TIMEOUT)
Retained(f) == [c \in Clients |-> IF f[c].life = "idle" THEN NoFake ELSE f[c]]

FakeCount(f) == Cardinality({c \in Clients : f[c] # NoFake})
PendingCount == Cardinality({c \in Clients : pending[c] # NotPending})

\* can_start_fake_session.
CanStartFake(f, c) == f[c] # NoFake \/ FakeCount(f) < MaxFakeSessions

\* The client's fake session once it has taken a datagram, new or known.
LiveFake(f, c, cfg) ==
  [life |-> "live", cfg |-> IF f[c] = NoFake THEN cfg ELSE f[c].cfg]

\* handle_offline_datagram: whether it consumed the datagram, and the
\* client's fake session afterwards.  Only a "data" datagram can complete the
\* handshake or, as an invalid fragment, leave last_activity as it was.
Outcome(handled, fake) == [handled |-> handled, fake |-> fake]
OfflineOutcomes(f, c, d, cfg) ==
  IF f[c] = NoFake /\ cfg \notin Offline THEN {Outcome(FALSE, NoFake)}
  ELSE IF d.kind = "ping" THEN {Outcome(TRUE, f[c])}
  ELSE IF f[c] = NoFake /\ d.kind = "data" THEN {Outcome(FALSE, NoFake)}
  ELSE IF ~CanStartFake(f, c) THEN {Outcome(TRUE, NoFake)}
  ELSE IF d.kind = "start" THEN {Outcome(TRUE, LiveFake(f, c, cfg))}
  ELSE {Outcome(TRUE, x) : x \in {LiveFake(f, c, cfg), f[c], NoFake}}

\* PendingState::start, enqueue and remove: a datagram there is no room for is
\* dropped.
HasRoom(d) ==
  PendingCount < MaxPendingClients /\ bytes + Size[d.kind] <= MaxPendingBytes

StartPending(c, d) ==
  /\ pending' = [pending EXCEPT ![c] = [gen |-> generation', queue |-> <<d>>]]
  /\ bytes' = bytes + Size[d.kind]

Enqueue(c, d) ==
  IF \/ Len(pending[c].queue) >= MaxPendingDatagrams
     \/ bytes + Size[d.kind] > MaxPendingBytes
    THEN UNCHANGED <<pending, bytes>>
    ELSE /\ pending' = [pending EXCEPT ![c].queue = Append(@, d)]
         /\ bytes' = bytes + Size[d.kind]

\* Mutant: the bytes of the removed queue are never given back.
RemovePending_KeepsBytes(c) ==
  pending' = [pending EXCEPT ![c] = NotPending] /\ UNCHANGED bytes
RemovePending(c) ==
  /\ pending' = [pending EXCEPT ![c] = NotPending]
  /\ bytes' = bytes - BytesOf(pending[c].queue)

Init ==
  /\ \E g \in Configs : watch = [value |-> g, unseen |-> TRUE]
  /\ published = 1
  /\ status = "starting"
  /\ config = None /\ draining = FALSE /\ watchOpen = TRUE /\ reach = None
  /\ due = {}
  /\ work = NoWork
  /\ session = [c \in Clients |-> None]
  /\ path = [s \in Sockets |-> FreePath]
  /\ pending = [c \in Clients |-> NotPending]
  /\ bytes = 0 /\ generation = 0
  /\ probes = {} /\ results = <<>>
  /\ fakes = [c \in Clients |-> NoFake]
  /\ received = [c \in Clients |-> 0]
  /\ forwarded = [c \in Clients |-> <<>>]

-----------------------------------------------------------------------------
(* The supervisor's end of the watch channel (Updates::set): only the       *)
(* latest value is kept, and retiring sends None and drops the sender.      *)

Publish(v) ==
  /\ status # "failed" /\ watch.value # None /\ published < MaxUpdates
  /\ watch' = [value |-> v, unseen |-> TRUE]
  /\ published' = published + 1
  /\ UNCHANGED <<loopVars, due, work, session, path, pendVars, taskVars,
                 fakes, received, forwarded>>

-----------------------------------------------------------------------------
(* The relay's loop *)

\* The task's first poll: a relay retired before it started returns at once.
Start ==
  /\ status = "starting"
  /\ watch' = [watch EXCEPT !.unseen = FALSE]
  /\ IF watch.value = None
       THEN status' = "returned" /\ UNCHANGED <<config, reach>>
       ELSE /\ status' = "running"
            /\ config' = watch.value
            /\ reach' = ReachabilityFor(watch.value)
  /\ UNCHANGED <<published, draining, watchOpen, due, work, session, path,
                 pendVars, taskVars, fakes, received, forwarded>>

\* changed = updates.changed(), if watch_open.  Once the sender is gone and
\* its last value was seen, changed() is an error and ends the watching.
HandleUpdate ==
  /\ AtSelect /\ UpdateReady
  /\ watch' = [watch EXCEPT !.unseen = FALSE]
  /\ watchOpen' = watch.unseen
  /\ IF watch.value # None
       THEN /\ config' = watch.value
            /\ reach' = ReachabilityFor(watch.value)
            /\ UNCHANGED draining
       ELSE /\ draining' = TRUE
            /\ reach' = None
            /\ UNCHANGED config
  /\ UNCHANGED <<published, status, work, session, path, pendVars, taskVars,
                 fakes, received, forwarded>>
  /\ LoopTop

\* The 100ms tick expires fake sessions and ends a relay that has drained.
MaintenanceTick ==
  /\ AtSelect /\ "update" \notin due
  /\ fakes' = Retained(fakes)
  /\ UNCHANGED <<updateVars, config, draining, watchOpen, reach, work,
                 session, path, pendVars, taskVars, received, forwarded>>
  /\ IF /\ draining
        /\ \A c \in Clients : /\ session[c] = None
                              /\ pending[c] = NotPending
                              /\ Retained(fakes)[c] = NoFake
       THEN status' = "returned" /\ UNCHANGED due
       ELSE LoopTop /\ UNCHANGED status

\* create_session, then the datagrams that are to be sent on its socket.  A
\* client that has a session already gets that one back.
CreateSession(c, t, g, queue) ==
  \E s \in FreeSockets :
    LET sock == IF session[c] # None THEN session[c] ELSE s
    IN  /\ session' = [session EXCEPT ![c] = sock]
        /\ path' = IF session[c] # None THEN path
                   ELSE [path EXCEPT ![s] =
                          [state |-> "receiving", client |-> c, target |-> t,
                           cfg |-> g, idle |-> FALSE]]
        /\ work' = [mode |-> "forward", client |-> c, sock |-> sock,
                    cfg |-> g, queue |-> queue]
        /\ UNCHANGED due

\* bind or connect failed: the datagrams are dropped with a warning.
SessionNotOpened == LoopTop /\ UNCHANGED <<session, path, work>>

\* Some(result) = selection_rx.recv()
HandleResult ==
  /\ AtSelect /\ "update" \notin due /\ results # <<>>
  /\ UNCHANGED <<updateVars, loopVars, generation, probes, fakes, received,
                 forwarded>>
  /\ LET r == Head(results) IN
       /\ results' = Tail(results)
       /\ IF pending[r.client].gen # r.gen
            THEN LoopTop /\ UNCHANGED <<pending, bytes, work, session, path>>
            ELSE /\ RemovePending(r.client)
                 /\ \/ /\ r.target # None
                       /\ CreateSession(r.client, r.target, r.cfg,
                                        pending[r.client].queue)
                    \/ r.target # None /\ SessionNotOpened
                    \/ /\ r.target = None /\ r.cfg \in Offline
                       /\ work' = [mode |-> "offline", client |-> r.client,
                                   sock |-> None, cfg |-> r.cfg,
                                   queue |-> pending[r.client].queue]
                       /\ UNCHANGED <<due, session, path>>
                    \/ /\ r.target = None /\ r.cfg \notin Offline
                       /\ LoopTop /\ UNCHANGED <<work, session, path>>

\* One datagram of the current branch done: on to the next, or to the top.
\* Mutant: the queue is shortened at its other end.
NextDatagram_PopBack ==
  IF Len(work.queue) > 1
    THEN work' = [work EXCEPT !.queue = Front(@)] /\ UNCHANGED due
    ELSE work' = NoWork /\ LoopTop
NextDatagram ==
  IF Len(work.queue) > 1
    THEN work' = [work EXCEPT !.queue = Tail(@)] /\ UNCHANGED due
    ELSE work' = NoWork /\ LoopTop

\* socket.send(datagram).await: an error drops this datagram only.
ForwardNext ==
  /\ status = "running" /\ work.mode = "forward"
  /\ \/ forwarded' = [forwarded EXCEPT ![work.client] =
                        Append(@, Head(work.queue).num)]
     \/ UNCHANGED forwarded
  /\ UNCHANGED <<updateVars, loopVars, session, path, pendVars, taskVars,
                 fakes, received>>
  /\ NextDatagram

\* A queued datagram of a client none of whose targets answered.
OfflineNext ==
  /\ status = "running" /\ work.mode = "offline"
  /\ \E o \in OfflineOutcomes(fakes, work.client, Head(work.queue), work.cfg) :
       fakes' = [fakes EXCEPT ![work.client] = o.fake]
  /\ UNCHANGED <<updateVars, loopVars, session, path, pendVars, taskVars,
                 received, forwarded>>
  /\ NextDatagram

\* received = listener.recv_from(): what every datagram goes through first.
Arrives(c) ==
  /\ AtSelect /\ due = {} /\ received[c] < MaxReceived
  /\ received' = [received EXCEPT ![c] = @ + 1]
  /\ UNCHANGED <<updateVars, loopVars, results, forwarded>>

Datagram(c, k) == [num |-> received[c] + 1, kind |-> k]

\* The client is in an offline handshake: that handshake gets the datagram.
ReceiveFake(c, k) ==
  /\ Arrives(c) /\ Retained(fakes)[c] # NoFake
  /\ \E o \in OfflineOutcomes(Retained(fakes), c, Datagram(c, k), config) :
       fakes' = [Retained(fakes) EXCEPT ![c] = o.fake]
  /\ LoopTop
  /\ UNCHANGED <<work, session, path, pendVars, probes>>

\* existing_session touches last_seen under the lock; the socket it returned
\* is used after the lock is released.
ReceiveExisting(c, k) ==
  /\ Arrives(c) /\ Retained(fakes)[c] = NoFake /\ session[c] # None
  /\ path' = [path EXCEPT ![session[c]].idle = FALSE]
  /\ work' = [mode |-> "forward", client |-> c, sock |-> session[c],
              cfg |-> path[session[c]].cfg, queue |-> <<Datagram(c, k)>>]
  /\ fakes' = Retained(fakes)
  /\ UNCHANGED <<due, session, pendVars, probes>>

\* The client waits for its selection: its datagram is queued or dropped.
ReceivePending(c, k) ==
  /\ Arrives(c) /\ Retained(fakes)[c] = NoFake
  /\ session[c] = None /\ pending[c] # NotPending
  /\ Enqueue(c, Datagram(c, k))
  /\ fakes' = Retained(fakes)
  /\ LoopTop
  /\ UNCHANGED <<work, session, path, generation, probes>>

\* Mutant: the lookup of the session is missing.
Unknown_NoSessionLookup(c) ==
  Retained(fakes)[c] = NoFake /\ pending[c] = NotPending
Unknown(c) ==
  /\ Retained(fakes)[c] = NoFake
  /\ session[c] = None /\ pending[c] = NotPending

\* A draining relay drops what comes from a client it does not know.
ReceiveDraining(c) ==
  /\ Arrives(c) /\ Unknown(c) /\ draining
  /\ fakes' = Retained(fakes)
  /\ LoopTop
  /\ UNCHANGED <<work, session, path, pendVars, probes>>

\* The single target is down: what the offline handshake makes of it.
OfflineFirst(c, k) ==
  IF reach = "down"
    THEN OfflineOutcomes(Retained(fakes), c, Datagram(c, k), config)
    ELSE {[handled |-> FALSE, fake |-> NoFake]}

ReceiveOffline(c, k) ==
  /\ Arrives(c) /\ Unknown(c) /\ ~draining
  /\ \E o \in OfflineFirst(c, k) :
       o.handled /\ fakes' = [Retained(fakes) EXCEPT ![c] = o.fake]
  /\ LoopTop
  /\ UNCHANGED <<work, session, path, pendVars, probes>>

\* Mutant: a draining relay still admits.
NewClient_WhileDraining(c, k) ==
  /\ Arrives(c) /\ Unknown(c)
  /\ \E o \in OfflineFirst(c, k) : ~o.handled
  /\ fakes' = Retained(fakes)
NewClient(c, k) ==
  /\ Arrives(c) /\ Unknown(c) /\ ~draining
  /\ \E o \in OfflineFirst(c, k) : ~o.handled
  /\ fakes' = Retained(fakes)

\* A new client of a single-target redirect is forwarded without probing.
ReceiveSingle(c, k) ==
  /\ NewClient(c, k) /\ Len(TargetsOf[config]) = 1
  /\ \/ CreateSession(c, TargetsOf[config][1], config, <<Datagram(c, k)>>)
     \/ SessionNotOpened
  /\ UNCHANGED <<pendVars, probes>>

\* A new client of a multi-target redirect waits for a target selection,
\* unless PendingState::start finds no room for it.
ReceiveSelect(c, k) ==
  /\ NewClient(c, k) /\ Len(TargetsOf[config]) # 1
  /\ generation' = generation + 1
  /\ UNCHANGED <<work, session, path>>
  /\ IF HasRoom(Datagram(c, k))
       THEN /\ StartPending(c, Datagram(c, k))
            /\ probes' = probes \cup {[client |-> c, gen |-> generation',
                                      cfg |-> config, next |-> 1]}
       ELSE UNCHANGED <<pending, bytes, probes>>
  /\ LoopTop

\* received? : an error of the listening socket ends the relay, and with it
\* the process (runtime.rs returns the first error of a listener's task).
ReceiveError ==
  /\ AtSelect /\ due = {}
  /\ status' = "failed"
  /\ UNCHANGED <<updateVars, config, draining, watchOpen, reach, due, work,
                 session, path, pendVars, taskVars, fakes, received,
                 forwarded>>

Receive(c, k) ==
  \/ ReceiveFake(c, k) \/ ReceiveExisting(c, k) \/ ReceivePending(c, k)
  \/ ReceiveDraining(c) \/ ReceiveOffline(c, k)
  \/ ReceiveSingle(c, k) \/ ReceiveSelect(c, k)

-----------------------------------------------------------------------------
(* The tasks beside the loop *)

\* spawn_target_selection probes in order with the configuration the client
\* was admitted under.  The first target to answer is selected; when the last
\* one has failed the result carries no target.
\* Mutant: the result carries the configuration of a later reload.
SelectionResult_Reloaded(p, t) ==
  [client |-> p.client, gen |-> p.gen, cfg |-> config, target |-> t]
SelectionResult(p, t) ==
  [client |-> p.client, gen |-> p.gen, cfg |-> p.cfg, target |-> t]

SelectionOnly == UNCHANGED <<updateVars, loopVars, due, work, session, path,
                             pendVars, fakes, received, forwarded>>

ProbeAnswered(p) ==
  /\ status = "running" /\ p \in probes
  /\ probes' = probes \ {p}
  /\ results' = Append(results, SelectionResult(p, TargetsOf[p.cfg][p.next]))
  /\ SelectionOnly

\* Mutant: a selection that runs out of targets ends without a result.
ProbeFailed_Silent(p) ==
  /\ status = "running" /\ p \in probes
  /\ probes' = IF p.next = Len(TargetsOf[p.cfg]) THEN probes \ {p}
               ELSE (probes \ {p}) \cup {[p EXCEPT !.next = @ + 1]}
  /\ UNCHANGED results /\ SelectionOnly
ProbeFailed(p) ==
  /\ status = "running" /\ p \in probes
  /\ IF p.next = Len(TargetsOf[p.cfg])
       THEN /\ probes' = probes \ {p}
            /\ results' = Append(results, SelectionResult(p, None))
       ELSE /\ probes' = (probes \ {p}) \cup {[p EXCEPT !.next = @ + 1]}
            /\ UNCHANGED results
  /\ SelectionOnly

\* spawn_reachability_prober stores the outcome of each of its probes.
ReachabilityProbe(up) ==
  /\ status = "running" /\ reach # None
  /\ reach' = IF up THEN "up" ELSE "down"
  /\ UNCHANGED <<updateVars, status, config, draining, watchOpen, due, work,
                 session, path, pendVars, taskVars, fakes, received,
                 forwarded>>

\* remove_current_session, under the sessions lock: only the session that owns
\* this socket and, for the idle timeout, only if it was not touched since.
\* Mutants: the socket, or last_seen, is not compared.
Removable_AnySocket(s, idleOnly) ==
  session[path[s].client] # None /\ (idleOnly => path[s].idle)
Removable_Unchecked(s, idleOnly) == session[path[s].client] = s
Removable(s, idleOnly) ==
  /\ session[path[s].client] = s
  /\ idleOnly => path[s].idle

PathOnly == /\ status # "failed"     \* the process is gone
            /\ UNCHANGED <<updateVars, loopVars, due, work, pendVars, taskVars,
                           fakes, received, forwarded>>

\* A datagram from the target touches last_seen; the path ends when it cannot
\* be sent on to the client.
TargetReply(s, sent) ==
  /\ path[s].state = "receiving"
  /\ path' = [path EXCEPT ![s] = [@ EXCEPT
                !.idle = FALSE, !.state = IF sent THEN "receiving" ELSE "closing"]]
  /\ UNCHANGED session /\ PathOnly

TargetError(s) ==
  /\ path[s].state = "receiving"
  /\ path' = [path EXCEPT ![s].state = "closing"]
  /\ UNCHANGED session /\ PathOnly

\* idle_timeout without a datagram from the target.  When the session may not
\* be removed the path receives again with a new timer, which changes nothing.
TimerFires(s) ==
  /\ path[s].state = "receiving" /\ Removable(s, TRUE)
  /\ session' = [session EXCEPT ![path[s].client] = None]
  /\ path' = [path EXCEPT ![s].state = "closing"]
  /\ PathOnly

\* The unconditional removal after the loop; then the path drops its socket.
\* Mutant: a path that fails leaves its session in the map.
PathEnds_NoRemoval(s) ==
  /\ path[s].state = "closing"
  /\ path' = [path EXCEPT ![s] = FreePath]
  /\ UNCHANGED session /\ PathOnly
PathEnds(s) ==
  /\ path[s].state = "closing"
  /\ session' = IF Removable(s, FALSE)
                  THEN [session EXCEPT ![path[s].client] = None] ELSE session
  /\ path' = [path EXCEPT ![s] = FreePath]
  /\ PathOnly

-----------------------------------------------------------------------------
(* Time passes *)

SessionIdles(s) ==
  /\ path[s].state = "receiving" /\ ~path[s].idle
  /\ path' = [path EXCEPT ![s].idle = TRUE]
  /\ UNCHANGED session /\ PathOnly

FakeIdles(c) ==
  /\ status = "running" /\ fakes[c].life = "live"
  /\ fakes' = [fakes EXCEPT ![c].life = "idle"]
  /\ UNCHANGED <<updateVars, loopVars, due, work, session, path, pendVars,
                 taskVars, received, forwarded>>

-----------------------------------------------------------------------------
Update == \E v \in Configs \cup {None} : Publish(v)

Loop == \/ Start \/ HandleUpdate \/ MaintenanceTick \/ HandleResult
        \/ ForwardNext \/ OfflineNext
        \/ ReceiveError
        \/ \E c \in Clients, k \in Kinds : Receive(c, k)

Tasks == \/ \E p \in probes : ProbeAnswered(p) \/ ProbeFailed(p)
         \/ \E up \in BOOLEAN : ReachabilityProbe(up)
         \/ \E s \in Sockets :
              \/ \E sent \in BOOLEAN : TargetReply(s, sent)
              \/ TargetError(s) \/ TimerFires(s) \/ PathEnds(s)

Time == \/ \E s \in Sockets : SessionIdles(s)
        \/ \E c \in Clients : FakeIdles(c)

Next == Update \/ Loop \/ Tasks \/ Time

Spec == Init /\ [][Next]_vars

\* The runtime polls every ready task again: the loop (an interval tick is
\* never lost), each selection (a probe ends by its timeout) and each return
\* path.  Clocks advance.  Nothing is assumed of clients, targets or the
\* supervisor.
Fairness ==
  /\ WF_vars(Start) /\ WF_vars(HandleUpdate) /\ WF_vars(HandleResult)
  /\ WF_vars(MaintenanceTick) /\ WF_vars(ForwardNext) /\ WF_vars(OfflineNext)
  /\ \A c \in Clients :
       /\ WF_vars(\E p \in probes :
                     p.client = c /\ (ProbeAnswered(p) \/ ProbeFailed(p)))
       /\ WF_vars(FakeIdles(c))
  /\ \A s \in Sockets :
       WF_vars(SessionIdles(s)) /\ WF_vars(TimerFires(s)) /\ WF_vars(PathEnds(s))

FairSpec == Spec /\ Fairness
-----------------------------------------------------------------------------
(* What the relay promises *)

Generations == Nat \ {0}
Queues == Seq(Datagrams) \ {<<>>}
Path == {FreePath} \cup
  [state : {"receiving", "closing"}, client : Clients, target : Targets,
   cfg : Configs, idle : BOOLEAN]
Pending == {NotPending} \cup [gen : Generations, queue : Queues]
Fake == {NoFake} \cup [life : {"live", "idle"}, cfg : Configs]
Selection ==
  {p \in [client : Clients, gen : Generations, cfg : Configs, next : Generations] :
     p.next \in DOMAIN TargetsOf[p.cfg]}
Result == [client : Clients, gen : Generations, cfg : Configs,
           target : Targets \cup {None}]
Work == {NoWork} \cup
  [mode : {"forward", "offline"}, client : Clients, sock : Sockets \cup {None},
   cfg : Configs \cup {None}, queue : Queues]

TypeOK ==
  /\ watch \in [value : Configs \cup {None}, unseen : BOOLEAN]
  /\ published \in Nat
  /\ status \in {"starting", "running", "returned", "failed"}
  /\ config \in Configs \cup {None} /\ (status = "running" => config # None)
  /\ draining \in BOOLEAN /\ watchOpen \in BOOLEAN
  /\ reach \in {"unknown", "up", "down", None}
  /\ due \subseteq {"update", "result"}
  /\ work \in Work
  /\ session \in [Clients -> Sockets \cup {None}]
  /\ path \in [Sockets -> Path]
  /\ pending \in [Clients -> Pending]
  /\ generation \in Nat
  /\ probes \subseteq Selection /\ results \in Seq(Result)
  /\ fakes \in [Clients -> Fake]
  /\ received \in [Clients -> 0..MaxReceived]
  /\ forwarded \in [Clients -> Seq(1..MaxReceived)]

Relayed(c) == session[c] # None
Selecting(c) == pending[c] # NotPending
InOffline(c) == fakes[c] # NoFake \/ (work.mode = "offline" /\ work.client = c)
NoRole(c) == ~Relayed(c) /\ ~Selecting(c) /\ ~InOffline(c)

\* A client is served by a target, waits for one, or is shown the offline
\* message, never two of these at once: the three maps of run_reconfigurable
\* are kept disjoint by the order of its lookups, with no check that they are.
OneRole ==
  \A c \in Clients : /\ ~(Relayed(c) /\ Selecting(c))
                     /\ ~(Relayed(c) /\ InOffline(c))
                     /\ ~(Selecting(c) /\ InOffline(c))

\* Each waiting client has exactly one selection task or unread result, of its
\* own generation, and there are no others: no client waits for a result that
\* never comes, and no result is stale when the loop takes it.
OneSelectionEach ==
  /\ \A c \in Clients : Selecting(c) =>
       \/ \E p \in probes : p.client = c
       \/ \E i \in DOMAIN results : results[i].client = c
  /\ \A p \in probes : /\ p.gen = pending[p.client].gen
                       /\ \A q \in probes : q.client = p.client => q = p
  /\ \A i \in DOMAIN results :
       /\ results[i].gen = pending[results[i].client].gen
       /\ \A j \in DOMAIN results : results[j].client = results[i].client => j = i
       /\ \A p \in probes : p.client # results[i].client

\* The session map and the return paths agree although neither task waits for
\* the other: a session's socket has a path that will remove it, and a path
\* that still receives owns its client's session.
SessionsMatchPaths ==
  /\ \A c \in Clients : Relayed(c) => /\ path[session[c]].state # "free"
                                      /\ path[session[c]].client = c
  /\ \A s \in Sockets : path[s].state = "receiving" => session[path[s].client] = s

\* A client's datagrams reach the target side in the order they came in and
\* at most once, across queueing, flushing and direct forwarding.
InOrder ==
  \A c \in Clients : \A i, j \in DOMAIN forwarded[c] :
    i < j => forwarded[c][i] < forwarded[c][j]

\* The byte budget accounts for exactly what is queued, and the limits on
\* clients, datagrams and bytes waiting for a selection hold, as does the one
\* on offline sessions.
WithinLimits ==
  /\ bytes \in Nat
  /\ bytes = SumFunction([c \in Clients |-> BytesOf(pending[c].queue)])
  /\ bytes <= MaxPendingBytes
  /\ PendingCount <= MaxPendingClients
  /\ \A c \in Clients : Len(pending[c].queue) <= MaxPendingDatagrams
  /\ FakeCount(fakes) <= MaxFakeSessions

\* A draining relay serves the clients it has and admits no other, whichever
\* selections and offline handshakes are still under way.
AdmitsNobody == \A c \in Clients : NoRole(c) => NoRole(c)'
DrainAdmitsNobody == [][draining => AdmitsNobody]_vars

\* A session ends only when its return path failed or nothing passed for the
\* idle timeout; the end of an older path of the client never takes it.
ActiveSurvive ==
  \A c \in Clients : Relayed(c) /\ session'[c] # session[c] =>
    /\ session'[c] = None
    /\ path[session[c]].state = "closing" \/ path[session[c]].idle
ActiveSessionSurvives == [][ActiveSurvive]_vars

\* The configuration that a waiting client's selection was started with.
SelectionConfig(c) ==
  CHOOSE g \in Configs : \/ \E p \in probes : p.client = c /\ p.cfg = g
                         \/ \E i \in DOMAIN results :
                              results[i].client = c /\ results[i].cfg = g

\* How each client is served, as RelayContract describes it.
RoleOf(c) ==
  LET is(kind, g, t) == [is |-> kind, cfg |-> g, target |-> t]
  IN  CASE Relayed(c) -> is("relayed", path[session[c]].cfg,
                           path[session[c]].target)
        [] Selecting(c) -> is("selecting", SelectionConfig(c), None)
        [] InOffline(c) -> is("offline", IF fakes[c] # NoFake
                                           THEN fakes[c].cfg ELSE work.cfg, None)
        [] OTHER -> is("none", None, None)

Contract == INSTANCE RelayContract
              WITH role <- [c \in Clients |-> RoleOf(c)], current <- config,
                   open <- ~draining, ended <- status = "returned"

\* The loop and its tasks keep the promises of RelayContract: a client keeps
\* the configuration it was admitted under and the target selected for it
\* through every reload, and only a drained relay that serves nobody ends.
KeepsContract == Contract!Spec

\* A waiting client is always resolved, whatever becomes of the configuration.
SelectionResolves ==
  \A c \in Clients : Selecting(c) ~> (~Selecting(c) \/ status = "failed")

\* Once retired, the relay ends, provided its targets fall silent at last.  Its
\* clients do as well, which nothing but the bound MaxReceived says.
TargetsFallSilent ==
  <>[][\A s \in Sockets : ~TargetReply(s, TRUE)]_vars
RetiredRelayEnds ==
  TargetsFallSilent =>
    ((watch.value = None) ~> (status \in {"returned", "failed"}))
=============================================================================
