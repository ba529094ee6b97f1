--------------------------- MODULE UdpRelayProofs ---------------------------
(***************************************************************************)
(* Type correctness and safety of UdpRelay for every instance of its       *)
(* constants.  The three invariants of the client maps are proved          *)
(* together: what the loop finds in one of its maps is trusted by the code *)
(* that changes another.  The order of the datagrams and the contract of   *)
(* the relay (RelayContract) follow from them.  The limits need that the   *)
(* byte counter is the sum over the queues it counts.                      *)
(***************************************************************************)
EXTENDS UdpRelay, SequenceTheorems, FiniteSums, TLAPS

-----------------------------------------------------------------------------
(* Types                                                                   *)

LEMMA MaxReceivedNat == MaxReceived \in Nat \ {0}
  BY LimitAssumption

LEMMA InitTypeOK == Init => TypeOK
<1> SUFFICES ASSUME Init PROVE TypeOK
  OBVIOUS
<1> USE DEF Init
<1>1. watch \in [value : Configs \cup {None}, unseen : BOOLEAN]
  OBVIOUS
<1>2. work \in Work
  BY DEF Work, NoWork
<1>3. path \in [Sockets -> Path]
  BY DEF Path, FreePath
<1>4. pending \in [Clients -> Pending]
  BY DEF NotPending, Pending
<1>5. fakes \in [Clients -> Fake]
  BY DEF NoFake, Fake
<1>6. received \in [Clients -> 0..MaxReceived]
  BY MaxReceivedNat
<1>7. results \in Seq(Result) /\ forwarded \in [Clients -> Seq(1..MaxReceived)]
  OBVIOUS
<1>8. QED
  BY <1>1, <1>2, <1>3, <1>4, <1>5, <1>6, <1>7 DEF TypeOK

LEMMA ReachabilityType ==
  ASSUME NEW g \in Configs
  PROVE  ReachabilityFor(g) \in {"unknown", "up", "down", None}
  BY DEF ReachabilityFor

LEMMA ReadyType == Ready \subseteq {"update", "result"}
  BY DEF Ready

LEMMA RetainedType ==
  ASSUME TypeOK
  PROVE  Retained(fakes) \in [Clients -> Fake]
  BY DEF TypeOK, Retained, Fake

LEMMA OutcomesType ==
  ASSUME NEW f \in [Clients -> Fake], NEW c \in Clients, NEW d, NEW g,
         NEW o \in OfflineOutcomes(f, c, d, g)
  PROVE  o.fake \in Fake /\ o.handled \in BOOLEAN
<1>1. f[c] # NoFake \/ g \in Offline => LiveFake(f, c, g) \in Fake
  <2>1. CASE f[c] # NoFake
    BY <2>1 DEF LiveFake, Fake
  <2>2. CASE f[c] = NoFake /\ g \in Offline
    BY <2>2, ConfigAssumption DEF LiveFake, Fake
  <2>3. QED
    BY <2>1, <2>2
<1>2. NoFake \in Fake
  BY DEF Fake
<1>3. \E h \in BOOLEAN, x \in Fake : o = Outcome(h, x)
  BY <1>1, <1>2 DEF OfflineOutcomes
<1>4. QED
  BY <1>3 DEF Outcome

LEMMA DatagramType ==
  ASSUME TypeOK, NEW c \in Clients, NEW k \in Kinds, received[c] < MaxReceived
  PROVE  /\ Datagram(c, k) \in Datagrams
         /\ [received EXCEPT ![c] = @ + 1] \in [Clients -> 0..MaxReceived]
  BY MaxReceivedNat DEF TypeOK, Datagram, Datagrams

LEMMA TargetType ==
  ASSUME NEW g \in Configs, NEW i \in DOMAIN TargetsOf[g]
  PROVE  TargetsOf[g][i] \in Targets
  BY DEF Targets

\* What CreateSession leaves well-typed.
LEMMA CreateSessionType ==
  ASSUME TypeOK, NEW c \in Clients, NEW t \in Targets, NEW g \in Configs,
         NEW queue \in Queues, CreateSession(c, t, g, queue)
  PROVE  /\ session' \in [Clients -> Sockets \cup {None}]
         /\ path' \in [Sockets -> Path]
         /\ work' \in Work
         /\ due' = due
<1>1. PICK s \in Sockets :
        LET sock == IF session[c] # None THEN session[c] ELSE s
        IN  /\ session' = [session EXCEPT ![c] = sock]
            /\ path' = IF session[c] # None THEN path
                       ELSE [path EXCEPT ![s] =
                              [state |-> "receiving", client |-> c, target |-> t,
                               cfg |-> g, idle |-> FALSE]]
            /\ work' = [mode |-> "forward", client |-> c, sock |-> sock,
                        cfg |-> g, queue |-> queue]
            /\ UNCHANGED due
  BY DEF CreateSession, FreeSockets
<1>2. [state |-> "receiving", client |-> c, target |-> t, cfg |-> g,
       idle |-> FALSE] \in Path
  BY DEF Path
<1>3. session' \in [Clients -> Sockets \cup {None}]
  BY <1>1 DEF TypeOK
<1>4. path' \in [Sockets -> Path]
  BY <1>1, <1>2 DEF TypeOK
<1>5. work' \in Work
  BY <1>1 DEF TypeOK, Work
<1>6. QED
  BY <1>1, <1>3, <1>4, <1>5

\* The rest of a receive step, once its datagram is known.
LEMMA ArrivesType ==
  ASSUME TypeOK, NEW c \in Clients, Arrives(c)
  PROVE  /\ received[c] < MaxReceived
         /\ received' \in [Clients -> 0..MaxReceived]
         /\ status = "running" /\ config \in Configs
         /\ UNCHANGED <<updateVars, loopVars, results, forwarded>>
  BY MaxReceivedNat DEF TypeOK, Arrives, AtSelect

LEMMA LoopTopType ==
  LoopTop => due' \subseteq {"update", "result"}
  BY DEF LoopTop, Ready

LEMMA NextDatagramType ==
  ASSUME TypeOK, work # NoWork, NextDatagram
  PROVE  work' \in Work /\ due' \subseteq {"update", "result"}
<1>1. work.queue \in Queues
  BY DEF TypeOK, Work
<1>2. CASE Len(work.queue) > 1
  <2>1. Tail(work.queue) \in Queues
    <3>1. Tail(work.queue) \in Seq(Datagrams) /\ Len(Tail(work.queue)) > 0
      BY <1>1, <1>2 DEF Queues
    <3>2. Tail(work.queue) # <<>>
      <4>1. Len(<<>>) = 0
        BY EmptySeq
      <4>2. Tail(work.queue) = <<>> => Len(Tail(work.queue)) = 0
        BY <4>1, Zenon
      <4>3. ~(0 > 0)
        OBVIOUS
      <4>4. QED
        BY <3>1, <4>2, <4>3, Zenon
    <3>3. QED
      BY <3>1, <3>2 DEF Queues
  <2>2. [work EXCEPT !.queue = Tail(work.queue)] \in Work
    <3>1. work \in Work
      BY DEF TypeOK
    <3>2. QED
      BY <2>1, <3>1 DEF Work, NoWork
  <2>3. QED
    BY <1>2, <2>2 DEF NextDatagram, TypeOK
<1>3. CASE ~(Len(work.queue) > 1)
  BY <1>3, LoopTopType DEF NextDatagram, Work
<1>4. QED
  BY <1>2, <1>3

LEMMA TypeOKStep == TypeOK /\ [Next]_vars => TypeOK'
<1> SUFFICES ASSUME TypeOK, [Next]_vars PROVE TypeOK'
  OBVIOUS
<1> USE DEF updateVars, loopVars, pendVars, taskVars
<1>1. ASSUME NEW v \in Configs \cup {None}, Publish(v) PROVE TypeOK'
  BY <1>1 DEF Publish, TypeOK
<1>2. CASE Start
  BY <1>2, ReachabilityType DEF Start, TypeOK
<1>3. CASE HandleUpdate
  BY <1>3, ReachabilityType, LoopTopType DEF HandleUpdate, AtSelect, TypeOK
<1>4. CASE MaintenanceTick
  BY <1>4, RetainedType, LoopTopType DEF MaintenanceTick, AtSelect, TypeOK
<1>5. CASE HandleResult
  <2> DEFINE r == Head(results)
  <2>1. /\ r \in Result /\ results' \in Seq(Result)
        /\ UNCHANGED <<updateVars, loopVars, generation, probes, fakes,
                       received, forwarded>>
    BY <1>5 DEF HandleResult, TypeOK
  <2>2. CASE pending[r.client].gen # r.gen
    BY <1>5, <2>1, <2>2, LoopTopType DEF HandleResult, TypeOK
  <2>3. CASE pending[r.client].gen = r.gen
    <3>1. pending' \in [Clients -> Pending]
      <4>1. r.client \in Clients /\ pending \in [Clients -> Pending]
        BY <2>1 DEF Result, TypeOK
      <4>2. NotPending \in Pending
        BY DEF Pending
      <4>3. QED
        BY <1>5, <2>3, <4>1, <4>2 DEF HandleResult, RemovePending
    <3>2. pending[r.client].queue \in Queues
      BY <2>1, <2>3 DEF TypeOK, Pending, NotPending, Result, Generations
    <3>3. CASE LoopTop /\ UNCHANGED <<work, session, path>>
      BY <3>3, <2>1, <3>1, LoopTopType DEF TypeOK
    <3>4. CASE /\ r.target # None
               /\ CreateSession(r.client, r.target, r.cfg, pending[r.client].queue)
      <4>1. r.client \in Clients /\ r.target \in Targets /\ r.cfg \in Configs
        BY <3>4, <2>1 DEF Result
      <4>2. /\ session' \in [Clients -> Sockets \cup {None}]
            /\ path' \in [Sockets -> Path] /\ work' \in Work /\ due' = due
        BY <3>4, <4>1, <3>2, CreateSessionType
      <4>3. QED
        BY <4>2, <2>1, <3>1, <1>5 DEF TypeOK, HandleResult, updateVars, loopVars
    <3>5. CASE /\ work' = [mode |-> "offline", client |-> r.client,
                           sock |-> None, cfg |-> r.cfg,
                           queue |-> pending[r.client].queue]
               /\ UNCHANGED <<due, session, path>>
      BY <3>5, <2>1, <3>1, <3>2 DEF Result, Work, TypeOK
    <3>6. QED
      BY <1>5, <2>3, <3>3, <3>4, <3>5 DEF HandleResult, SessionNotOpened
  <2>4. QED
    BY <2>2, <2>3
<1>6. CASE ForwardNext
  <2>1. /\ work.client \in Clients /\ work.queue \in Queues
        /\ Head(work.queue) \in Datagrams
    BY <1>6 DEF ForwardNext, TypeOK, Work, NoWork, Queues
  <2>2. work' \in Work /\ due' \subseteq {"update", "result"}
    BY <1>6, <2>1, NextDatagramType DEF ForwardNext, NoWork
  <2>3. forwarded' \in [Clients -> Seq(1..MaxReceived)]
    <3>1. /\ Head(work.queue).num \in 1..MaxReceived
          /\ forwarded \in [Clients -> Seq(1..MaxReceived)]
      BY <2>1 DEF Datagrams, TypeOK
    <3>2. Append(forwarded[work.client], Head(work.queue).num) \in Seq(1..MaxReceived)
      BY <2>1, <3>1
    <3>3. QED
      BY <1>6, <2>1, <3>1, <3>2 DEF ForwardNext
  <2>4. QED
    BY <1>6, <2>2, <2>3 DEF ForwardNext, TypeOK
<1>7. CASE OfflineNext
  <2>1. work.client \in Clients /\ work.cfg \in Configs \cup {None}
    BY <1>7 DEF OfflineNext, TypeOK, Work, NoWork
  <2>2. work' \in Work /\ due' \subseteq {"update", "result"}
    BY <1>7, <2>1, NextDatagramType DEF OfflineNext, NoWork
  <2>3. fakes' \in [Clients -> Fake]
    <3>1. fakes \in [Clients -> Fake]
      BY DEF TypeOK
    <3>2. PICK o \in OfflineOutcomes(fakes, work.client, Head(work.queue), work.cfg) :
            fakes' = [fakes EXCEPT ![work.client] = o.fake]
      BY <1>7 DEF OfflineNext
    <3>3. o.fake \in Fake
      BY <2>1, <3>1, OutcomesType
    <3>4. QED
      BY <3>1, <3>2, <3>3
  <2>4. QED
    BY <1>7, <2>2, <2>3 DEF OfflineNext, TypeOK
<1>8. CASE ReceiveError
  BY <1>8 DEF ReceiveError, TypeOK
<1>9. ASSUME NEW c \in Clients, NEW k \in Kinds, Receive(c, k) PROVE TypeOK'
  <2> DEFINE d == Datagram(c, k)
  <2>1. Arrives(c)
    BY <1>9 DEF Receive, ReceiveFake, ReceiveExisting, ReceivePending, ReceiveDraining,
      ReceiveOffline, ReceiveSingle, ReceiveSelect, NewClient
  <2>2. /\ received[c] < MaxReceived
        /\ received' \in [Clients -> 0..MaxReceived]
        /\ config \in Configs /\ status = "running"
        /\ UNCHANGED <<updateVars, loopVars, results, forwarded>>
    BY <2>1, ArrivesType
  <2>3. d \in Datagrams /\ <<d>> \in Queues
    BY <2>2, DatagramType DEF Queues
  <2>4. Retained(fakes) \in [Clients -> Fake]
    BY RetainedType
  <2> HIDE DEF d
  <2>5. CASE ReceiveFake(c, k)
    <3>1. PICK o \in OfflineOutcomes(Retained(fakes), c, d, config) :
            fakes' = [Retained(fakes) EXCEPT ![c] = o.fake]
      BY <2>5 DEF ReceiveFake, d
    <3>2. fakes' \in [Clients -> Fake]
      BY <2>4, <3>1, OutcomesType
    <3>3. QED
      BY <2>2, <2>5, <3>2, LoopTopType DEF ReceiveFake, TypeOK
  <2>6. CASE ReceiveExisting(c, k)
    <3>1. /\ session[c] \in Sockets
          /\ path[session[c]] \in Path
          /\ path' = [path EXCEPT ![session[c]].idle = FALSE]
      BY <2>6 DEF ReceiveExisting, TypeOK
    <3>2. path' \in [Sockets -> Path]
      <4>1. [path[session[c]] EXCEPT !.idle = FALSE] \in Path
        <5>1. CASE path[session[c]] = FreePath
          <6>1. [FreePath EXCEPT !.idle = FALSE] = FreePath
            <7>1. /\ FreePath = [x \in DOMAIN FreePath |-> FreePath[x]]
                  /\ "idle" \in DOMAIN FreePath /\ FreePath["idle"] = FALSE
              BY DEF FreePath
            <7>2. QED
              BY <7>1, Zenon
          <6>2. QED
            BY <5>1, <6>1 DEF Path
        <5>2. CASE path[session[c]] # FreePath
          BY <3>1, <5>2 DEF Path
        <5>3. QED
          BY <5>1, <5>2
      <4>2. QED
        BY <3>1, <4>1 DEF TypeOK
    <3>3. work' \in Work
      <4>1. path[session[c]].cfg \in Configs \cup {None}
        BY <3>1 DEF Path, FreePath
      <4>2. QED
        BY <2>3, <2>6, <3>1, <4>1 DEF ReceiveExisting, Work, d
    <3>4. QED
      BY <2>2, <2>4, <2>6, <3>2, <3>3 DEF ReceiveExisting, TypeOK
  <2>7. CASE ReceivePending(c, k)
    <3>1. pending' \in [Clients -> Pending]
      <4>1. /\ pending \in [Clients -> Pending] /\ pending[c] # NotPending
            /\ pending[c].queue \in Queues
        BY <2>7 DEF ReceivePending, Pending, TypeOK
      <4>2. Append(pending[c].queue, d) \in Queues
        BY <2>3, <4>1 DEF Queues
      <4>3. [pending[c] EXCEPT !.queue = Append(@, d)] \in Pending
        BY <4>1, <4>2 DEF Pending
      <4>4. QED
        BY <2>7, <4>1, <4>3 DEF ReceivePending, Enqueue, d
    <3>2. QED
      BY <2>2, <2>4, <2>7, <3>1, LoopTopType DEF ReceivePending, TypeOK
  <2>8. CASE ReceiveDraining(c)
    BY <2>2, <2>4, <2>8, LoopTopType DEF ReceiveDraining, TypeOK
  <2>9. CASE ReceiveOffline(c, k)
    <3>1. fakes' \in [Clients -> Fake]
      <4>1. PICK o \in OfflineFirst(c, k) :
              fakes' = [Retained(fakes) EXCEPT ![c] = o.fake]
        BY <2>9 DEF ReceiveOffline
      <4>2. o.fake \in Fake
        BY <2>4, OutcomesType DEF OfflineFirst, Fake
      <4>3. QED
        BY <2>4, <4>1, <4>2
    <3>2. QED
      BY <2>2, <2>9, <3>1, LoopTopType DEF ReceiveOffline, TypeOK
  <2>10. CASE ReceiveSingle(c, k)
    <3>1. TargetsOf[config][1] \in Targets
      BY <2>2, <2>10, ConfigAssumption, TargetType DEF ReceiveSingle
    <3>2. CASE SessionNotOpened
      BY <2>2, <2>4, <2>10, <3>2, LoopTopType
      DEF ReceiveSingle, NewClient, SessionNotOpened, TypeOK
    <3>3. CASE CreateSession(c, TargetsOf[config][1], config, <<d>>)
      BY <2>2, <2>3, <2>4, <2>10, <3>1, <3>3, CreateSessionType
      DEF ReceiveSingle, NewClient, TypeOK
    <3>4. QED
      BY <2>10, <3>2, <3>3 DEF ReceiveSingle, d
  <2>11. CASE ReceiveSelect(c, k)
    <3>1. generation' \in Generations
      BY <2>11 DEF ReceiveSelect, TypeOK, Generations
    <3>2. pending' \in [Clients -> Pending]
      <4>1. [gen |-> generation', queue |-> <<d>>] \in Pending
        BY <2>3, <3>1 DEF Pending
      <4>2. QED
        BY <2>11, <4>1 DEF ReceiveSelect, StartPending, TypeOK, d
    <3>3. probes' \subseteq Selection
      <4>1. 1 \in DOMAIN TargetsOf[config]
        BY <2>2, ConfigAssumption, EmptySeq
      <4>2. QED
        BY <2>2, <2>11, <3>1, <4>1 DEF ReceiveSelect, Selection, TypeOK, Generations
    <3>4. QED
      BY <2>2, <2>4, <2>11, <3>1, <3>2, <3>3, LoopTopType
      DEF ReceiveSelect, NewClient, Generations, TypeOK
  <2>12. QED
    BY <1>9, <2>5, <2>6, <2>7, <2>8, <2>9, <2>10, <2>11 DEF Receive
<1>10. ASSUME NEW p \in probes, ProbeAnswered(p) \/ ProbeFailed(p) PROVE TypeOK'
  <2>1. p \in Selection /\ probes \subseteq Selection /\ results \in Seq(Result)
    BY DEF TypeOK
  <2>2. TargetsOf[p.cfg] \in Seq(Targets) /\ TargetsOf[p.cfg] # <<>>
    BY <2>1, ConfigAssumption DEF Selection
  <2>3. probes' \subseteq Selection
    <3>1. CASE p.next # Len(TargetsOf[p.cfg])
      <4>1. /\ p.next + 1 \in Generations
            /\ p.next + 1 \in DOMAIN TargetsOf[p.cfg]
        BY <2>1, <2>2, <3>1 DEF Selection, Generations
      <4>2. [p EXCEPT !.next = @ + 1] \in Selection
        BY <2>1, <4>1 DEF Selection
      <4>3. QED
        BY <1>10, <2>1, <4>2 DEF ProbeAnswered, ProbeFailed
    <3>2. CASE p.next = Len(TargetsOf[p.cfg])
      BY <1>10, <2>1, <3>2 DEF ProbeAnswered, ProbeFailed
    <3>3. QED
      BY <3>1, <3>2
  <2>4. results' \in Seq(Result)
    <3>1. \A t \in Targets \cup {None} : SelectionResult(p, t) \in Result
      BY <2>1 DEF SelectionResult, Selection, Result
    <3>2. CASE ProbeFailed(p)
      BY <2>1, <3>1, <3>2 DEF ProbeFailed
    <3>3. CASE ProbeAnswered(p)
      <4>1. TargetsOf[p.cfg][p.next] \in Targets
        BY <2>1, TargetType DEF Selection
      <4>2. QED
        BY <2>1, <3>1, <3>3, <4>1 DEF ProbeAnswered
    <3>4. QED
      BY <1>10, <3>2, <3>3
  <2>5. QED
    BY <1>10, <2>3, <2>4 DEF ProbeAnswered, ProbeFailed, SelectionOnly, TypeOK
<1>11. ASSUME NEW up \in BOOLEAN, ReachabilityProbe(up) PROVE TypeOK'
  BY <1>11 DEF ReachabilityProbe, TypeOK
<1>12. ASSUME NEW s \in Sockets, NEW sent \in BOOLEAN,
              TargetReply(s, sent) \/ TargetError(s) \/ SessionIdles(s)
       PROVE  TypeOK'
  <2>1. path \in [Sockets -> Path] /\ path[s] # FreePath
    BY <1>12 DEF TargetReply, TargetError, SessionIdles, FreePath, TypeOK
  <2>2. path' \in [Sockets -> Path]
    <3>1. \A b \in BOOLEAN, x \in {"receiving", "closing"} :
            [path[s] EXCEPT !.idle = b, !.state = x] \in Path
      BY <2>1 DEF Path
    <3>2. path[s].state = "receiving" /\ path[s].idle \in BOOLEAN
      BY <1>12, <2>1 DEF TargetReply, TargetError, SessionIdles, Path
    <3>3. CASE TargetReply(s, sent)
      BY <2>1, <3>1, <3>2, <3>3 DEF TargetReply
    <3>4. CASE TargetError(s)
      <4>1. [path[s] EXCEPT !.state = "closing"] \in Path
        BY <2>1 DEF Path
      <4>2. QED
        BY <2>1, <3>4, <4>1 DEF TargetError
    <3>5. CASE SessionIdles(s)
      <4>1. [path[s] EXCEPT !.idle = TRUE] \in Path
        BY <2>1 DEF Path
      <4>2. QED
        BY <2>1, <3>5, <4>1 DEF SessionIdles
    <3>6. QED
      BY <1>12, <3>3, <3>4, <3>5
  <2>3. QED
    BY <1>12, <2>2 DEF TargetReply, TargetError, SessionIdles, PathOnly, TypeOK
<1>13. ASSUME NEW s \in Sockets, TimerFires(s) \/ PathEnds(s) PROVE TypeOK'
  <2>1. path \in [Sockets -> Path] /\ path[s] # FreePath
    <3>1. path[s].state # "free"
      BY <1>13 DEF TimerFires, PathEnds
    <3>2. QED
      BY <3>1 DEF FreePath, TypeOK
  <2>2. path' \in [Sockets -> Path]
    <3>1. FreePath \in Path /\ [path[s] EXCEPT !.state = "closing"] \in Path
      <4>1. path[s] \in Path
        BY <2>1
      <4>2. QED
        BY <2>1, <4>1 DEF FreePath, Path
    <3>2. QED
      BY <1>13, <2>1, <3>1 DEF TimerFires, PathEnds
  <2>3. session' \in [Clients -> Sockets \cup {None}]
    BY <1>13 DEF TimerFires, PathEnds, TypeOK
  <2>4. QED
    BY <1>13, <2>2, <2>3 DEF TimerFires, PathEnds, PathOnly, TypeOK
<1>14. ASSUME NEW c \in Clients, FakeIdles(c) PROVE TypeOK'
  <2>1. fakes \in [Clients -> Fake] /\ fakes[c] # NoFake
    BY <1>14 DEF FakeIdles, NoFake, TypeOK
  <2>2. [fakes[c] EXCEPT !.life = "idle"] \in Fake
    BY <2>1 DEF Fake
  <2>3. QED
    BY <1>14, <2>1, <2>2 DEF FakeIdles, TypeOK
<1>15. CASE UNCHANGED vars
  BY <1>15 DEF vars, TypeOK
<1>16. QED
  BY <1>1, <1>2, <1>3, <1>4, <1>5, <1>6, <1>7, <1>8, <1>9, <1>10, <1>11,
     <1>12, <1>13, <1>14, <1>15 DEF Next, Update, Loop, Tasks, Time

\* Every reachable state of the relay is well typed, which includes that a
\* running loop has a configuration, that a waiting client has a generation
\* and a datagram, and that each return path knows its client and target.
THEOREM TypeCorrect == Spec => []TypeOK
<1>1. Init => TypeOK
  BY InitTypeOK
<1>2. TypeOK /\ [Next]_vars => TypeOK'
  BY TypeOKStep
<1>3. QED
  BY <1>1, <1>2, PTL DEF Spec

-----------------------------------------------------------------------------
(* One role, one selection and one return path                              *)

\* The inductive invariant.
Consistent ==
  TypeOK /\ OneRole /\ OneSelectionEach /\ SessionsMatchPaths

LEMMA InitConsistent == Init => Consistent
<1> SUFFICES ASSUME Init PROVE OneRole /\ OneSelectionEach /\ SessionsMatchPaths
  BY InitTypeOK DEF Consistent
<1> USE DEF Init
<1>1. OneRole
  BY DEF OneRole, Relayed, Selecting, InOffline, NoWork
<1>2. OneSelectionEach
  BY DEF OneSelectionEach, Selecting
<1>3. SessionsMatchPaths
  BY NoneAssumption DEF SessionsMatchPaths, Relayed, FreePath
<1>4. QED
  BY <1>1, <1>2, <1>3

-----------------------------------------------------------------------------
(* Lemmas about the steps *)

LEMMA RetainedOnlyForgets ==
  ASSUME NEW c \in Clients
  PROVE  Retained(fakes)[c] \in {NoFake, fakes[c]}
  BY DEF Retained

\* A waiting client is the one whose generation is not 0.
LEMMA SelectingByGeneration ==
  ASSUME TypeOK, NEW c \in Clients
  PROVE  Selecting(c) <=> pending[c].gen # 0
  BY DEF TypeOK, Selecting, Pending, NotPending, Generations

\* An outstanding selection belongs to a client that waits.
LEMMA OutstandingIsSelecting ==
  ASSUME Consistent
  PROVE  /\ \A p \in probes : p.client \in Clients /\ Selecting(p.client)
         /\ \A i \in DOMAIN results :
              results[i].client \in Clients /\ Selecting(results[i].client)
<1>1. ASSUME NEW p \in probes PROVE p.client \in Clients /\ Selecting(p.client)
  <2>1. p.client \in Clients /\ p.gen # 0 /\ p.gen = pending[p.client].gen
    BY DEF Consistent, TypeOK, OneSelectionEach, Selection, Generations
  <2>2. QED
    BY <2>1, SelectingByGeneration DEF Consistent
<1>2. ASSUME NEW i \in DOMAIN results
      PROVE  results[i].client \in Clients /\ Selecting(results[i].client)
  <2>1. /\ results[i].client \in Clients /\ results[i].gen # 0
        /\ results[i].gen = pending[results[i].client].gen
    <3>1. results[i] \in Result
      BY DEF Consistent, TypeOK
    <3>2. QED
      BY <3>1 DEF Consistent, OneSelectionEach, Result, Generations
  <2>2. QED
    BY <2>1, SelectingByGeneration DEF Consistent
<1>3. QED
  BY <1>1, <1>2

\* CreateSession for a client without a session takes a free socket for it.
LEMMA CreateSessionEffect ==
  ASSUME TypeOK, NEW c \in Clients, NEW t, NEW g, NEW queue,
         session[c] = None, CreateSession(c, t, g, queue)
  PROVE  \E s \in Sockets :
           /\ path[s] = FreePath
           /\ session' = [session EXCEPT ![c] = s]
           /\ path' = [path EXCEPT ![s] =
                [state |-> "receiving", client |-> c, target |-> t,
                 cfg |-> g, idle |-> FALSE]]
           /\ work' = [mode |-> "forward", client |-> c, sock |-> s,
                       cfg |-> g, queue |-> queue]
  BY DEF CreateSession, FreeSockets

\* The result the loop takes is current, and its client has no other role.
LEMMA ResultIsCurrent ==
  ASSUME Consistent, results # <<>>
  PROVE  LET r == Head(results)
         IN  /\ r \in Result
             /\ pending[r.client].gen = r.gen
             /\ Selecting(r.client) /\ session[r.client] = None
             /\ fakes[r.client] = NoFake
<1>1. 1 \in DOMAIN results /\ Head(results) = results[1] /\ results[1] \in Result
  BY DEF Consistent, TypeOK
<1>2. results[1].client \in Clients /\ Selecting(results[1].client)
  BY <1>1, OutstandingIsSelecting
<1>3. QED
  BY <1>1, <1>2 DEF Consistent, OneSelectionEach, OneRole, Relayed, InOffline

-----------------------------------------------------------------------------
(* A client has one role *)

LEMMA OneRoleStep == Consistent /\ [Next]_vars => OneRole'
<1> SUFFICES ASSUME Consistent, [Next]_vars PROVE OneRole'
  OBVIOUS
<1> USE DEF updateVars, loopVars, pendVars, taskVars
<1>a. TypeOK /\ OneRole
  BY DEF Consistent
<1> DEFINE Kept == Retained(fakes)
<1>b. \A c \in Clients : Kept[c] \in {NoFake, fakes[c]}
  BY RetainedOnlyForgets
<1>c. NoWork.mode = "none"
  BY DEF NoWork
<1> HIDE DEF Kept
\* Steps that leave the loop's maps and its work alone.
<1>1. CASE /\ UNCHANGED <<pending, fakes, work>>
           /\ \A c \in Clients : session'[c] \in {None, session[c]}
  BY <1>1, <1>a DEF OneRole, Relayed, Selecting, InOffline
\* Steps of the loop that only forget fake sessions.
<1>2. CASE /\ UNCHANGED <<session, pending, work>>
           /\ \A c \in Clients : fakes'[c] = NoFake \/ fakes[c] # NoFake
  BY <1>2, <1>a DEF OneRole, Relayed, Selecting, InOffline
<1>3. CASE HandleResult
  <2> DEFINE r == Head(results)
  <2>1. /\ r \in Result /\ pending[r.client].gen = r.gen
        /\ Selecting(r.client) /\ session[r.client] = None
        /\ fakes[r.client] = NoFake /\ r.client \in Clients
    BY <1>3, ResultIsCurrent DEF HandleResult, Result
  <2>2. /\ pending' = [pending EXCEPT ![r.client] = NotPending]
        /\ fakes' = fakes /\ work = NoWork
    BY <1>3, <2>1 DEF HandleResult, RemovePending, AtSelect
  <2>3. CASE UNCHANGED <<session, work>>
    BY <2>1, <2>2, <2>3, <1>a DEF OneRole, Relayed, Selecting, InOffline, TypeOK
  <2>4. CASE CreateSession(r.client, r.target, r.cfg, pending[r.client].queue)
    <3>1. PICK s \in Sockets :
            /\ session' = [session EXCEPT ![r.client] = s]
            /\ work'.mode = "forward"
      BY <2>1, <2>4, <1>a, CreateSessionEffect
    <3>2. QED
      BY <2>1, <2>2, <3>1, <1>a, <1>c DEF OneRole, Relayed, Selecting, InOffline, TypeOK
  <2>5. CASE /\ work' = [mode |-> "offline", client |-> r.client, sock |-> None,
                         cfg |-> r.cfg, queue |-> pending[r.client].queue]
             /\ UNCHANGED session
    BY <2>1, <2>2, <2>5, <1>a, <1>c
    DEF OneRole, Relayed, Selecting, InOffline, TypeOK
  <2>6. QED
    BY <1>3, <2>1, <2>3, <2>4, <2>5 DEF HandleResult, SessionNotOpened
<1>4. CASE ForwardNext
  <2>1. work'.mode # "offline"
    BY <1>4, <1>a, <1>c DEF ForwardNext, NextDatagram, TypeOK, Work, NoWork
  <2>2. QED
    BY <1>4, <2>1, <1>a DEF ForwardNext, OneRole, Relayed, Selecting, InOffline
<1>5. CASE OfflineNext
  <2>1. work.client \in Clients /\ InOffline(work.client)
    BY <1>5, <1>a DEF OfflineNext, InOffline, TypeOK, Work, NoWork
  <2>2. work'.mode = "offline" => work'.client = work.client
    BY <1>5, <1>a, <1>c DEF OfflineNext, NextDatagram, TypeOK, Work, NoWork
  <2>3. \A c \in Clients : c # work.client => fakes'[c] = fakes[c]
    BY <1>5, <1>a DEF OfflineNext, TypeOK
  <2>4. QED
    BY <1>5, <2>1, <2>2, <2>3, <1>a
    DEF OfflineNext, OneRole, Relayed, Selecting, InOffline
<1>6. ASSUME NEW c \in Clients, NEW k \in Kinds, Receive(c, k) PROVE OneRole'
  <2>1. work = NoWork /\ work.mode = "none"
    BY <1>6, <1>c DEF Receive, ReceiveFake, ReceiveExisting, ReceivePending,
      ReceiveDraining, ReceiveOffline, ReceiveSingle, ReceiveSelect, NewClient,
      Arrives, AtSelect
  <2>3. CASE ReceiveFake(c, k)
    <3>1. /\ UNCHANGED <<session, pending, work>> /\ Kept[c] # NoFake
          /\ \A x \in Clients : x # c => fakes'[x] = Kept[x]
      BY <2>3 DEF ReceiveFake, Kept, Retained
    <3>2. QED
      BY <3>1, <1>b, <1>2
  <2>4. CASE ReceiveExisting(c, k)
    <3>1. work'.mode = "forward" /\ UNCHANGED <<session, pending>> /\ fakes' = Kept
      BY <2>4 DEF ReceiveExisting, Kept
    <3>2. QED
      BY <3>1, <1>a, <1>b DEF OneRole, Relayed, Selecting, InOffline
  <2>5. CASE ReceivePending(c, k)
    <3>1. /\ UNCHANGED <<session, work>> /\ fakes' = Kept /\ Selecting(c)
          /\ \A x \in Clients : x # c => pending'[x] = pending[x]
      BY <2>5, <1>a DEF ReceivePending, Enqueue, Selecting, TypeOK, Kept
    <3>2. QED
      BY <3>1, <2>1, <1>a, <1>b DEF OneRole, Relayed, Selecting, InOffline
  <2>6. CASE ReceiveDraining(c)
    BY <2>6, <1>b, <1>2 DEF ReceiveDraining, Kept
  <2>7. CASE ReceiveOffline(c, k)
    <3>1. /\ UNCHANGED <<session, pending, work>>
          /\ session[c] = None /\ pending[c] = NotPending
          /\ \A x \in Clients : x # c => fakes'[x] = Kept[x]
      BY <2>7 DEF ReceiveOffline, Unknown, Kept, Retained
    <3>2. QED
      BY <3>1, <2>1, <1>a, <1>b DEF OneRole, Relayed, Selecting, InOffline
  <2>8. CASE ReceiveSingle(c, k)
    <3>1. /\ UNCHANGED pending /\ fakes' = Kept /\ Kept[c] = NoFake
          /\ session[c] = None /\ pending[c] = NotPending
      BY <2>8 DEF ReceiveSingle, NewClient, Unknown, Kept
    <3>2. CASE SessionNotOpened
      BY <3>1, <3>2, <1>b, <1>2 DEF SessionNotOpened
    <3>3. CASE CreateSession(c, TargetsOf[config][1], config, <<Datagram(c, k)>>)
      <4>1. PICK s \in Sockets :
              /\ session' = [session EXCEPT ![c] = s]
              /\ work'.mode = "forward"
        BY <3>1, <3>3, <1>a, CreateSessionEffect
      <4>2. QED
        BY <3>1, <4>1, <1>a, <1>b DEF OneRole, Relayed, Selecting, InOffline, TypeOK
    <3>4. QED
      BY <2>8, <3>2, <3>3 DEF ReceiveSingle
  <2>9. CASE ReceiveSelect(c, k)
    <3>1. /\ UNCHANGED <<session, work>> /\ fakes' = Kept /\ Kept[c] = NoFake
          /\ session[c] = None
          /\ \A x \in Clients : x # c => pending'[x] = pending[x]
      BY <2>9, <1>a DEF ReceiveSelect, NewClient, Unknown, StartPending, TypeOK, Kept
    <3>2. QED
      BY <3>1, <2>1, <1>a, <1>b DEF OneRole, Relayed, Selecting, InOffline
  <2>10. QED
    BY <1>6, <2>3, <2>4, <2>5, <2>6, <2>7, <2>8, <2>9 DEF Receive
<1>7. CASE MaintenanceTick
  BY <1>7, <1>b, <1>2 DEF MaintenanceTick, Kept
<1>8. ASSUME NEW c \in Clients, FakeIdles(c) PROVE OneRole'
  <2>1. UNCHANGED <<session, pending, work>> /\ fakes[c] # NoFake
    BY <1>8 DEF FakeIdles, NoFake
  <2>2. \A x \in Clients : fakes'[x] = NoFake \/ fakes[x] # NoFake
    BY <1>8, <2>1, <1>a DEF FakeIdles, TypeOK
  <2>3. QED
    BY <2>1, <2>2, <1>2
<1>9. ASSUME NEW s \in Sockets, TimerFires(s) \/ PathEnds(s) PROVE OneRole'
  <2>1. /\ UNCHANGED <<pending, fakes, work>>
        /\ \A c \in Clients : session'[c] \in {None, session[c]}
    BY <1>9, <1>a DEF TimerFires, PathEnds, PathOnly, TypeOK
  <2>2. QED
    BY <2>1, <1>1
<1>10. ASSUME UNCHANGED <<session, pending, fakes, work>> PROVE OneRole'
  BY <1>10, <1>1
<1>11. QED
  BY <1>3, <1>4, <1>5, <1>6, <1>7, <1>8, <1>9, <1>10
  DEF Next, Update, Loop, Tasks, Time, Publish, Start, HandleUpdate, ReceiveError,
      ProbeAnswered, ProbeFailed, SelectionOnly, ReachabilityProbe, TargetReply,
      TargetError, SessionIdles, PathOnly, vars

-----------------------------------------------------------------------------
(* Every waiting client has its selection *)

\* A step that keeps pending, up to the queues, keeps the correspondence.
LEMMA SelectionsKept ==
  ASSUME Consistent, UNCHANGED <<probes, results>>,
         \A c \in Clients : pending'[c].gen = pending[c].gen,
         \A c \in Clients : Selecting(c)' <=> Selecting(c)
  PROVE  OneSelectionEach'
<1>1. /\ \A p \in probes : p.client \in Clients
      /\ \A i \in DOMAIN results : results[i].client \in Clients
  BY OutstandingIsSelecting
<1>2. QED
  BY <1>1 DEF Consistent, OneSelectionEach

LEMMA SelectionProbed ==
  ASSUME Consistent, NEW p \in probes, UNCHANGED pending,
         \/ \E n : probes' = (probes \ {p}) \cup {[p EXCEPT !.next = n]}
              /\ UNCHANGED results
         \/ \E t : /\ probes' = probes \ {p}
                  /\ results' = Append(results, SelectionResult(p, t))
  PROVE  OneSelectionEach'
<1> USE DEF Consistent
<1>1. p \in Selection /\ results \in Seq(Result) /\ probes \subseteq Selection
  BY DEF TypeOK
<1>2. ASSUME NEW n, probes' = (probes \ {p}) \cup {[p EXCEPT !.next = n]},
             UNCHANGED results
      PROVE  OneSelectionEach'
  <2> DEFINE q == [p EXCEPT !.next = n]
  <2>1. q.client = p.client /\ q.gen = p.gen
    BY <1>1 DEF Selection
  <2>2. \A x \in probes' : x = q \/ (x \in probes /\ x # p)
    BY <1>2
  <2> HIDE DEF q
  <2>3. \A x \in probes' : x.gen = pending[x.client].gen
    BY <2>1, <2>2 DEF OneSelectionEach
  <2>4. \A x, y \in probes' : x.client = y.client => x = y
    BY <2>1, <2>2 DEF OneSelectionEach
  <2>5. \A x \in probes' : \A i \in DOMAIN results : x.client # results[i].client
    BY <2>1, <2>2 DEF OneSelectionEach
  <2>6. \A c \in Clients : (\E x \in probes : x.client = c) => \E x \in probes' : x.client = c
    BY <1>2, <2>1 DEF q
  <2>7. \A c \in Clients : Selecting(c)' <=> Selecting(c)
    BY DEF Selecting
  <2>8. QED
    BY <1>2, <2>3, <2>4, <2>5, <2>6, <2>7 DEF OneSelectionEach
<1>3. ASSUME NEW t, probes' = probes \ {p},
             results' = Append(results, SelectionResult(p, t))
      PROVE  OneSelectionEach'
  <2> DEFINE n == Len(results) + 1
  <2>1. /\ DOMAIN results' = DOMAIN results \cup {n} /\ n \notin DOMAIN results
        /\ results'[n].client = p.client /\ results'[n].gen = p.gen
        /\ \A i \in DOMAIN results : results'[i] = results[i]
    BY <1>1, <1>3 DEF SelectionResult
  <2> HIDE DEF n
  <2>2. \A c \in Clients : Selecting(c)' <=> Selecting(c)
    BY DEF Selecting
  <2>3. \A i \in DOMAIN results' : results'[i].gen = pending[results'[i].client].gen
    BY <2>1 DEF OneSelectionEach
  <2>4. \A i, j \in DOMAIN results' : results'[j].client = results'[i].client => j = i
    BY <2>1 DEF OneSelectionEach
  <2>5. \A i \in DOMAIN results' : \A x \in probes' : x.client # results'[i].client
    BY <1>3, <2>1 DEF OneSelectionEach
  <2>6. \A c \in Clients : Selecting(c) =>
          \/ \E x \in probes' : x.client = c
          \/ \E i \in DOMAIN results' : results'[i].client = c
    BY SMTT(30), <1>3, <2>1 DEF OneSelectionEach
  <2>7. QED
    BY <1>3, <2>2, <2>3, <2>4, <2>5, <2>6 DEF OneSelectionEach
<1>4. QED
  BY <1>2, <1>3

LEMMA OneSelectionEachStep == Consistent /\ [Next]_vars => OneSelectionEach'
<1> SUFFICES ASSUME Consistent, [Next]_vars PROVE OneSelectionEach'
  OBVIOUS
<1> USE DEF updateVars, loopVars, pendVars, taskVars
<1>a. TypeOK /\ OneSelectionEach
  BY DEF Consistent
<1>1. ASSUME UNCHANGED <<probes, results, pending>> PROVE OneSelectionEach'
  BY <1>1, SelectionsKept DEF Selecting
<1>2. CASE HandleResult
  <2> DEFINE r == Head(results)
  <2>1. /\ r \in Result /\ pending[r.client].gen = r.gen
        /\ results # <<>> /\ results \in Seq(Result)
    BY <1>2, <1>a, ResultIsCurrent DEF HandleResult, TypeOK
  <2>2. /\ pending' = [pending EXCEPT ![r.client] = NotPending]
        /\ probes' = probes /\ results' = Tail(results) /\ r.client \in Clients
    BY <1>2, <2>1 DEF HandleResult, RemovePending, Result
  <2>3. /\ 1 \in DOMAIN results /\ results[1] = r
        /\ \A i \in DOMAIN results' : /\ i + 1 \in DOMAIN results /\ i + 1 # 1
                                     /\ results'[i] = results[i + 1]
        /\ \A i \in DOMAIN results : i # 1 => i - 1 \in DOMAIN results'
                                           /\ results'[i - 1] = results[i]
    BY <2>1, <2>2
  <2>4. \A i \in DOMAIN results' : results'[i].client # r.client
    BY <2>3, <1>a DEF OneSelectionEach
  <2>5. \A p \in probes : p.client # r.client /\ p.client \in Clients
    BY <2>3, <1>a, OutstandingIsSelecting DEF OneSelectionEach
  <2>6. \A x \in Clients : /\ x # r.client => pending'[x] = pending[x]
                          /\ pending'[r.client] = NotPending
    BY <2>2, <1>a DEF TypeOK
  <2>7. \A i \in DOMAIN results' : results'[i].client \in Clients
    BY <2>3, OutstandingIsSelecting
  <2> HIDE DEF r
  <2>8. \A i \in DOMAIN results' :
          /\ results'[i].gen = pending'[results'[i].client].gen
          /\ \A p \in probes' : p.client # results'[i].client
    BY <2>2, <2>3, <2>4, <2>6, <2>7, <1>a DEF OneSelectionEach
  <2>9. \A i, j \in DOMAIN results' : results'[j].client = results'[i].client => j = i
    <3>1. SUFFICES ASSUME NEW i \in DOMAIN results', NEW j \in DOMAIN results',
                          results'[j].client = results'[i].client
                   PROVE  j = i
      OBVIOUS
    <3>2. i + 1 = j + 1
      BY <3>1, <2>3, <1>a DEF OneSelectionEach
    <3>3. i \in Nat /\ j \in Nat
      BY <2>1, <2>2
    <3>4. QED
      BY <3>2, <3>3
  <2>10. \A p \in probes' : /\ p.gen = pending'[p.client].gen
                           /\ \A q \in probes' : q.client = p.client => q = p
    BY <2>2, <2>5, <2>6, <1>a DEF OneSelectionEach
  <2>11. ASSUME NEW c \in Clients, Selecting(c)'
         PROVE  \/ \E p \in probes' : p.client = c
                \/ \E i \in DOMAIN results' : results'[i].client = c
    <3>1. c # r.client /\ Selecting(c)
      BY <2>6, <2>11 DEF Selecting
    <3>2. CASE \E p \in probes : p.client = c
      BY <3>2, <2>2
    <3>3. ASSUME NEW i \in DOMAIN results, results[i].client = c
          PROVE  \E j \in DOMAIN results' : results'[j].client = c
      BY <3>1, <3>3, <2>3
    <3>4. QED
      BY <3>1, <3>2, <3>3, <1>a DEF OneSelectionEach
  <2>12. QED
    BY <2>8, <2>9, <2>10, <2>11 DEF OneSelectionEach
<1>3. ASSUME NEW c \in Clients, NEW k \in Kinds, ReceivePending(c, k)
      PROVE  OneSelectionEach'
  <2>1. UNCHANGED <<probes, results>> /\ Selecting(c)
    BY <1>3 DEF ReceivePending, Arrives, Selecting
  <2>2. \A x \in Clients : pending'[x].gen = pending[x].gen
    <3>1. pending[c] \in [gen : Generations, queue : Queues]
      BY <1>3, <1>a DEF ReceivePending, TypeOK, Pending
    <3>2. \A q : [pending[c] EXCEPT !.queue = q].gen = pending[c].gen
      BY <3>1
    <3>3. CASE pending' = [pending EXCEPT ![c].queue = Append(@, Datagram(c, k))]
      <4>1. /\ pending'[c] = [pending[c] EXCEPT
                                !.queue = Append(pending[c].queue, Datagram(c, k))]
            /\ \A x \in Clients : x # c => pending'[x] = pending[x]
        BY <3>3, <1>a DEF TypeOK
      <4>2. QED
        BY <3>2, <4>1
    <3>4. QED
      BY <1>3, <3>3 DEF ReceivePending, Enqueue
  <2>3. TypeOK'
    BY <1>a, TypeOKStep
  <2>4. \A x \in Clients : Selecting(x)' <=> Selecting(x)
    <3>1. \A x \in Clients : Selecting(x)' <=> pending'[x].gen # 0
      BY <2>3 DEF TypeOK, Selecting, Pending, NotPending, Generations
    <3>2. QED
      BY <2>2, <3>1, <1>a, SelectingByGeneration
  <2>5. QED
    BY <2>1, <2>2, <2>4, SelectionsKept
<1>4. ASSUME NEW c \in Clients, NEW k \in Kinds, ReceiveSelect(c, k)
      PROVE  OneSelectionEach'
  <2> DEFINE p == [client |-> c, gen |-> generation', cfg |-> config, next |-> 1]
  <2>1. ~Selecting(c) /\ UNCHANGED results
    BY <1>4 DEF ReceiveSelect, NewClient, Arrives, Unknown, Selecting
  <2>2. CASE UNCHANGED <<pending, probes>>
    BY <2>1, <2>2, <1>1
  <2>3. CASE /\ pending' = [pending EXCEPT ![c] =
                             [gen |-> generation', queue |-> <<Datagram(c, k)>>]]
             /\ probes' = probes \cup {p}
    <3>1. /\ pending'[c].gen = p.gen
          /\ \A x \in Clients : x # c => pending'[x] = pending[x]
      BY <2>3, <1>a DEF TypeOK
    <3>2. p.client = c
      OBVIOUS
    <3> HIDE DEF p
    <3>3. /\ \A q \in probes : q.client \in Clients /\ q.client # c
          /\ \A i \in DOMAIN results : results[i].client \in Clients /\ results[i].client # c
      BY <2>1, OutstandingIsSelecting
    <3>4. QED
      BY <2>1, <2>3, <3>1, <3>2, <3>3, <1>a DEF OneSelectionEach, Selecting
  <2>4. QED
    BY <1>4, <2>2, <2>3 DEF ReceiveSelect, StartPending
<1>5. ASSUME NEW p \in probes, ProbeAnswered(p) \/ ProbeFailed(p)
      PROVE  OneSelectionEach'
  BY <1>5, SelectionProbed DEF ProbeAnswered, ProbeFailed, SelectionOnly
<1>6. ASSUME NEW c \in Clients, NEW k \in Kinds, Receive(c, k)
      PROVE  OneSelectionEach'
  BY <1>6, <1>1, <1>3, <1>4
  DEF Receive, ReceiveFake, ReceiveExisting, ReceiveDraining, ReceiveOffline,
      ReceiveSingle, NewClient, Arrives
<1>7. QED
  BY <1>1, <1>2, <1>5, <1>6
  DEF Next, Update, Loop, Tasks, Time, Publish, Start, HandleUpdate, MaintenanceTick,
      ForwardNext, OfflineNext, ReceiveError, ReachabilityProbe, TargetReply,
      TargetError, TimerFires, PathEnds, SessionIdles, FakeIdles, PathOnly, vars

-----------------------------------------------------------------------------
(* The session map and the return paths agree *)

\* A step that changes neither sessions nor which client a path serves.
LEMMA PathsKept ==
  ASSUME Consistent, UNCHANGED session,
         \A s \in Sockets : /\ path'[s].client = path[s].client
                            /\ path[s].state # "free" => path'[s].state # "free"
                            /\ path'[s].state = "receiving" =>
                                 path[s].state = "receiving"
  PROVE  SessionsMatchPaths'
<1>1. \A c \in Clients : session[c] \in Sockets \cup {None}
  BY DEF Consistent, TypeOK
<1>2. QED
  BY <1>1 DEF Consistent, SessionsMatchPaths, Relayed

LEMMA SessionCreated ==
  ASSUME Consistent, NEW c \in Clients, NEW t, NEW g, NEW queue,
         session[c] = None, CreateSession(c, t, g, queue)
  PROVE  SessionsMatchPaths'
<1> USE DEF Consistent
<1>1. PICK s \in Sockets :
        /\ path[s] = FreePath
        /\ session' = [session EXCEPT ![c] = s]
        /\ path' = [path EXCEPT ![s] =
             [state |-> "receiving", client |-> c, target |-> t,
              cfg |-> g, idle |-> FALSE]]
  BY CreateSessionEffect
<1>2. /\ path'[s].state = "receiving" /\ path'[s].client = c
      /\ \A z \in Sockets : z # s => path'[z] = path[z]
      /\ session'[c] = s
      /\ \A x \in Clients : x # c => session'[x] = session[x]
  BY <1>1 DEF TypeOK
<1>3. \A x \in Clients : session[x] # s
  BY <1>1, NoneAssumption DEF SessionsMatchPaths, Relayed, FreePath
<1>4. \A z \in Sockets : z # s /\ path[z].state = "receiving" => path[z].client # c
  BY NoneAssumption DEF SessionsMatchPaths
<1>5. \A z \in Sockets : path[z].state = "receiving" => path[z].client \in Clients
  BY DEF TypeOK, Path, FreePath
<1>6. \A x \in Clients : session[x] \in Sockets \cup {None}
  BY DEF TypeOK
<1>7. QED
  BY <1>2, <1>3, <1>4, <1>5, <1>6 DEF SessionsMatchPaths, Relayed

\* The end of the path s, which takes the session away only if it is its own.
LEMMA SessionRemoved ==
  ASSUME Consistent, NEW s \in Sockets, TimerFires(s) \/ PathEnds(s)
  PROVE  SessionsMatchPaths'
<1> USE DEF Consistent
<1> DEFINE c == path[s].client
<1>1. path[s].state # "free" /\ path[s] \in Path
  BY DEF TimerFires, PathEnds, TypeOK
<1>2. c \in Clients
  BY <1>1 DEF Path, FreePath
<1>3. /\ path'[s].state # "receiving"
      /\ \A z \in Sockets : z # s => path'[z] = path[z]
  <2>1. path \in [Sockets -> Path]
    BY DEF TypeOK
  <2>2. CASE TimerFires(s)
    <3>1. path' = [path EXCEPT ![s].state = "closing"]
      BY <2>2 DEF TimerFires
    <3>2. path'[s].state = "closing"
      BY <1>1, <2>1, <3>1 DEF Path, FreePath
    <3>3. QED
      BY <2>1, <3>1, <3>2
  <2>3. CASE PathEnds(s)
    BY <2>1, <2>3 DEF PathEnds, FreePath
  <2>4. QED
    BY <2>2, <2>3
<1>4. session' = IF session[c] = s THEN [session EXCEPT ![c] = None] ELSE session
  BY DEF TimerFires, PathEnds, Removable
<1>5. \A x \in Clients : session[x] = s => x = c
  BY NoneAssumption DEF SessionsMatchPaths, Relayed
<1> HIDE DEF c
<1>6. \A x \in Clients : session'[x] # None => session'[x] = session[x] /\ session[x] # s
  BY <1>2, <1>4, <1>5 DEF TypeOK
<1>7. ASSUME NEW z \in Sockets, path'[z].state = "receiving"
      PROVE  session'[path'[z].client] = z
  <2>1. z # s /\ path'[z] = path[z] /\ session[path[z].client] = z
    BY <1>3, <1>7 DEF SessionsMatchPaths
  <2>2. path[z].client \in Clients
    BY <1>7, <2>1 DEF TypeOK, Path, FreePath
  <2>3. QED
    BY <2>1, <2>2, <1>2, <1>4 DEF TypeOK
<1>8. \A x \in Clients : session[x] \in Sockets \cup {None}
  BY DEF TypeOK
<1>9. QED
  BY <1>3, <1>6, <1>7, <1>8 DEF SessionsMatchPaths, Relayed

LEMMA SessionsMatchPathsStep == Consistent /\ [Next]_vars => SessionsMatchPaths'
<1> SUFFICES ASSUME Consistent, [Next]_vars PROVE SessionsMatchPaths'
  OBVIOUS
<1> USE DEF updateVars, loopVars, pendVars, taskVars
<1>1. ASSUME UNCHANGED <<session, path>> PROVE SessionsMatchPaths'
  BY <1>1, PathsKept
<1>2. CASE HandleResult
  <2>1. session[Head(results).client] = None /\ Head(results).client \in Clients
    BY <1>2, ResultIsCurrent DEF HandleResult, Result
  <2>2. QED
    BY <1>1, <1>2, <2>1, SessionCreated DEF HandleResult, SessionNotOpened
<1>3. ASSUME NEW c \in Clients, NEW k \in Kinds, ReceiveExisting(c, k)
      PROVE  SessionsMatchPaths'
  <2>1. \A s \in Sockets : path'[s].client = path[s].client /\ path'[s].state = path[s].state
    BY <1>3 DEF ReceiveExisting, Consistent, TypeOK, Path, FreePath
  <2>2. UNCHANGED session
    BY <1>3 DEF ReceiveExisting
  <2>3. QED
    BY <2>1, <2>2, PathsKept
<1>4. ASSUME NEW c \in Clients, NEW k \in Kinds, ReceiveSingle(c, k)
      PROVE  SessionsMatchPaths'
  <2>1. session[c] = None
    BY <1>4 DEF ReceiveSingle, NewClient, Unknown
  <2>2. QED
    BY <1>1, <1>4, <2>1, SessionCreated DEF ReceiveSingle, SessionNotOpened
<1>5. ASSUME NEW s \in Sockets, NEW sent \in BOOLEAN,
             TargetReply(s, sent) \/ TargetError(s) \/ SessionIdles(s)
      PROVE  SessionsMatchPaths'
  <2>1. path[s].state = "receiving" /\ path \in [Sockets -> Path] /\ UNCHANGED session
    BY <1>5 DEF TargetReply, TargetError, SessionIdles, Consistent, TypeOK
  <2>2. /\ path'[s].client = path[s].client /\ path'[s].state # "free"
        /\ \A z \in Sockets : z # s => path'[z] = path[z]
    <3>1. path[s] \in [state : {"receiving", "closing"}, client : Clients,
                       target : Targets, cfg : Configs, idle : BOOLEAN]
      BY <2>1 DEF Path, FreePath
    <3>2. CASE TargetReply(s, sent)
      BY <2>1, <3>1, <3>2 DEF TargetReply
    <3>3. CASE TargetError(s)
      BY <2>1, <3>1, <3>3 DEF TargetError
    <3>4. CASE SessionIdles(s)
      BY <2>1, <3>1, <3>4 DEF SessionIdles
    <3>5. QED
      BY <1>5, <3>2, <3>3, <3>4
  <2>3. QED
    BY <2>1, <2>2, PathsKept
<1>6. ASSUME NEW c \in Clients, NEW k \in Kinds, Receive(c, k)
      PROVE  SessionsMatchPaths'
  BY <1>1, <1>3, <1>4, <1>6
  DEF Receive, ReceiveFake, ReceivePending, ReceiveDraining, ReceiveOffline,
      ReceiveSelect
<1>7. QED
  BY <1>1, <1>2, <1>5, <1>6, SessionRemoved
  DEF Next, Update, Loop, Tasks, Time, Publish, Start, HandleUpdate, MaintenanceTick,
      ForwardNext, OfflineNext, ReceiveError, ProbeAnswered, ProbeFailed,
      SelectionOnly, ReachabilityProbe, FakeIdles, vars

-----------------------------------------------------------------------------
(* The theorems *)

LEMMA ConsistentStep == Consistent /\ [Next]_vars => Consistent'
  BY TypeOKStep, OneRoleStep, OneSelectionEachStep, SessionsMatchPathsStep
  DEF Consistent

\* Every reachable state satisfies the inductive invariant.
THEOREM Consistency == Spec => []Consistent
<1>1. Init => Consistent
  BY InitConsistent
<1>2. Consistent /\ [Next]_vars => Consistent'
  BY ConsistentStep
<1>3. QED
  BY <1>1, <1>2, PTL DEF Spec

\* No client is relayed to a target, waits for one, or is shown the offline
\* message, two of them at once (the lookups of the select loop's last branch).
THEOREM ClientsHaveOneRole == Spec => []OneRole
<1>1. Consistent => OneRole
  BY DEF Consistent
<1>2. QED
  BY <1>1, Consistency, PTL

\* No waiting client is without a selection, and no selection is ever stale:
\* the generations of SelectionResult guard against what cannot happen.
THEOREM SelectionsAreMatched == Spec => []OneSelectionEach
<1>1. Consistent => OneSelectionEach
  BY DEF Consistent
<1>2. QED
  BY <1>1, Consistency, PTL

\* Each session has the return path that will remove it, and no return path
\* receives for a client whose session is another's (remove_current_session).
THEOREM SessionsArePaired == Spec => []SessionsMatchPaths
<1>1. Consistent => SessionsMatchPaths
  BY SMTT(30) DEF Consistent
<1>2. QED
  BY <1>1, Consistency, PTL

LEMMA ActiveSurviveStep == Consistent /\ [Next]_vars => [ActiveSurvive]_vars
<1> SUFFICES ASSUME Consistent, Next PROVE ActiveSurvive
  BY DEF vars
<1> USE DEF updateVars, loopVars, pendVars, taskVars
<1>a. TypeOK
  BY DEF Consistent
<1>1. ASSUME UNCHANGED session PROVE ActiveSurvive
  BY <1>1 DEF ActiveSurvive
<1>2. ASSUME NEW c \in Clients, NEW t, NEW g, NEW queue,
             session[c] = None, CreateSession(c, t, g, queue)
      PROVE  ActiveSurvive
  <2>1. \A x \in Clients : x # c => session'[x] = session[x]
    BY <1>2, <1>a, CreateSessionEffect DEF TypeOK
  <2>2. QED
    BY <1>2, <2>1 DEF ActiveSurvive, Relayed
<1>3. CASE HandleResult
  <2>1. session[Head(results).client] = None /\ Head(results).client \in Clients
    BY <1>3, ResultIsCurrent DEF HandleResult, Result
  <2>2. QED
    BY <1>1, <1>2, <1>3, <2>1 DEF HandleResult, SessionNotOpened
<1>4. ASSUME NEW c \in Clients, NEW k \in Kinds, Receive(c, k) PROVE ActiveSurvive
  <2>1. CASE ReceiveSingle(c, k)
    <3>1. session[c] = None
      BY <2>1 DEF ReceiveSingle, NewClient, Unknown
    <3>2. QED
      BY <1>1, <1>2, <2>1, <3>1 DEF ReceiveSingle, SessionNotOpened
  <2>2. QED
    BY <1>1, <1>4, <2>1
    DEF Receive, ReceiveFake, ReceiveExisting, ReceivePending, ReceiveDraining,
        ReceiveOffline, ReceiveSelect
<1>5. ASSUME NEW s \in Sockets, TimerFires(s) \/ PathEnds(s) PROVE ActiveSurvive
  <2>1. /\ path[s].state = "closing" \/ path[s].idle
        /\ \/ UNCHANGED session
           \/ /\ session[path[s].client] = s
              /\ session' = [session EXCEPT ![path[s].client] = None]
    BY <1>5 DEF TimerFires, PathEnds, Removable
  <2>2. QED
    BY <2>1, <1>a DEF ActiveSurvive, TypeOK
<1>6. QED
  BY <1>1, <1>3, <1>4, <1>5
  DEF Next, Update, Loop, Tasks, Time, Publish, Start, HandleUpdate, MaintenanceTick,
      ForwardNext, OfflineNext, ReceiveError, ProbeAnswered, ProbeFailed,
      SelectionOnly, ReachabilityProbe, TargetReply, TargetError, SessionIdles,
      FakeIdles, PathOnly

\* A session that is in use never disappears: only its own failed return path
\* or an idle timeout removes it, never the late end of an older path.
THEOREM SessionsSurvive == Spec => ActiveSessionSurvives
<1>1. Consistent /\ [Next]_vars => [ActiveSurvive]_vars
  BY SMTT(30), ActiveSurviveStep
<1>2. QED
  BY <1>1, Consistency, PTL DEF Spec, ActiveSessionSurvives

LEMMA AdmitsNobodyStep ==
  Consistent /\ [Next]_vars => [draining => AdmitsNobody]_vars
<1> SUFFICES ASSUME Consistent, Next, draining PROVE AdmitsNobody
  BY DEF vars
<1> USE DEF updateVars, loopVars, pendVars, taskVars
<1>a. TypeOK
  BY DEF Consistent
<1>b. \A c \in Clients : Retained(fakes)[c] \in {NoFake, fakes[c]}
  BY RetainedOnlyForgets
<1> DEFINE NoNewWork == work'.mode = "offline" => work' = work
           FewerRoles == /\ UNCHANGED pending
                         /\ \A x \in Clients : session'[x] \in {None, session[x]}
                         /\ \A x \in Clients : fakes'[x] = NoFake \/ fakes[x] # NoFake
<1>1. ASSUME FewerRoles, NoNewWork PROVE AdmitsNobody
  BY <1>1 DEF AdmitsNobody, NoRole, Relayed, Selecting, InOffline
<1>2. CASE HandleResult
  <2> DEFINE r == Head(results)
  <2>1. /\ r \in Result /\ Selecting(r.client) /\ session[r.client] = None
        /\ r.client \in Clients /\ pending[r.client].gen = r.gen
    BY <1>2, ResultIsCurrent DEF HandleResult, Result
  <2>2. /\ fakes' = fakes /\ work = NoWork
        /\ \A x \in Clients : x # r.client => pending'[x] = pending[x]
    BY <1>2, <2>1, <1>a DEF HandleResult, RemovePending, AtSelect, TypeOK
  <2>3. /\ \A x \in Clients : x # r.client => session'[x] = session[x]
        /\ work'.mode = "offline" => work'.client = r.client
    <3>1. CASE UNCHANGED <<session, work>>
      BY <3>1, <2>2 DEF NoWork
    <3>2. CASE CreateSession(r.client, r.target, r.cfg, pending[r.client].queue)
      <4>1. PICK s \in Sockets :
              /\ session' = [session EXCEPT ![r.client] = s]
              /\ work'.mode = "forward"
        BY <2>1, <3>2, <1>a, CreateSessionEffect
      <4>2. QED
        BY <4>1, <1>a DEF TypeOK
    <3>3. CASE /\ UNCHANGED session
               /\ work' = [mode |-> "offline", client |-> r.client, sock |-> None,
                           cfg |-> r.cfg, queue |-> pending[r.client].queue]
      BY <3>3
    <3>4. QED
      BY <1>2, <2>1, <3>1, <3>2, <3>3 DEF HandleResult, SessionNotOpened
  <2> HIDE DEF r
  <2>4. QED
    BY <2>1, <2>2, <2>3 DEF AdmitsNobody, NoRole, Relayed, Selecting, InOffline
<1>3. CASE ForwardNext
  <2>1. work'.mode # "offline"
    <3>1. NoWork.mode = "none"
      BY DEF NoWork
    <3>2. QED
      BY <1>3, <3>1, <1>a DEF ForwardNext, NextDatagram, TypeOK, Work
  <2>2. UNCHANGED <<session, pending, fakes>>
    BY <1>3 DEF ForwardNext
  <2>3. QED
    BY <2>1, <2>2, <1>1
<1>4. CASE OfflineNext
  <2>1. work.client \in Clients /\ InOffline(work.client)
    BY <1>4, <1>a DEF OfflineNext, InOffline, TypeOK, Work, NoWork
  <2>2. work'.mode = "offline" => work'.client = work.client
    BY <1>4, <1>a DEF OfflineNext, NextDatagram, TypeOK, Work, NoWork
  <2>3. \A c \in Clients : c # work.client => fakes'[c] = fakes[c]
    BY <1>4, <1>a DEF OfflineNext, TypeOK
  <2>4. QED
    BY <1>4, <2>1, <2>2, <2>3
    DEF OfflineNext, AdmitsNobody, NoRole, Relayed, Selecting, InOffline
<1>5. ASSUME NEW c \in Clients, NEW k \in Kinds, Receive(c, k) PROVE AdmitsNobody
  <2>1. CASE ReceiveFake(c, k)
    <3>1. /\ UNCHANGED <<session, pending, work>> /\ Retained(fakes)[c] # NoFake
          /\ \A x \in Clients : x # c => fakes'[x] = Retained(fakes)[x]
      BY <2>1 DEF ReceiveFake, Retained
    <3>2. QED
      BY <3>1, <1>1, <1>b
  <2>2. CASE ReceiveExisting(c, k)
    <3>1. /\ UNCHANGED <<session, pending>> /\ work'.mode = "forward"
          /\ fakes' = Retained(fakes)
      BY <2>2 DEF ReceiveExisting
    <3>2. QED
      BY <3>1, <1>1, <1>b
  <2>3. CASE ReceivePending(c, k)
    <3>1. /\ UNCHANGED <<session, work>> /\ fakes' = Retained(fakes) /\ Selecting(c)
          /\ \A x \in Clients : x # c => pending'[x] = pending[x]
      BY <2>3, <1>a DEF ReceivePending, Enqueue, Selecting, TypeOK
    <3>2. QED
      BY <3>1, <1>b DEF AdmitsNobody, NoRole, Relayed, Selecting, InOffline
  <2>4. CASE ReceiveDraining(c)
    BY <2>4, <1>1, <1>b DEF ReceiveDraining
  <2>5. QED
    BY <1>5, <2>1, <2>2, <2>3, <2>4
    DEF Receive, ReceiveOffline, ReceiveSingle, ReceiveSelect, NewClient
<1>6. ASSUME NEW c \in Clients, FakeIdles(c) PROVE AdmitsNobody
  <2>1. UNCHANGED <<session, pending, work>> /\ fakes[c] # NoFake
    BY <1>6 DEF FakeIdles, NoFake
  <2>2. \A x \in Clients : x # c => fakes'[x] = fakes[x]
    BY <1>6, <1>a DEF FakeIdles, TypeOK
  <2>3. QED
    BY <2>1, <2>2, <1>1
<1>7. ASSUME NEW s \in Sockets, TimerFires(s) \/ PathEnds(s) PROVE AdmitsNobody
  BY <1>7, <1>1, <1>a DEF TimerFires, PathEnds, PathOnly, TypeOK
<1>8. CASE MaintenanceTick
  BY <1>8, <1>1, <1>b DEF MaintenanceTick
<1>9. ASSUME UNCHANGED <<session, pending, fakes, work>> PROVE AdmitsNobody
  BY <1>9, <1>1
<1>10. QED
  BY <1>2, <1>3, <1>4, <1>5, <1>6, <1>7, <1>8, <1>9
  DEF Next, Update, Loop, Tasks, Time, Publish, Start, HandleUpdate, ReceiveError,
      ProbeAnswered, ProbeFailed, SelectionOnly, ReachabilityProbe, TargetReply,
      TargetError, SessionIdles, PathOnly

\* A retired redirect admits nobody while it drains: what is still under way
\* serves only clients it had already taken on.
THEOREM DrainIsClosed == Spec => DrainAdmitsNobody
<1>1. Consistent /\ [Next]_vars => [draining => AdmitsNobody]_vars
  BY AdmitsNobodyStep
<1>2. QED
  BY <1>1, Consistency, PTL DEF Spec, DrainAdmitsNobody

-----------------------------------------------------------------------------
(* Datagrams keep their order                                               *)

\* The datagrams of q, in order, are later than those sent and none is later
\* than the n-th.
FollowsOn(q, sent, n) ==
  \A i \in DOMAIN q :
    /\ q[i].num <= n
    /\ \A j \in DOMAIN sent : sent[j] < q[i].num
    /\ \A j \in DOMAIN q : i < j => q[i].num < q[j].num

\* What waits for a client, and then what is being flushed for it, follows on
\* what was sent; the two never wait at once.
InLine ==
  \A c \in Clients :
    /\ \A j \in DOMAIN forwarded[c] : forwarded[c][j] <= received[c]
    /\ FollowsOn(pending[c].queue, forwarded[c], received[c])
    /\ work.mode = "forward" /\ work.client = c =>
         /\ pending[c] = NotPending
         /\ FollowsOn(work.queue, forwarded[c], received[c])

LEMMA NothingFollowsOn ==
  ASSUME NEW sent, NEW n
  PROVE  FollowsOn(<<>>, sent, n)
  BY DEF FollowsOn

\* The client's next datagram, alone or behind those that wait.
LEMMA NewestFollowsOn ==
  ASSUME NEW sent \in Seq(1..MaxReceived), NEW n \in Nat,
         NEW q \in Seq(Datagrams), NEW d \in Datagrams, d.num = n + 1,
         \A j \in DOMAIN sent : sent[j] <= n, FollowsOn(q, sent, n)
  PROVE  /\ \A j \in DOMAIN sent : sent[j] <= n + 1
         /\ FollowsOn(q, sent, n + 1)
         /\ FollowsOn(<<d>>, sent, n + 1)
         /\ FollowsOn(Append(q, d), sent, n + 1)
<1>1. \A j \in DOMAIN sent : sent[j] \in Nat
  BY MaxReceivedNat
<1>2. \A i \in DOMAIN q : q[i].num \in Nat /\ q[i].num < d.num
  <2>1. \A i \in DOMAIN q : q[i] \in Datagrams
    OBVIOUS
  <2>2. \A i \in DOMAIN q : q[i].num \in Nat
    BY <2>1, MaxReceivedNat DEF Datagrams
  <2>3. QED
    BY <2>2 DEF FollowsOn
<1>3. FollowsOn(q, sent, n + 1) /\ FollowsOn(<<d>>, sent, n + 1)
  <2>1. FollowsOn(q, sent, n + 1)
    BY <1>2 DEF FollowsOn
  <2>2. DOMAIN <<d>> = {1} /\ <<d>>[1] = d
    OBVIOUS
  <2>3. \A j \in DOMAIN sent : sent[j] < d.num
    BY <1>1
  <2>4. FollowsOn(<<d>>, sent, n + 1)
    BY <2>2, <2>3 DEF FollowsOn
  <2>5. QED
    BY <2>1, <2>4
<1>4. FollowsOn(Append(q, d), sent, n + 1)
  <2> DEFINE a == Append(q, d)
  <2>1. /\ DOMAIN a = 1..(Len(q) + 1) /\ DOMAIN q = 1..Len(q) /\ Len(q) \in Nat
        /\ \A i \in DOMAIN q : a[i] = q[i]
        /\ a[Len(q) + 1] = d
    OBVIOUS
  <2>2. \A i \in DOMAIN a : i \in DOMAIN q \/ i = Len(q) + 1
    BY <2>1
  <2> HIDE DEF a
  <2>3. ASSUME NEW i \in DOMAIN a
        PROVE  /\ a[i].num <= n + 1
               /\ \A j \in DOMAIN sent : sent[j] < a[i].num
               /\ \A j \in DOMAIN a : i < j => a[i].num < a[j].num
    <3>1. CASE i \in DOMAIN q
      <4>1. /\ a[i] = q[i] /\ q[i].num \in Nat /\ q[i].num < n + 1
            /\ \A j \in DOMAIN sent : sent[j] < q[i].num
            /\ \A j \in DOMAIN q : i < j => q[i].num < q[j].num
        BY <3>1, <1>2, <2>1 DEF FollowsOn
      <4>2. ASSUME NEW j \in DOMAIN a, i < j PROVE a[i].num < a[j].num
        BY <2>1, <2>2, <4>1, <4>2
      <4>3. QED
        BY <4>1, <4>2
    <3>2. CASE i = Len(q) + 1
      BY <3>2, <1>1, <2>1, <2>2
    <3>3. QED
      BY <2>2, <3>1, <3>2
  <2>4. FollowsOn(a, sent, n + 1)
    BY <2>3 DEF FollowsOn
  <2>5. QED
    BY <2>4 DEF a
<1>5. QED
  BY <1>1, <1>3, <1>4

\* The first datagram of a queue, sent or lost, leaves the rest in line.
LEMMA RestFollowsOn ==
  ASSUME NEW sent \in Seq(1..MaxReceived), NEW n \in Nat, NEW q \in Queues,
         FollowsOn(q, sent, n), \A j \in DOMAIN sent : sent[j] <= n,
         \A i, j \in DOMAIN sent : i < j => sent[i] < sent[j]
  PROVE  LET more == Append(sent, Head(q).num)
         IN  /\ FollowsOn(Tail(q), sent, n) /\ FollowsOn(Tail(q), more, n)
             /\ \A j \in DOMAIN more : more[j] <= n
             /\ \A i, j \in DOMAIN more : i < j => more[i] < more[j]
<1> DEFINE more == Append(sent, Head(q).num)
           rest == Tail(q)
<1>1. /\ q \in Seq(Datagrams) /\ 1 \in DOMAIN q /\ Head(q) = q[1]
      /\ DOMAIN q = 1..Len(q) /\ Len(q) \in Nat
  BY DEF Queues
<1>2. \A i \in DOMAIN q : q[i].num \in Nat
  <2>1. \A i \in DOMAIN q : q[i] \in Datagrams
    BY <1>1
  <2>2. QED
    BY <2>1, MaxReceivedNat DEF Datagrams
<1>3. \A j \in DOMAIN sent : sent[j] \in Nat
  BY MaxReceivedNat
<1>4. \A i \in DOMAIN rest : i \in Nat /\ i + 1 \in DOMAIN q /\ rest[i] = q[i + 1]
  BY <1>1
<1>5. /\ DOMAIN more = 1..(Len(sent) + 1) /\ DOMAIN sent = 1..Len(sent)
      /\ Len(sent) \in Nat
      /\ \A j \in DOMAIN sent : more[j] = sent[j]
      /\ more[Len(sent) + 1] = q[1].num
  BY <1>1
<1>6. \A j \in DOMAIN more : j \in DOMAIN sent \/ j = Len(sent) + 1
  BY <1>5
<1> HIDE DEF more, rest
<1>7. ASSUME NEW i \in DOMAIN rest PROVE q[1].num < rest[i].num
  <2>1. i \in DOMAIN rest => i \in 1..Len(rest) /\ 1 < i + 1
    BY <1>1 DEF rest
  <2>2. 1 < i + 1 => q[1].num < q[i + 1].num
    BY <1>1, <1>4 DEF FollowsOn
  <2>3. QED
    BY <1>4, <2>1, <2>2
<1>8. FollowsOn(rest, sent, n)
  <2>1. ASSUME NEW i \in DOMAIN rest, NEW j \in DOMAIN rest, i < j
        PROVE  rest[i].num < rest[j].num
    BY <2>1, <1>4 DEF FollowsOn
  <2>2. QED
    BY <2>1, <1>4 DEF FollowsOn
<1>9. FollowsOn(rest, more, n)
  BY <1>5, <1>6, <1>7, <1>8 DEF FollowsOn
<1>10. \A j \in DOMAIN more : more[j] <= n
  BY <1>1, <1>5, <1>6 DEF FollowsOn
<1>11. ASSUME NEW i \in DOMAIN more, NEW j \in DOMAIN more, i < j
       PROVE  more[i] < more[j]
  <2>1. i \in DOMAIN sent
    BY <1>5, <1>6, <1>11
  <2>2. QED
    BY <2>1, <1>1, <1>5, <1>6, <1>11 DEF FollowsOn
<1>12. QED
  BY <1>8, <1>9, <1>10, <1>11 DEF more, rest

\* What a datagram of the client c can do to its queue and to the work.
LEMMA ReceiveEffect ==
  ASSUME Consistent, NEW c \in Clients, NEW k \in Kinds, Receive(c, k)
  PROVE  LET d == Datagram(c, k)
         IN  /\ work = NoWork /\ UNCHANGED forwarded
             /\ received[c] < MaxReceived
             /\ received' = [received EXCEPT ![c] = @ + 1]
             /\ \A x \in Clients : x # c => pending'[x] = pending[x]
             /\ \/ UNCHANGED pending
                \/ pending'[c].queue = <<d>>
                \/ /\ pending[c] # NotPending
                   /\ pending'[c].queue = Append(pending[c].queue, d)
             /\ \/ UNCHANGED work
                \/ /\ UNCHANGED pending /\ pending[c] = NotPending
                   /\ work'.client = c /\ work'.queue = <<d>>
<1> USE DEF updateVars, loopVars, pendVars, taskVars, Consistent
<1> DEFINE d == Datagram(c, k)
<1>1. /\ work = NoWork /\ UNCHANGED forwarded /\ received[c] < MaxReceived
      /\ received' = [received EXCEPT ![c] = @ + 1]
  BY DEF Receive, ReceiveFake, ReceiveExisting, ReceivePending, ReceiveDraining,
    ReceiveOffline, ReceiveSingle, ReceiveSelect, NewClient, Arrives, AtSelect
<1>2. pending \in [Clients -> Pending]
  BY DEF TypeOK
<1> HIDE DEF d
<1>3. CASE ReceiveFake(c, k) \/ ReceiveDraining(c) \/ ReceiveOffline(c, k)
  BY <1>1, <1>3 DEF ReceiveFake, ReceiveDraining, ReceiveOffline, d
<1>4. CASE ReceiveExisting(c, k)
  <2>1. UNCHANGED pending /\ work'.client = c /\ work'.queue = <<d>>
    BY <1>4 DEF ReceiveExisting, d
  <2>2. pending[c] = NotPending
    BY <1>4 DEF ReceiveExisting, OneRole, Relayed, Selecting
  <2>3. QED
    BY <1>1, <2>1, <2>2 DEF d
<1>5. CASE ReceivePending(c, k)
  <2>1. pending[c] # NotPending /\ UNCHANGED work
    BY <1>5 DEF ReceivePending
  <2>2. \/ UNCHANGED pending
        \/ pending' = [pending EXCEPT ![c].queue = Append(@, d)]
    BY <1>5 DEF ReceivePending, Enqueue, d
  <2>3. CASE UNCHANGED pending
    BY <1>1, <2>1, <2>3 DEF d
  <2>4. CASE pending' = [pending EXCEPT ![c].queue = Append(@, d)]
    <3>1. pending[c] \in [gen : Generations, queue : Queues]
      BY <1>2, <2>1 DEF Pending
    <3>2. pending'[c].queue = Append(pending[c].queue, d)
      BY <1>2, <2>4, <3>1
    <3>3. QED
      BY <1>1, <1>2, <2>1, <2>4, <3>2 DEF d
  <2>5. QED
    BY <2>2, <2>3, <2>4
<1>6. CASE ReceiveSingle(c, k)
  <2>1. pending[c] = NotPending /\ session[c] = None /\ UNCHANGED pending
    BY <1>6 DEF ReceiveSingle, NewClient, Unknown
  <2>2. \/ UNCHANGED work
        \/ work'.client = c /\ work'.queue = <<d>>
    BY <1>6, <2>1, CreateSessionEffect DEF ReceiveSingle, SessionNotOpened, d
  <2>3. QED
    BY <1>1, <2>1, <2>2 DEF d
<1>7. CASE ReceiveSelect(c, k)
  <2>1. /\ UNCHANGED work
        /\ \/ UNCHANGED pending
           \/ pending' = [pending EXCEPT ![c] = [gen |-> generation', queue |-> <<d>>]]
    BY <1>7 DEF ReceiveSelect, StartPending, d
  <2>2. QED
    BY <1>1, <1>2, <2>1 DEF d
<1>8. QED
  BY <1>3, <1>4, <1>5, <1>6, <1>7 DEF Receive

LEMMA InLineKept ==
  ASSUME Consistent, InOrder, InLine, UNCHANGED <<received, forwarded>>,
         \A c \in Clients : pending'[c] = pending[c] \/ pending'[c] = NotPending,
         work'.mode = "forward" => work' = work
  PROVE  InOrder' /\ InLine'
<1>1. InOrder'
  BY DEF InOrder
<1>2. \A c \in Clients : FollowsOn(NotPending.queue, forwarded[c], received[c])
  BY NothingFollowsOn DEF NotPending
<1>3. QED
  BY <1>1, <1>2 DEF InLine

LEMMA InOrderStep ==
  Consistent /\ InOrder /\ InLine /\ [Next]_vars => InOrder' /\ InLine'
<1> SUFFICES ASSUME Consistent, InOrder, InLine, [Next]_vars
             PROVE  InOrder' /\ InLine'
  OBVIOUS
<1> USE DEF updateVars, loopVars, pendVars, taskVars
<1>a. TypeOK
  BY DEF Consistent
<1>b. NoWork.mode = "none"
  BY DEF NoWork
<1>1. CASE HandleResult
  <2> DEFINE r == Head(results)
  <2>1. /\ r.client \in Clients /\ session[r.client] = None
        /\ pending[r.client].gen = r.gen
    BY <1>1, ResultIsCurrent DEF HandleResult, Result
  <2>2. /\ UNCHANGED <<received, forwarded>>
        /\ pending' = [pending EXCEPT ![r.client] = NotPending]
    BY <1>1, <2>1 DEF HandleResult, RemovePending
  <2>3. CASE work'.mode = "forward" => work' = work
    BY <2>2, <2>3, <1>a, InLineKept DEF TypeOK
  <2>4. CASE /\ work'.mode = "forward" /\ work'.client = r.client
             /\ work'.queue = pending[r.client].queue
    <3>1. FollowsOn(work'.queue, forwarded[r.client], received[r.client])
      BY <2>1, <2>4 DEF InLine
    <3>2. /\ \A x \in Clients : pending'[x] = pending[x] \/ pending'[x] = NotPending
          /\ pending'[r.client] = NotPending
      BY <2>1, <2>2, <1>a DEF TypeOK
    <3>3. \A c \in Clients : FollowsOn(NotPending.queue, forwarded[c], received[c])
      BY NothingFollowsOn DEF NotPending
    <3>4. InOrder'
      BY <2>2 DEF InOrder
    <3> HIDE DEF r
    <3>5. QED
      BY <2>2, <2>4, <3>1, <3>2, <3>3, <3>4 DEF InLine
  <2>5. \/ UNCHANGED work \/ work'.mode = "offline"
        \/ /\ work'.mode = "forward" /\ work'.client = r.client
           /\ work'.queue = pending[r.client].queue
    BY <1>1, <2>1, <1>a, CreateSessionEffect DEF HandleResult, SessionNotOpened
  <2>6. QED
    BY <2>3, <2>4, <2>5
<1>2. CASE ForwardNext
  <2> DEFINE c == work.client
             n == received[c]
  <2>1. /\ c \in Clients /\ work.queue \in Queues /\ n \in Nat
        /\ forwarded[c] \in Seq(1..MaxReceived) /\ work.mode = "forward"
        /\ UNCHANGED <<received, pending>>
    BY <1>2, <1>a, <1>b, MaxReceivedNat DEF ForwardNext, TypeOK, Work
  <2>2. /\ pending[c] = NotPending /\ FollowsOn(work.queue, forwarded[c], n)
        /\ \A j \in DOMAIN forwarded[c] : forwarded[c][j] <= n
        /\ \A i, j \in DOMAIN forwarded[c] : i < j => forwarded[c][i] < forwarded[c][j]
    BY <2>1 DEF InLine, InOrder
  <2> DEFINE more == Append(forwarded[c], Head(work.queue).num)
  <2>3. /\ FollowsOn(Tail(work.queue), forwarded[c], n)
        /\ FollowsOn(Tail(work.queue), more, n)
        /\ \A j \in DOMAIN more : more[j] <= n
        /\ \A i, j \in DOMAIN more : i < j => more[i] < more[j]
    BY <2>1, <2>2, RestFollowsOn
  <2>4. \/ forwarded' = forwarded
        \/ forwarded' = [forwarded EXCEPT ![c] = more]
    BY <1>2 DEF ForwardNext
  <2>5. \/ work' = NoWork
        \/ work' = [work EXCEPT !.queue = Tail(@)]
    BY <1>2 DEF ForwardNext, NextDatagram
  <2>6. work'.mode = "forward" =>
          work'.client = c /\ work'.queue = Tail(work.queue)
    <3>1. work \in [mode : {"forward", "offline"}, client : Clients,
                    sock : Sockets \cup {None}, cfg : Configs \cup {None},
                    queue : Queues]
      BY <2>1, <1>a, <1>b DEF TypeOK, Work
    <3>2. QED
      BY <2>5, <3>1, <1>b
  <2>7. /\ forwarded'[c] = forwarded[c] \/ forwarded'[c] = more
        /\ \A x \in Clients : x # c => forwarded'[x] = forwarded[x]
    BY <2>1, <2>4, <1>a DEF TypeOK
  <2> HIDE DEF more, n
  <2>8. /\ FollowsOn(Tail(work.queue), forwarded'[c], n)
        /\ \A j \in DOMAIN forwarded'[c] : forwarded'[c][j] <= n
        /\ \A i, j \in DOMAIN forwarded'[c] :
             i < j => forwarded'[c][i] < forwarded'[c][j]
    BY <2>2, <2>3, <2>7
  <2>9. FollowsOn(pending[c].queue, forwarded'[c], n)
    BY <2>2, NothingFollowsOn DEF NotPending
  <2> HIDE DEF c
  <2>10. InOrder'
    BY <2>7, <2>8 DEF InOrder
  <2>11. InLine'
    BY <2>1, <2>2, <2>6, <2>7, <2>8, <2>9 DEF InLine, n
  <2>12. QED
    BY <2>10, <2>11
<1>3. ASSUME NEW c \in Clients, NEW k \in Kinds, Receive(c, k)
      PROVE  InOrder' /\ InLine'
  <2> DEFINE d == Datagram(c, k)
             n == received[c]
             sent == forwarded[c]
             q == pending[c].queue
  <2>1. /\ work = NoWork /\ forwarded' = forwarded /\ n < MaxReceived
        /\ received' = [received EXCEPT ![c] = n + 1]
        /\ \A x \in Clients : x # c => pending'[x] = pending[x]
        /\ \/ pending' = pending
           \/ pending'[c].queue = <<d>>
           \/ /\ pending[c] # NotPending
              /\ pending'[c].queue = Append(q, d)
        /\ \/ work' = work
           \/ /\ pending' = pending /\ pending[c] = NotPending
              /\ work'.client = c /\ work'.queue = <<d>>
    BY <1>3, ReceiveEffect
  <2>2. /\ n \in Nat /\ sent \in Seq(1..MaxReceived) /\ q \in Seq(Datagrams)
        /\ d \in Datagrams /\ d.num = n + 1
    <3>1. q \in Seq(Datagrams)
      <4>1. NotPending.queue \in Seq(Datagrams)
        BY DEF NotPending
      <4>2. pending[c] = NotPending \/ pending[c] \in [gen : Generations, queue : Queues]
        BY <1>a DEF TypeOK, Pending
      <4>3. QED
        BY <4>1, <4>2 DEF Queues
    <3>2. d \in Datagrams /\ d.num = n + 1
      BY <2>1, <1>a, DatagramType DEF Datagram
    <3>3. QED
      BY <3>1, <3>2, <1>a, MaxReceivedNat DEF TypeOK
  <2>3. FollowsOn(q, sent, n) /\ \A j \in DOMAIN sent : sent[j] <= n
    BY DEF InLine
  <2>4. /\ \A x \in Clients : x # c => received'[x] = received[x]
        /\ received'[c] = n + 1
    BY <2>1, <1>a DEF TypeOK
  <2> HIDE DEF d
  <2>5. /\ \A j \in DOMAIN sent : sent[j] <= n + 1
        /\ FollowsOn(q, sent, n + 1)
        /\ FollowsOn(<<d>>, sent, n + 1)
        /\ FollowsOn(Append(q, d), sent, n + 1)
    BY <2>2, <2>3, NewestFollowsOn
  <2> HIDE DEF n
  <2>6. FollowsOn(pending'[c].queue, sent, n + 1)
    BY <2>1, <2>5
  <2>7. InOrder'
    BY <2>1 DEF InOrder
  <2>8. InLine'
    BY <2>1, <2>4, <2>5, <2>6, <1>b DEF InLine
  <2>9. QED
    BY <2>7, <2>8
<1>4. ASSUME UNCHANGED <<received, forwarded, pending>>,
             work'.mode = "forward" => work' = work
      PROVE  InOrder' /\ InLine'
  BY <1>4, InLineKept
<1>5. CASE OfflineNext
  <2>1. work'.mode # "forward"
    BY <1>5, <1>a, <1>b DEF OfflineNext, NextDatagram, TypeOK, Work
  <2>2. QED
    BY <1>4, <1>5, <2>1 DEF OfflineNext
<1>6. \/ HandleResult \/ ForwardNext \/ OfflineNext
      \/ \E c \in Clients, k \in Kinds : Receive(c, k)
      \/ UNCHANGED <<received, forwarded, pending, work>>
  <2>1. ASSUME \/ Update \/ Start \/ HandleUpdate \/ MaintenanceTick \/ ReceiveError
               \/ Time
        PROVE  UNCHANGED <<received, forwarded, pending, work>>
    BY <2>1 DEF Update, Time, Publish, Start, HandleUpdate, MaintenanceTick,
      ReceiveError, SessionIdles, FakeIdles, PathOnly
  <2>2. ASSUME Tasks PROVE UNCHANGED <<received, forwarded, pending, work>>
    BY <2>2 DEF Tasks, ProbeAnswered, ProbeFailed, SelectionOnly, ReachabilityProbe,
      TargetReply, TargetError, TimerFires, PathEnds, PathOnly
  <2>3. QED
    BY <2>1, <2>2 DEF Next, Loop, vars
<1>7. QED
  BY <1>1, <1>2, <1>3, <1>4, <1>5, <1>6

\* A client's datagrams reach the target side in the order in which they came
\* in, and none twice, whether they waited in the queue of a selection, were
\* flushed from it or were forwarded at once.
THEOREM DatagramsStayInOrder == Spec => []InOrder
<1>1. Init => InOrder /\ InLine
  <2>1. \A c \in Clients : FollowsOn(NotPending.queue, <<>>, 0)
    BY NothingFollowsOn DEF NotPending
  <2>2. QED
    BY <2>1 DEF Init, InOrder, InLine, NoWork
<1>2. Consistent /\ InOrder /\ InLine /\ [Next]_vars => InOrder' /\ InLine'
  BY InOrderStep
<1>3. QED
  BY <1>1, <1>2, Consistency, PTL DEF Spec

-----------------------------------------------------------------------------
(* The relay keeps its contract                                             *)

\* A target is one of those of the configuration it was chosen under.
PathsFit ==
  \A s \in Sockets : path[s] # FreePath =>
    path[s].target \in {TargetsOf[path[s].cfg][i] : i \in DOMAIN TargetsOf[path[s].cfg]}
ResultFits(r) ==
  r.target # None => r.target \in {TargetsOf[r.cfg][i] : i \in DOMAIN TargetsOf[r.cfg]}
ResultsFit == \A i \in DOMAIN results : ResultFits(results[i])

\* A handshake is held under a configuration that has an offline message, and
\* the one that is being flushed into is held under its own.
OfflineFits ==
  /\ \A c \in Clients : fakes[c] # NoFake => fakes[c].cfg \in Offline
  /\ work.mode = "offline" =>
       /\ work.cfg \in Offline
       /\ fakes[work.client] # NoFake => fakes[work.client].cfg = work.cfg

\* Before its first poll and after its last, the relay serves nobody.
OutsideItsLife ==
  /\ status \in {"starting", "returned"} => \A c \in Clients : NoRole(c)
  /\ status = "starting" => config = None

Faithful ==
  Consistent /\ PathsFit /\ ResultsFit /\ OfflineFits /\ OutsideItsLife

LEMMA InitFaithful == Init => Faithful
<1> SUFFICES ASSUME Init PROVE Faithful
  OBVIOUS
<1>1. PathsFit /\ ResultsFit
  BY DEF Init, PathsFit, ResultsFit
<1>2. OfflineFits
  BY DEF Init, OfflineFits, NoWork
<1>3. OutsideItsLife
  BY DEF Init, OutsideItsLife, NoRole, Relayed, Selecting, InOffline, NoWork
<1>4. QED
  BY <1>1, <1>2, <1>3, InitConsistent DEF Faithful

\* What a datagram makes of a client's handshake.
LEMMA OutcomeFits ==
  ASSUME NEW f \in [Clients -> Fake], NEW c \in Clients, NEW d, NEW g,
         NEW o \in OfflineOutcomes(f, c, d, g)
  PROVE  \/ o.fake = NoFake
         \/ f[c] # NoFake /\ o.fake.cfg = f[c].cfg
         \/ f[c] = NoFake /\ g \in Offline /\ o.handled /\ o.fake.cfg = g
  BY DEF OfflineOutcomes, Outcome, LiveFake

LEMMA PathsFitStep == Faithful /\ [Next]_vars => PathsFit'
<1> SUFFICES ASSUME Faithful, [Next]_vars PROVE PathsFit'
  OBVIOUS
<1> USE DEF updateVars, loopVars, pendVars, taskVars
<1>a. TypeOK /\ PathsFit /\ Consistent /\ path \in [Sockets -> Path]
  BY DEF Faithful, Consistent, TypeOK
<1>1. ASSUME \A s \in Sockets :
               \/ path'[s] = FreePath
               \/ /\ path[s] # FreePath
                  /\ path'[s].cfg = path[s].cfg /\ path'[s].target = path[s].target
      PROVE  PathsFit'
  BY <1>1, <1>a DEF PathsFit
<1>2. ASSUME NEW c \in Clients, NEW t, NEW g, NEW queue, session[c] = None,
             CreateSession(c, t, g, queue),
             t \in {TargetsOf[g][i] : i \in DOMAIN TargetsOf[g]}
      PROVE  PathsFit'
  <2>1. PICK s \in Sockets :
          path' = [path EXCEPT ![s] =
                     [state |-> "receiving", client |-> c, target |-> t,
                      cfg |-> g, idle |-> FALSE]]
    BY <1>2, <1>a, CreateSessionEffect
  <2>2. path'[s].cfg = g /\ path'[s].target = t
        /\ \A z \in Sockets : z # s => path'[z] = path[z]
    BY <2>1, <1>a
  <2>3. QED
    BY <1>2, <1>a, <2>2 DEF PathsFit
<1>3. CASE HandleResult
  <2> DEFINE r == Head(results)
  <2>1. /\ session[r.client] = None /\ r.client \in Clients
        /\ ResultFits(r)
    <3>1. 1 \in DOMAIN results /\ r = results[1]
      BY <1>3, <1>a DEF HandleResult, TypeOK
    <3>2. QED
      BY <1>3, <1>a, <3>1, ResultIsCurrent DEF HandleResult, Result, Faithful, ResultsFit
  <2>2. CASE r.target # None /\ CreateSession(r.client, r.target, r.cfg,
                                              pending[r.client].queue)
    BY <1>2, <2>1, <2>2 DEF ResultFits
  <2>3. CASE UNCHANGED path
    BY <1>1, <2>3
  <2>4. QED
    BY <1>3, <2>2, <2>3 DEF HandleResult, SessionNotOpened
<1>4. ASSUME NEW c \in Clients, NEW k \in Kinds, ReceiveSingle(c, k) PROVE PathsFit'
  <2>1. /\ session[c] = None /\ 1 \in DOMAIN TargetsOf[config]
    <3>1. config \in Configs /\ Len(TargetsOf[config]) = 1 /\ session[c] = None
      BY <1>4, <1>a, ArrivesType DEF ReceiveSingle, NewClient, Unknown
    <3>2. QED
      BY <3>1, ConfigAssumption
  <2>2. CASE CreateSession(c, TargetsOf[config][1], config, <<Datagram(c, k)>>)
    BY <1>2, <2>1, <2>2
  <2>3. CASE UNCHANGED path
    BY <1>1, <2>3
  <2>4. QED
    BY <1>4, <2>2, <2>3 DEF ReceiveSingle, SessionNotOpened
<1>5. ASSUME NEW c \in Clients, NEW k \in Kinds, ReceiveExisting(c, k) PROVE PathsFit'
  <2>1. path[session[c]] # FreePath /\ session[c] \in Sockets
    BY <1>5, <1>a DEF ReceiveExisting, Consistent, SessionsMatchPaths, Relayed, TypeOK,
       FreePath
  <2>2. path' = [path EXCEPT ![session[c]].idle = FALSE]
    BY <1>5 DEF ReceiveExisting
  <2>3. \A s \in Sockets : \/ path'[s] = path[s]
                           \/ /\ path[s] # FreePath
                              /\ path'[s].cfg = path[s].cfg
                              /\ path'[s].target = path[s].target
    <3>1. LET p == path[session[c]] IN [p EXCEPT !.idle = FALSE].cfg = p.cfg
                              /\ [p EXCEPT !.idle = FALSE].target = p.target
      BY <1>a, <2>1 DEF Path, FreePath
    <3>2. QED
      BY <1>a, <2>1, <2>2, <3>1
  <2>4. QED
    BY <2>3, <1>1
<1>6. ASSUME NEW s \in Sockets, NEW sent \in BOOLEAN,
             TargetReply(s, sent) \/ TargetError(s) \/ SessionIdles(s) \/ TimerFires(s)
      PROVE  PathsFit'
  <2>1. path[s] \in [state : {"receiving", "closing"}, client : Clients,
                     target : Targets, cfg : Configs, idle : BOOLEAN]
        /\ path[s] # FreePath
    <3>1. path[s].state = "receiving"
      BY <1>6 DEF TargetReply, TargetError, SessionIdles, TimerFires
    <3>2. path[s] \in Path
      BY <1>a
    <3>3. QED
      BY <3>1, <3>2 DEF Path, FreePath
  <2>2. /\ path'[s].cfg = path[s].cfg /\ path'[s].target = path[s].target
        /\ \A z \in Sockets : z # s => path'[z] = path[z]
    <3>1. CASE TargetReply(s, sent)
      BY <2>1, <3>1, <1>a DEF TargetReply
    <3>2. CASE TargetError(s)
      BY <2>1, <3>2, <1>a DEF TargetError
    <3>3. CASE SessionIdles(s)
      BY <2>1, <3>3, <1>a DEF SessionIdles
    <3>4. CASE TimerFires(s)
      BY <2>1, <3>4, <1>a DEF TimerFires
    <3>5. QED
      BY <1>6, <3>1, <3>2, <3>3, <3>4
  <2>3. QED
    BY <2>1, <2>2, <1>1
<1>7. ASSUME NEW s \in Sockets, PathEnds(s) PROVE PathsFit'
  BY <1>7, <1>a, <1>1 DEF PathEnds
<1>8. CASE UNCHANGED path
  BY <1>8, <1>1
<1>9. ASSUME NEW c \in Clients, NEW k \in Kinds, Receive(c, k) PROVE PathsFit'
  BY <1>4, <1>5, <1>8, <1>9
  DEF Receive, ReceiveFake, ReceivePending, ReceiveDraining, ReceiveOffline,
      ReceiveSelect
<1>10. QED
  BY <1>3, <1>6, <1>7, <1>8, <1>9
  DEF Next, Update, Loop, Tasks, Time, Publish, Start, HandleUpdate, MaintenanceTick,
      ForwardNext, OfflineNext, ReceiveError, ProbeAnswered, ProbeFailed,
      SelectionOnly, ReachabilityProbe, FakeIdles, vars

LEMMA ResultsFitStep == Faithful /\ [Next]_vars => ResultsFit'
<1> SUFFICES ASSUME Faithful, [Next]_vars PROVE ResultsFit'
  OBVIOUS
<1> USE DEF updateVars, loopVars, pendVars, taskVars
<1>a. TypeOK /\ ResultsFit /\ results \in Seq(Result)
  BY DEF Faithful, Consistent, TypeOK
<1>1. CASE UNCHANGED results
  BY <1>1, <1>a DEF ResultsFit
<1>2. CASE results # <<>> /\ results' = Tail(results)
  <2>1. \A i \in DOMAIN results' : i + 1 \in DOMAIN results /\ results'[i] = results[i + 1]
    BY <1>2, <1>a
  <2>2. QED
    BY <2>1, <1>a DEF ResultsFit
<1>3. ASSUME NEW r, ResultFits(r), results' = Append(results, r) PROVE ResultsFit'
  <2>1. \A i \in DOMAIN results' :
          \/ i \in DOMAIN results /\ results'[i] = results[i]
          \/ results'[i] = r
    BY <1>3, <1>a
  <2>2. QED
    BY <1>3, <2>1, <1>a DEF ResultsFit
<1>4. ASSUME NEW p \in probes, ProbeAnswered(p) \/ ProbeFailed(p) PROVE ResultsFit'
  <2>1. p.next \in DOMAIN TargetsOf[p.cfg]
    BY <1>a DEF TypeOK, Selection
  <2>2. ResultFits(SelectionResult(p, TargetsOf[p.cfg][p.next]))
    BY <2>1 DEF ResultFits, SelectionResult
  <2>3. ResultFits(SelectionResult(p, None))
    BY DEF ResultFits, SelectionResult
  <2>4. QED
    BY <1>1, <1>3, <1>4, <2>2, <2>3 DEF ProbeAnswered, ProbeFailed
<1>5. ASSUME NEW c \in Clients, NEW k \in Kinds, Receive(c, k) PROVE ResultsFit'
  BY <1>1, <1>5
  DEF Receive, ReceiveFake, ReceiveExisting, ReceivePending, ReceiveDraining,
      ReceiveOffline, ReceiveSingle, ReceiveSelect, NewClient, Arrives
<1>6. QED
  BY <1>1, <1>2, <1>4, <1>5
  DEF Next, Update, Loop, Tasks, Time, Publish, Start, HandleUpdate, HandleResult,
      MaintenanceTick, ForwardNext, OfflineNext, ReceiveError, ReachabilityProbe,
      TargetReply, TargetError, TimerFires, PathEnds, SessionIdles, FakeIdles,
      PathOnly, vars

LEMMA OfflineFitsStep == Faithful /\ [Next]_vars => OfflineFits'
<1> SUFFICES ASSUME Faithful, [Next]_vars PROVE OfflineFits'
  OBVIOUS
<1> USE DEF updateVars, loopVars, pendVars, taskVars
<1>a. TypeOK /\ OfflineFits /\ Consistent /\ fakes \in [Clients -> Fake]
  BY DEF Faithful, Consistent, TypeOK
<1> DEFINE Kept == Retained(fakes)
           Stays(x) == fakes'[x] = NoFake \/ (fakes[x] # NoFake /\ fakes'[x].cfg = fakes[x].cfg)
<1>b. Kept \in [Clients -> Fake] /\ \A x \in Clients : Kept[x] \in {NoFake, fakes[x]}
  BY <1>a, RetainedType, RetainedOnlyForgets
<1>c. NoWork.mode = "none"
  BY DEF NoWork
<1> HIDE DEF Kept
<1>1. ASSUME UNCHANGED work, \A x \in Clients : Stays(x) PROVE OfflineFits'
  <2>1. work.mode = "offline" => work.client \in Clients
    BY <1>a, <1>c DEF TypeOK, Work
  <2>2. QED
    BY <1>1, <1>a, <2>1 DEF OfflineFits
<1>2. ASSUME work'.mode # "offline",
             \A x \in Clients : Stays(x) \/ fakes'[x].cfg \in Offline
      PROVE  OfflineFits'
  BY <1>2, <1>a DEF OfflineFits
<1>3. CASE HandleResult
  <2> DEFINE r == Head(results)
  <2>1. /\ r.client \in Clients /\ session[r.client] = None /\ fakes[r.client] = NoFake
        /\ fakes' = fakes /\ work = NoWork
    BY <1>3, <1>a, ResultIsCurrent DEF HandleResult, Result, AtSelect
  <2>2. CASE UNCHANGED work
    BY <1>1, <2>1, <2>2
  <2>3. CASE CreateSession(r.client, r.target, r.cfg, pending[r.client].queue)
    <3>1. work'.mode = "forward"
      BY <1>a, <2>1, <2>3, CreateSessionEffect
    <3>2. QED
      BY <1>2, <2>1, <3>1
  <2>4. CASE /\ r.cfg \in Offline
             /\ work' = [mode |-> "offline", client |-> r.client, sock |-> None,
                         cfg |-> r.cfg, queue |-> pending[r.client].queue]
    BY <1>a, <2>1, <2>4 DEF OfflineFits
  <2>5. QED
    BY <1>3, <2>2, <2>3, <2>4 DEF HandleResult, SessionNotOpened
<1>4. CASE ForwardNext
  <2>1. work'.mode # "offline" /\ fakes' = fakes
    BY <1>4, <1>a, <1>c DEF ForwardNext, NextDatagram, TypeOK, Work, NoWork
  <2>2. QED
    BY <1>2, <2>1
<1>5. CASE OfflineNext
  <2> DEFINE c == work.client
  <2>1. /\ c \in Clients /\ work.mode = "offline" /\ work.cfg \in Offline
        /\ work'.mode = "offline" => work'.client = c /\ work'.cfg = work.cfg
    BY <1>5, <1>a, <1>c DEF OfflineNext, NextDatagram, TypeOK, Work, NoWork, OfflineFits
  <2>2. PICK o \in OfflineOutcomes(fakes, c, Head(work.queue), work.cfg) :
          fakes' = [fakes EXCEPT ![c] = o.fake]
    BY <1>5 DEF OfflineNext
  <2>3. o.fake = NoFake \/ o.fake.cfg = work.cfg
    BY <1>a, <2>1, OutcomeFits DEF OfflineFits
  <2> HIDE DEF c
  <2>4. \A x \in Clients : fakes'[x] = IF x = c THEN o.fake ELSE fakes[x]
    BY <1>a, <2>1, <2>2
  <2>5. QED
    BY <1>a, <2>1, <2>3, <2>4 DEF OfflineFits
<1>6. ASSUME NEW c \in Clients, NEW k \in Kinds, Receive(c, k) PROVE OfflineFits'
  <2>1. work = NoWork
    BY <1>6 DEF Receive, ReceiveFake, ReceiveExisting, ReceivePending, ReceiveDraining,
      ReceiveOffline, ReceiveSingle, ReceiveSelect, NewClient, Arrives, AtSelect
  <2>2. work'.mode # "offline"
    <3>1. CASE ReceiveExisting(c, k)
      BY <3>1 DEF ReceiveExisting
    <3>2. CASE ReceiveSingle(c, k)
      <4>1. session[c] = None
        BY <3>2 DEF ReceiveSingle, NewClient, Unknown
      <4>2. CASE CreateSession(c, TargetsOf[config][1], config, <<Datagram(c, k)>>)
        BY <1>a, <4>1, <4>2, CreateSessionEffect
      <4>3. CASE UNCHANGED work
        BY <1>c, <2>1, <4>3
      <4>4. QED
        BY <3>2, <4>2, <4>3 DEF ReceiveSingle, SessionNotOpened
    <3>3. CASE UNCHANGED work
      BY <1>c, <2>1, <3>3
    <3>4. QED
      BY <1>6, <3>1, <3>2, <3>3 DEF Receive, ReceiveFake, ReceivePending,
        ReceiveDraining, ReceiveOffline, ReceiveSelect
  <2>3. ASSUME NEW o \in OfflineOutcomes(Kept, c, Datagram(c, k), config),
               fakes' = [Kept EXCEPT ![c] = o.fake]
        PROVE  \A x \in Clients : Stays(x) \/ fakes'[x].cfg \in Offline
    <3>1. \/ o.fake = NoFake
          \/ Kept[c] # NoFake /\ o.fake.cfg = Kept[c].cfg
          \/ o.fake.cfg \in Offline
      BY <1>b, OutcomeFits
    <3>2. \A x \in Clients : fakes'[x] = IF x = c THEN o.fake ELSE Kept[x]
      BY <1>b, <2>3
    <3>3. QED
      BY <1>b, <3>1, <3>2
  <2>4. CASE fakes' = Kept
    BY <1>2, <1>b, <2>2, <2>4
  <2>5. CASE ReceiveFake(c, k)
    BY <1>2, <2>2, <2>3, <2>5 DEF ReceiveFake, Kept
  <2>6. CASE ReceiveOffline(c, k)
    <3>1. PICK o \in OfflineFirst(c, k) : o.handled /\ fakes' = [Kept EXCEPT ![c] = o.fake]
      BY <2>6 DEF ReceiveOffline, Kept
    <3>2. o \in OfflineOutcomes(Kept, c, Datagram(c, k), config)
      BY <3>1 DEF OfflineFirst, Kept
    <3>3. QED
      BY <1>2, <2>2, <2>3, <3>1, <3>2
  <2>7. QED
    BY <1>6, <2>4, <2>5, <2>6 DEF Receive, ReceiveExisting, ReceivePending,
      ReceiveDraining, ReceiveSingle, ReceiveSelect, NewClient, Kept
<1>7. CASE MaintenanceTick
  BY <1>7, <1>1, <1>b DEF MaintenanceTick, Kept
<1>8. ASSUME NEW c \in Clients, FakeIdles(c) PROVE OfflineFits'
  <2>1. UNCHANGED work /\ fakes[c] # NoFake /\ fakes' = [fakes EXCEPT ![c].life = "idle"]
    BY <1>8 DEF FakeIdles, NoFake
  <2>2. fakes'[c].cfg = fakes[c].cfg /\ \A x \in Clients : x # c => fakes'[x] = fakes[x]
    BY <1>a, <2>1 DEF Fake
  <2>3. QED
    BY <1>1, <2>1, <2>2
<1>9. CASE UNCHANGED <<fakes, work>>
  BY <1>9, <1>1
<1>10. QED
  BY <1>3, <1>4, <1>5, <1>6, <1>7, <1>8, <1>9
  DEF Next, Update, Loop, Tasks, Time, Publish, Start, HandleUpdate, ReceiveError,
      ProbeAnswered, ProbeFailed, SelectionOnly, ReachabilityProbe, TargetReply,
      TargetError, TimerFires, PathEnds, SessionIdles, PathOnly, vars

\* What can still happen when the loop does not run: nothing that serves.
LEMMA NotRunning ==
  ASSUME Consistent, status # "running", [Next]_vars
  PROVE  /\ UNCHANGED <<pending, fakes, work, draining, probes, results>>
         /\ \A c \in Clients : session'[c] \in {None, session[c]}
         /\ status' = status \/ status = "starting"
         /\ config' = config \/ (status = "starting" /\ status' = "running")
<1> USE DEF updateVars, loopVars, pendVars, taskVars
<1>1. ASSUME NEW c \in Clients, NEW k \in Kinds, Receive(c, k) PROVE FALSE
  BY <1>1 DEF Receive, ReceiveFake, ReceiveExisting, ReceivePending, ReceiveDraining,
    ReceiveOffline, ReceiveSingle, ReceiveSelect, NewClient, Arrives, AtSelect
<1>2. CASE Update \/ UNCHANGED vars \/ Start
  BY <1>2 DEF Update, Publish, vars, Start
<1>3. CASE Loop /\ ~Start
  BY <1>1, <1>3 DEF Loop, HandleUpdate, MaintenanceTick, HandleResult, ForwardNext,
    OfflineNext, ReceiveError, AtSelect
<1>4. ASSUME NEW s \in Sockets, NEW sent \in BOOLEAN,
             TargetReply(s, sent) \/ TargetError(s) \/ TimerFires(s) \/ PathEnds(s)
             \/ SessionIdles(s)
      PROVE  /\ UNCHANGED <<pending, fakes, work, status, config, draining, probes, results>>
             /\ \A c \in Clients : session'[c] \in {None, session[c]}
  BY <1>4 DEF TargetReply, TargetError, TimerFires, PathEnds, SessionIdles, PathOnly,
    Consistent, TypeOK
<1>5. CASE Tasks \/ Time
  BY <1>4, <1>5 DEF Tasks, Time, ProbeAnswered, ProbeFailed, ReachabilityProbe, FakeIdles
<1>6. QED
  BY <1>2, <1>3, <1>5 DEF Next

LEMMA OutsideItsLifeStep == Faithful /\ [Next]_vars => OutsideItsLife'
<1> SUFFICES ASSUME Faithful, [Next]_vars PROVE OutsideItsLife'
  OBVIOUS
<1> USE DEF updateVars, loopVars, pendVars, taskVars
<1>1. CASE status # "running"
  <2>1. /\ UNCHANGED <<pending, fakes, work>>
        /\ \A c \in Clients : session'[c] \in {None, session[c]}
        /\ status' = status \/ status = "starting"
        /\ config' = config \/ (status = "starting" /\ status' = "running")
    BY <1>1, NotRunning DEF Faithful
  <2>2. \A c \in Clients : NoRole(c) => NoRole(c)'
    BY <2>1 DEF NoRole, Relayed, Selecting, InOffline
  <2>3. status' = "starting" => status = "starting"
    BY <1>1, <2>1
  <2>4. status' = "returned" => status \in {"starting", "returned"}
    BY <2>1
  <2>5. QED
    BY <2>1, <2>2, <2>3, <2>4 DEF Faithful, OutsideItsLife
<1>2. CASE status = "running" /\ status' = status
  BY <1>2 DEF OutsideItsLife
<1>3. CASE status = "running" /\ MaintenanceTick /\ status' = "returned"
  <2>1. \A c \in Clients : /\ session[c] = None /\ pending[c] = NotPending
                           /\ fakes'[c] = NoFake
    BY <1>3 DEF MaintenanceTick
  <2>2. work' = NoWork /\ UNCHANGED <<session, pending>>
    BY <1>3 DEF MaintenanceTick, AtSelect
  <2>3. QED
    BY <1>3, <2>1, <2>2 DEF OutsideItsLife, NoRole, Relayed, Selecting, InOffline, NoWork
<1>4. CASE status' = "failed"
  BY <1>4 DEF OutsideItsLife
<1>5. ASSUME NEW c \in Clients, NEW k \in Kinds, Receive(c, k) PROVE status' = status
  BY <1>5 DEF Receive, ReceiveFake, ReceiveExisting, ReceivePending, ReceiveDraining,
    ReceiveOffline, ReceiveSingle, ReceiveSelect, NewClient, Arrives
<1>6. CASE status = "running"
  BY <1>2, <1>3, <1>4, <1>5, <1>6
  DEF Next, Update, Loop, Tasks, Time, Publish, Start, HandleUpdate, MaintenanceTick,
      HandleResult, ForwardNext, OfflineNext, ReceiveError, ProbeAnswered, ProbeFailed,
      SelectionOnly, ReachabilityProbe, TargetReply, TargetError, TimerFires, PathEnds,
      SessionIdles, FakeIdles, PathOnly, vars
<1>7. QED
  BY <1>1, <1>6

LEMMA FaithfulStep == Faithful /\ [Next]_vars => Faithful'
  BY ConsistentStep, PathsFitStep, ResultsFitStep, OfflineFitsStep, OutsideItsLifeStep
  DEF Faithful

\* How a client is served, in terms of the maps.
Selected(ps, rs, c, g) == \/ \E p \in ps : p.client = c /\ p.cfg = g
                          \/ \E i \in DOMAIN rs : rs[i].client = c /\ rs[i].cfg = g

LEMMA OneConfig ==
  ASSUME NEW ps, NEW rs, NEW c, NEW g \in Configs, Selected(ps, rs, c, g),
         \A p, q \in ps : q.client = p.client => q = p,
         \A i, j \in DOMAIN rs : rs[j].client = rs[i].client => j = i,
         \A p \in ps : \A i \in DOMAIN rs : p.client # rs[i].client
  PROVE  g = CHOOSE h \in Configs : \/ \E p \in ps : p.client = c /\ p.cfg = h
                                    \/ \E i \in DOMAIN rs :
                                         rs[i].client = c /\ rs[i].cfg = h
<1>1. \A h \in Configs : Selected(ps, rs, c, h) <=> h = g
  <2> SUFFICES ASSUME NEW h \in Configs, Selected(ps, rs, c, h) PROVE h = g
    OBVIOUS
  <2>1. CASE \E p \in ps : p.client = c /\ p.cfg = g
    BY <2>1 DEF Selected
  <2>2. CASE \E i \in DOMAIN rs : rs[i].client = c /\ rs[i].cfg = g
    BY <2>2 DEF Selected
  <2>3. QED
    BY <2>1, <2>2 DEF Selected
<1>2. QED
  BY <1>1 DEF Selected

Role(kind, g, t) == [is |-> kind, cfg |-> g, target |-> t]

LEMMA RoleBefore ==
  ASSUME Consistent, NEW c \in Clients
  PROVE  /\ Relayed(c) => RoleOf(c) = Role("relayed", path[session[c]].cfg,
                                           path[session[c]].target)
         /\ \A g \in Configs : Selecting(c) /\ Selected(probes, results, c, g) =>
              RoleOf(c) = Role("selecting", g, None)
         /\ fakes[c] # NoFake => RoleOf(c) = Role("offline", fakes[c].cfg, None)
         /\ fakes[c] = NoFake /\ work.mode = "offline" /\ work.client = c =>
              RoleOf(c) = Role("offline", work.cfg, None)
         /\ NoRole(c) => RoleOf(c) = Role("none", None, None)
<1>1. OneRole /\ OneSelectionEach
  BY DEF Consistent
<1>2. ASSUME NEW g \in Configs, Selected(probes, results, c, g)
      PROVE  SelectionConfig(c) = g
  BY <1>1, <1>2, OneConfig DEF OneSelectionEach, SelectionConfig
<1>3. Selecting(c) => RoleOf(c) = Role("selecting", SelectionConfig(c), None)
  BY <1>1 DEF OneRole, RoleOf, Role
<1>4. Relayed(c) => RoleOf(c) = Role("relayed", path[session[c]].cfg,
                                     path[session[c]].target)
  BY <1>1 DEF OneRole, RoleOf, Role
<1>5. InOffline(c) => RoleOf(c) = Role("offline", IF fakes[c] # NoFake
                                      THEN fakes[c].cfg ELSE work.cfg, None)
  BY <1>1 DEF OneRole, RoleOf, Role
<1>6. NoRole(c) => RoleOf(c) = Role("none", None, None)
  BY DEF NoRole, RoleOf, Role
<1>7. QED
  BY <1>2, <1>3, <1>4, <1>5, <1>6 DEF InOffline

LEMMA RoleAfter ==
  ASSUME Consistent', NEW c \in Clients
  PROVE  /\ Relayed(c)' => RoleOf(c)' = Role("relayed", path'[session'[c]].cfg,
                                             path'[session'[c]].target)
         /\ \A g \in Configs : Selecting(c)' /\ Selected(probes', results', c, g) =>
              RoleOf(c)' = Role("selecting", g, None)
         /\ fakes'[c] # NoFake => RoleOf(c)' = Role("offline", fakes'[c].cfg, None)
         /\ fakes'[c] = NoFake /\ work'.mode = "offline" /\ work'.client = c =>
              RoleOf(c)' = Role("offline", work'.cfg, None)
         /\ NoRole(c)' => RoleOf(c)' = Role("none", None, None)
<1>1. OneRole' /\ OneSelectionEach'
  BY DEF Consistent
<1>2. ASSUME NEW g \in Configs, Selected(probes', results', c, g)
      PROVE  SelectionConfig(c)' = g
  BY <1>1, <1>2, OneConfig DEF OneSelectionEach, SelectionConfig
<1>3. Selecting(c)' => RoleOf(c)' = Role("selecting", SelectionConfig(c)', None)
  BY <1>1 DEF OneRole, RoleOf, Role
<1>4. Relayed(c)' => RoleOf(c)' = Role("relayed", path'[session'[c]].cfg,
                                       path'[session'[c]].target)
  BY <1>1 DEF OneRole, RoleOf, Role
<1>5. InOffline(c)' => RoleOf(c)' = Role("offline", IF fakes'[c] # NoFake
                                        THEN fakes'[c].cfg ELSE work'.cfg, None)
  BY <1>1 DEF OneRole, RoleOf, Role
<1>6. NoRole(c)' => RoleOf(c)' = Role("none", None, None)
  BY DEF NoRole, RoleOf, Role
<1>7. QED
  BY <1>2, <1>3, <1>4, <1>5, <1>6 DEF InOffline

\* A waiting client waits under one of the configurations.
LEMMA SelectedOnce ==
  ASSUME Consistent, NEW c \in Clients, Selecting(c)
  PROVE  \E g \in Configs : Selected(probes, results, c, g)
<1>1. CASE \E p \in probes : p.client = c
  BY <1>1 DEF Consistent, TypeOK, Selection, Selected
<1>2. CASE \E i \in DOMAIN results : results[i].client = c
  <2>1. \A i \in DOMAIN results : results[i].cfg \in Configs
    <3>1. \A i \in DOMAIN results : results[i] \in Result
      BY DEF Consistent, TypeOK
    <3>2. QED
      BY <3>1 DEF Result
  <2>2. QED
    BY <1>2, <2>1 DEF Selected
<1>3. QED
  BY <1>1, <1>2 DEF Consistent, OneSelectionEach

\* What the contract allows a step to do to one client.
RoleKept(c) == RoleOf(c)' = RoleOf(c)
ServedBy(c, g) ==
  \/ \E i \in DOMAIN TargetsOf[g] : RoleOf(c)' = Role("relayed", g, TargetsOf[g][i])
  \/ g \in Offline /\ RoleOf(c)' = Role("offline", g, None)
IsAdmitted(c) ==
  /\ ~draining /\ config # None /\ RoleOf(c).is \in {"none", "offline"}
  /\ ServedBy(c, config) \/ RoleOf(c)' = Role("selecting", config, None)
IsResolved(c) ==
  /\ RoleOf(c).is = "selecting"
  /\ ServedBy(c, RoleOf(c).cfg) \/ RoleOf(c)' = Role("none", None, None)
HasLeft(c) ==
  /\ RoleOf(c).is \in {"relayed", "offline"}
  /\ RoleOf(c)' = Role("none", None, None)
RoleMoves(c) == RoleKept(c) \/ IsAdmitted(c) \/ IsResolved(c) \/ HasLeft(c)

\* The step leaves the session and the selection of c alone.
ElseKept(c) ==
  /\ session'[c] = session[c]
  /\ Relayed(c) => /\ path'[session[c]].cfg = path[session[c]].cfg
                   /\ path'[session[c]].target = path[session[c]].target
  /\ Selecting(c)' <=> Selecting(c)
  /\ \A g \in Configs : Selected(probes, results, c, g) =>
                          Selected(probes', results', c, g)

\* The loop's work is not for an offline handshake of c.
NoOfflineWork(w, c) == w.mode = "offline" => w.client # c

LEMMA SameRole ==
  ASSUME Faithful, Faithful', NEW c \in Clients, ElseKept(c),
         \/ fakes'[c] = fakes[c]
         \/ fakes[c] # NoFake /\ fakes'[c] # NoFake /\ fakes'[c].cfg = fakes[c].cfg,
         \/ UNCHANGED work
         \/ NoOfflineWork(work, c) /\ NoOfflineWork(work', c)
  PROVE  RoleKept(c)
<1> USE DEF Faithful
<1>1. CASE Relayed(c)
  BY <1>1, RoleBefore, RoleAfter DEF ElseKept, Relayed, RoleKept
<1>2. CASE Selecting(c)
  <2>1. PICK g \in Configs : Selected(probes, results, c, g)
    BY <1>2, SelectedOnce
  <2>2. QED
    BY <1>2, <2>1, RoleBefore, RoleAfter DEF ElseKept, RoleKept
<1>3. CASE fakes[c] # NoFake
  BY <1>3, RoleBefore, RoleAfter DEF RoleKept
<1>4. CASE fakes[c] = NoFake /\ work.mode = "offline" /\ work.client = c
  BY <1>4, RoleBefore, RoleAfter DEF RoleKept, NoOfflineWork
<1>5. CASE NoRole(c)
  <2>1. NoRole(c)'
    BY <1>5 DEF NoRole, Relayed, InOffline, ElseKept, NoOfflineWork
  <2>2. QED
    BY <1>5, <2>1, RoleBefore, RoleAfter DEF RoleKept
<1>6. QED
  BY <1>1, <1>2, <1>3, <1>4, <1>5 DEF NoRole, InOffline

\* An expired handshake is forgotten.
LEMMA SameRoleOrLeft ==
  ASSUME Faithful, Faithful', NEW c \in Clients, ElseKept(c),
         NoOfflineWork(work, c), NoOfflineWork(work', c),
         \/ fakes'[c] = NoFake
         \/ fakes[c] # NoFake /\ fakes'[c] # NoFake /\ fakes'[c].cfg = fakes[c].cfg
  PROVE  RoleMoves(c)
<1>1. CASE fakes[c] = NoFake \/ fakes'[c] # NoFake
  BY <1>1, SameRole DEF RoleMoves
<1>2. CASE fakes[c] # NoFake /\ fakes'[c] = NoFake
  <2>1. ~Relayed(c) /\ ~Selecting(c)
    BY <1>2 DEF Faithful, Consistent, OneRole, InOffline
  <2>2. NoRole(c)'
    BY <1>2, <2>1 DEF NoRole, Relayed, InOffline, ElseKept, NoOfflineWork
  <2>3. RoleOf(c).is = "offline"
    BY <1>2, RoleBefore DEF Faithful, Role
  <2>4. QED
    BY <2>2, <2>3, RoleAfter DEF Faithful, RoleMoves, HasLeft
<1>3. QED
  BY <1>1, <1>2

\* A selection's end: the client is served as its result says, or dropped.
LEMMA ResultMoves ==
  ASSUME Faithful, Faithful', HandleResult, NEW x \in Clients
  PROVE  RoleMoves(x)
<1> USE DEF updateVars, loopVars
<1>0. /\ TypeOK /\ Consistent /\ ResultsFit /\ results \in Seq(Result) /\ results # <<>>
      /\ work = NoWork /\ NoWork.mode = "none"
  BY DEF HandleResult, AtSelect, Faithful, Consistent, TypeOK, NoWork
<1>1a. PICK r \in Result : r = Head(results) /\ 1 \in DOMAIN results /\ r = results[1]
  BY <1>0
<1>1b. PICK c \in Clients : c = r.client
  BY DEF Result
<1>a. /\ TypeOK /\ Consistent /\ ResultsFit /\ results \in Seq(Result) /\ results # <<>>
      /\ r \in Result /\ pending[c].gen = r.gen
      /\ session[c] = None /\ fakes[c] = NoFake /\ work = NoWork
      /\ NoWork.mode = "none"
  BY <1>0, <1>1a, <1>1b, ResultIsCurrent
<1>b. /\ RemovePending(c) /\ results' = Tail(results) /\ UNCHANGED <<probes, fakes>>
  BY <1>a, <1>1a, <1>1b DEF HandleResult
<1>c. 1 \in DOMAIN results /\ r = results[1] /\ c = r.client
  BY <1>1a, <1>1b
<1>d. \/ UNCHANGED <<session, path, work>>
      \/ r.target # None /\ CreateSession(c, r.target, r.cfg, pending[c].queue)
      \/ /\ r.cfg \in Offline /\ UNCHANGED <<session, path>>
         /\ work' = [mode |-> "offline", client |-> c, sock |-> None,
                     cfg |-> r.cfg, queue |-> pending[c].queue]
  BY <1>a, <1>1a, <1>1b DEF HandleResult, SessionNotOpened
<1>1. CASE x = c
  <2>1. RoleOf(c) = Role("selecting", r.cfg, None)
    <3>1. Selecting(c) /\ r.cfg \in Configs
      BY <1>a, <1>c, OutstandingIsSelecting DEF Result
    <3>2. Selected(probes, results, c, r.cfg)
      BY <1>c DEF Selected
    <3>3. QED
      BY <1>a, <3>1, <3>2, RoleBefore
  <2>2. RoleOf(c).is = "selecting" /\ RoleOf(c).cfg = r.cfg
    BY <2>1 DEF Role
  <2>3. CASE UNCHANGED <<session, work>>
    <3>1. NoRole(c)'
      BY <1>a, <1>b, <2>3 DEF RemovePending, NoRole, Relayed, Selecting, InOffline, TypeOK
    <3>2. RoleOf(c)' = Role("none", None, None)
      BY <3>1, RoleAfter DEF Faithful
    <3>3. QED
      BY <1>1, <2>2, <3>2 DEF RoleMoves, IsResolved
  <2>4. CASE r.target # None /\ CreateSession(c, r.target, r.cfg, pending[c].queue)
    <3>1. PICK s \in Sockets :
            /\ session' = [session EXCEPT ![c] = s]
            /\ path' = [path EXCEPT ![s] =
                 [state |-> "receiving", client |-> c, target |-> r.target,
                  cfg |-> r.cfg, idle |-> FALSE]]
      BY <1>a, <2>4, CreateSessionEffect
    <3>2. /\ Relayed(c)' /\ path'[session'[c]].cfg = r.cfg
          /\ path'[session'[c]].target = r.target
      BY <1>a, <3>1, NoneAssumption DEF TypeOK, Relayed
    <3>3. RoleOf(c)' = Role("relayed", r.cfg, r.target)
      BY <1>a, <3>2, RoleAfter DEF Faithful
    <3>4. \E i \in DOMAIN TargetsOf[r.cfg] : r.target = TargetsOf[r.cfg][i]
      BY <1>a, <1>c, <2>4 DEF ResultsFit, ResultFits
    <3>5. QED
      BY <1>1, <2>2, <3>3, <3>4 DEF RoleMoves, IsResolved, ServedBy
  <2>5. CASE /\ r.cfg \in Offline
             /\ work' = [mode |-> "offline", client |-> c, sock |-> None,
                         cfg |-> r.cfg, queue |-> pending[c].queue]
    <3>1. RoleOf(c)' = Role("offline", r.cfg, None)
      BY <1>a, <1>b, <2>5, RoleAfter DEF Faithful
    <3>2. QED
      BY <1>1, <2>2, <2>5, <3>1 DEF RoleMoves, IsResolved, ServedBy
  <2>6. QED
    BY <1>d, <2>3, <2>4, <2>5
<1>2. CASE x # c
  <2>1. Selecting(x)' <=> Selecting(x)
    BY <1>2, <1>a, <1>b DEF RemovePending, Selecting, TypeOK
  <2>2. \A g \in Configs : Selected(probes, results, x, g) =>
                             Selected(probes', results', x, g)
    <3>1. ASSUME NEW i \in DOMAIN results, results[i].client = x
          PROVE  \E j \in DOMAIN results' : results'[j] = results[i]
      <4>1. i # 1 /\ i - 1 \in DOMAIN Tail(results) /\ Tail(results)[i - 1] = results[i]
        BY <1>2, <1>a, <1>c, <3>1
      <4>2. QED
        BY <1>b, <4>1
    <3>2. QED
      BY <1>b, <3>1 DEF Selected
  <2>3. /\ session'[x] = session[x]
        /\ Relayed(x) => path'[session[x]] = path[session[x]]
        /\ NoOfflineWork(work', x)
    <3>1. CASE CreateSession(c, r.target, r.cfg, pending[c].queue)
      <4>1. PICK s \in Sockets :
              /\ path[s] = FreePath
              /\ session' = [session EXCEPT ![c] = s]
              /\ path' = [path EXCEPT ![s] =
                   [state |-> "receiving", client |-> c, target |-> r.target,
                    cfg |-> r.cfg, idle |-> FALSE]]
              /\ work'.mode = "forward"
        BY <1>a, <3>1, CreateSessionEffect
      <4>2. Relayed(x) => session[x] \in Sockets /\ session[x] # s
        BY <1>a, <4>1 DEF Consistent, SessionsMatchPaths, Relayed, TypeOK, FreePath
      <4>3. QED
        BY <1>2, <1>a, <4>1, <4>2 DEF TypeOK, NoOfflineWork
    <3>2. CASE UNCHANGED <<session, path>> /\ work'.client = c
      BY <1>2, <3>2 DEF NoOfflineWork
    <3>3. CASE UNCHANGED <<session, path, work>>
      BY <1>a, <3>3 DEF NoOfflineWork
    <3>4. QED
      BY <1>d, <3>1, <3>2, <3>3
  <2>4. ElseKept(x)
    BY <2>1, <2>2, <2>3 DEF ElseKept
  <2>5. NoOfflineWork(work, x)
    BY <1>a DEF NoOfflineWork
  <2>6. QED
    BY <1>b, <2>3, <2>4, <2>5, SameRole DEF RoleMoves
<1>3. QED
  BY <1>1, <1>2

\* A datagram leaves the loop no offline handshake to flush into.
LEMMA ReceiveWork ==
  ASSUME Faithful, NEW c \in Clients, NEW k \in Kinds, Receive(c, k),
         NEW x \in Clients
  PROVE  /\ NoOfflineWork(work, x) /\ NoOfflineWork(work', x)
         /\ work = NoWork /\ Arrives(c)
         /\ UNCHANGED <<config, draining, status, results>>
<1> USE DEF loopVars
<1>1. /\ TypeOK /\ work = NoWork /\ NoWork.mode = "none" /\ Arrives(c)
      /\ UNCHANGED <<config, draining, status, results>>
  BY DEF Receive, ReceiveFake, ReceiveExisting, ReceivePending, ReceiveDraining,
    ReceiveOffline, ReceiveSingle, ReceiveSelect, NewClient, Arrives, AtSelect,
    Faithful, Consistent, NoWork
<1>2. CASE UNCHANGED work
  BY <1>1, <1>2 DEF NoOfflineWork
<1>3. CASE work'.mode = "forward"
  BY <1>1, <1>3 DEF NoOfflineWork
<1>4. CASE ReceiveSingle(c, k)
  <2>1. session[c] = None
    BY <1>4 DEF ReceiveSingle, NewClient, Unknown
  <2>2. CASE CreateSession(c, TargetsOf[config][1], config, <<Datagram(c, k)>>)
    BY <1>1, <1>3, <2>1, <2>2, CreateSessionEffect
  <2>3. QED
    BY <1>2, <1>4, <2>2 DEF ReceiveSingle, SessionNotOpened
<1>5. CASE ReceiveExisting(c, k)
  BY <1>3, <1>5 DEF ReceiveExisting
<1>6. QED
  BY <1>2, <1>4, <1>5 DEF Receive, ReceiveFake, ReceivePending, ReceiveDraining,
    ReceiveOffline, ReceiveSelect

\* What a datagram of c makes of the handshakes.
LEMMA ReceiveFakes ==
  ASSUME Faithful, NEW c \in Clients, NEW k \in Kinds, Receive(c, k),
         NEW x \in Clients
  PROVE  \/ fakes'[x] = NoFake
         \/ fakes[x] # NoFake /\ fakes'[x] # NoFake /\ fakes'[x].cfg = fakes[x].cfg
         \/ /\ x = c /\ ReceiveOffline(c, k) /\ config \in Offline
            /\ fakes'[x] # NoFake /\ fakes'[x].cfg = config
<1> DEFINE Kept == Retained(fakes)
<1>a. Kept \in [Clients -> Fake] /\ Kept[x] \in {NoFake, fakes[x]}
  BY RetainedType, RetainedOnlyForgets DEF Faithful, Consistent
<1>b. \A o \in OfflineOutcomes(Kept, c, Datagram(c, k), config) :
        \/ o.fake = NoFake
        \/ Kept[c] # NoFake /\ o.fake.cfg = Kept[c].cfg
        \/ Kept[c] = NoFake /\ config \in Offline /\ o.fake.cfg = config
  BY <1>a, OutcomeFits
<1> HIDE DEF Kept
<1>1. CASE fakes' = Kept
  BY <1>1, <1>a
<1>2. CASE ReceiveFake(c, k)
  <2>1. PICK o \in OfflineOutcomes(Kept, c, Datagram(c, k), config) :
          fakes' = [Kept EXCEPT ![c] = o.fake]
    BY <1>2 DEF ReceiveFake, Kept
  <2>2. Kept[c] # NoFake
    BY <1>2 DEF ReceiveFake, Kept
  <2>3. o.fake = NoFake \/ o.fake.cfg = Kept[c].cfg
    BY <1>b, <2>1, <2>2
  <2>4. fakes'[x] = IF x = c THEN o.fake ELSE Kept[x]
    BY <1>a, <2>1
  <2>5. QED
    BY <1>a, <2>2, <2>3, <2>4
<1>3. CASE ReceiveOffline(c, k)
  <2>1. PICK o \in OfflineFirst(c, k) :
          o.handled /\ fakes' = [Kept EXCEPT ![c] = o.fake]
    BY <1>3 DEF ReceiveOffline, Kept
  <2>2. o \in OfflineOutcomes(Kept, c, Datagram(c, k), config)
    BY <2>1 DEF OfflineFirst, Kept
  <2>3. Kept[c] = NoFake
    BY <1>3 DEF ReceiveOffline, Unknown, Kept
  <2>4. o.fake = NoFake \/ (config \in Offline /\ o.fake.cfg = config)
    BY <1>b, <2>2, <2>3
  <2>5. fakes'[x] = IF x = c THEN o.fake ELSE Kept[x]
    BY <1>a, <2>1
  <2>6. QED
    BY <1>a, <1>3, <2>4, <2>5
<1>4. QED
  BY <1>1, <1>2, <1>3 DEF Receive, ReceiveExisting, ReceivePending, ReceiveDraining,
    ReceiveSingle, ReceiveSelect, NewClient, Kept

\* A datagram of a client that the relay knows, or does not admit to a target,
\* leaves every session and every selection.
LEMMA KnownKept ==
  ASSUME Faithful, NEW c \in Clients, NEW k \in Kinds, Receive(c, k),
         ~ReceiveSingle(c, k), ~ReceiveSelect(c, k), NEW x \in Clients
  PROVE  ElseKept(x)
<1> USE DEF pendVars
<1>a. TypeOK /\ SessionsMatchPaths /\ UNCHANGED results
  BY ReceiveWork DEF Faithful, Consistent
<1>1. CASE UNCHANGED <<session, path, probes, pending>>
  BY <1>1, <1>a DEF ElseKept, Selecting
<1>2. CASE ReceivePending(c, k)
  <2>1. CASE pending' = [pending EXCEPT ![c].queue = Append(@, Datagram(c, k))]
    <3>1. pending[c] \in [gen : Generations, queue : Queues]
      BY <1>2, <1>a DEF ReceivePending, TypeOK, Pending
    <3>2. pending'[c].gen = pending[c].gen /\ \A y \in Clients : y # c => pending'[y] = pending[y]
      <4>1. \A q : [pending[c] EXCEPT !.queue = q].gen = pending[c].gen
        BY <3>1
      <4>2. QED
        BY <2>1, <4>1, <1>a DEF TypeOK
    <3>3. pending[c].gen # 0
      BY <3>1 DEF Generations
    <3>4. Selecting(x)' <=> Selecting(x)
      BY <3>2, <3>3 DEF Selecting, NotPending
    <3>5. QED
      BY <1>2, <1>a, <3>4 DEF ReceivePending, ElseKept
  <2>2. QED
    BY <1>1, <1>2, <2>1 DEF ReceivePending, Enqueue
<1>3. CASE ReceiveExisting(c, k)
  <2>1. /\ path' = [path EXCEPT ![session[c]].idle = FALSE]
        /\ UNCHANGED <<session, pending, probes>>
        /\ session[c] \in Sockets
    BY <1>3, <1>a DEF ReceiveExisting, TypeOK
  <2>2. path[session[c]] \in [state : {"receiving", "closing"}, client : Clients,
                              target : Targets, cfg : Configs, idle : BOOLEAN]
    BY <1>3, <1>a, <2>1 DEF ReceiveExisting, SessionsMatchPaths, Relayed, TypeOK, Path,
      FreePath
  <2>3. \A s \in Sockets : path'[s].cfg = path[s].cfg /\ path'[s].target = path[s].target
    <3>1. LET p == path[session[c]] IN [p EXCEPT !.idle = FALSE].cfg = p.cfg
                              /\ [p EXCEPT !.idle = FALSE].target = p.target
      BY <2>2
    <3>2. QED
      BY <1>a, <2>1, <3>1 DEF TypeOK
  <2>4. QED
    BY <1>a, <2>1, <2>3 DEF ElseKept, Selecting, Relayed, TypeOK
<1>4. QED
  BY <1>1, <1>2, <1>3 DEF Receive, ReceiveFake, ReceiveDraining, ReceiveOffline

\* The admission of a client changes no other.
LEMMA AdmissionKeepsOthers ==
  ASSUME Faithful, NEW c \in Clients, NEW k \in Kinds, Receive(c, k),
         ReceiveSingle(c, k) \/ ReceiveSelect(c, k), NEW x \in Clients, x # c
  PROVE  ElseKept(x)
<1> USE DEF pendVars
<1>a. TypeOK /\ SessionsMatchPaths /\ UNCHANGED results
  BY ReceiveWork DEF Faithful, Consistent
<1>1. CASE ReceiveSingle(c, k)
  <2>1. UNCHANGED <<pending, probes>> /\ session[c] = None
    BY <1>1 DEF ReceiveSingle, NewClient, Unknown
  <2>2. CASE CreateSession(c, TargetsOf[config][1], config, <<Datagram(c, k)>>)
    <3>1. PICK s \in Sockets :
            /\ path[s] = FreePath
            /\ session' = [session EXCEPT ![c] = s]
            /\ path' = [path EXCEPT ![s] =
                 [state |-> "receiving", client |-> c,
                  target |-> TargetsOf[config][1], cfg |-> config, idle |-> FALSE]]
      BY <1>a, <2>1, <2>2, CreateSessionEffect
    <3>2. Relayed(x) => session[x] \in Sockets /\ session[x] # s
      BY <1>a, <3>1 DEF SessionsMatchPaths, Relayed, TypeOK, FreePath
    <3>3. session'[x] = session[x] /\ (Relayed(x) => path'[session[x]] = path[session[x]])
      BY <1>a, <3>1, <3>2 DEF TypeOK
    <3>4. QED
      BY <1>a, <2>1, <3>3 DEF ElseKept, Selecting
  <2>3. CASE UNCHANGED <<session, path>>
    BY <1>a, <2>1, <2>3 DEF ElseKept, Selecting
  <2>4. QED
    BY <1>1, <2>2, <2>3 DEF ReceiveSingle, SessionNotOpened
<1>2. CASE ReceiveSelect(c, k)
  <2>1. /\ UNCHANGED <<session, path>> /\ probes \subseteq probes'
        /\ pending'[x] = pending[x]
    BY <1>2, <1>a DEF ReceiveSelect, StartPending, TypeOK
  <2>2. QED
    BY <1>a, <2>1 DEF ElseKept, Selecting, Selected
<1>3. QED
  BY <1>1, <1>2

\* A new client that is admitted to its targets.
LEMMA AdmittedMoves ==
  ASSUME Faithful, Faithful', NEW c \in Clients, NEW k \in Kinds, Receive(c, k),
         ReceiveSingle(c, k) \/ ReceiveSelect(c, k)
  PROVE  RoleMoves(c)
<1> USE DEF pendVars
<1>a. /\ TypeOK /\ Consistent /\ UNCHANGED results
      /\ config \in Configs /\ config # None /\ ~draining
      /\ session[c] = None /\ pending[c] = NotPending
      /\ NoOfflineWork(work, c) /\ NoOfflineWork(work', c)
  BY ReceiveWork, ArrivesType, NoneAssumption DEF Faithful, Consistent, NewClient, Unknown, ReceiveSingle,
    ReceiveSelect
<1>b. RoleOf(c).is \in {"none", "offline"}
  <2>1. NoRole(c) \/ InOffline(c)
    BY <1>a DEF NoRole, Relayed, Selecting
  <2>2. QED
    BY <1>a, <2>1, RoleBefore DEF InOffline, Role
<1>c. fakes'[c] = NoFake
  <2>1. fakes'[c] = Retained(fakes)[c] /\ Retained(fakes)[c] = NoFake
    BY DEF ReceiveSingle, ReceiveSelect, NewClient, Unknown
  <2>2. QED
    BY <2>1
<1>1. CASE UNCHANGED <<session, path, pending, probes>>
  <2>1. ElseKept(c)
    BY <1>1, <1>a DEF ElseKept, Selecting
  <2>2. QED
    BY <1>a, <1>c, <2>1, SameRoleOrLeft
<1>2. CASE ReceiveSingle(c, k) /\ CreateSession(c, TargetsOf[config][1], config,
                                                <<Datagram(c, k)>>)
  <2>1. PICK s \in Sockets :
          /\ session' = [session EXCEPT ![c] = s]
          /\ path' = [path EXCEPT ![s] =
               [state |-> "receiving", client |-> c,
                target |-> TargetsOf[config][1], cfg |-> config, idle |-> FALSE]]
    BY <1>a, <1>2, CreateSessionEffect
  <2>2. /\ Relayed(c)' /\ path'[session'[c]].cfg = config
        /\ path'[session'[c]].target = TargetsOf[config][1]
    BY <1>a, <2>1, NoneAssumption DEF TypeOK, Relayed
  <2>3. 1 \in DOMAIN TargetsOf[config]
    BY <1>2, <1>a, ConfigAssumption DEF ReceiveSingle
  <2>4. RoleOf(c)' = Role("relayed", config, TargetsOf[config][1])
    BY <2>2, RoleAfter DEF Faithful
  <2>5. QED
    BY <1>a, <1>b, <2>3, <2>4 DEF RoleMoves, IsAdmitted, ServedBy
<1>3. CASE /\ StartPending(c, Datagram(c, k))
           /\ generation' = generation + 1
           /\ probes' = probes \cup {[client |-> c, gen |-> generation',
                                      cfg |-> config, next |-> 1]}
  <2>1. Selecting(c)'
    <3>1. pending'[c].gen = generation + 1
      BY <1>3, <1>a DEF StartPending, TypeOK
    <3>2. generation + 1 # 0
      BY <1>a DEF TypeOK
    <3>3. QED
      BY <3>1, <3>2 DEF Selecting, NotPending
  <2>2. Selected(probes', results', c, config)
    <3> DEFINE p == [client |-> c, gen |-> generation', cfg |-> config, next |-> 1]
    <3>1. p \in probes' /\ p.client = c /\ p.cfg = config
      BY <1>3
    <3> HIDE DEF p
    <3>2. QED
      BY <3>1 DEF Selected
  <2>3. RoleOf(c)' = Role("selecting", config, None)
    BY <1>a, <2>1, <2>2, RoleAfter DEF Faithful
  <2>4. QED
    BY <1>a, <1>b, <2>3 DEF RoleMoves, IsAdmitted
<1>4. CASE ReceiveSingle(c, k)
  BY <1>1, <1>2, <1>4 DEF ReceiveSingle, SessionNotOpened
<1>5. CASE ReceiveSelect(c, k)
  BY <1>1, <1>3, <1>5 DEF ReceiveSelect
<1>6. QED
  BY <1>4, <1>5

LEMMA ReceiveMoves ==
  ASSUME Faithful, Faithful', NEW c \in Clients, NEW k \in Kinds, Receive(c, k),
         NEW x \in Clients
  PROVE  RoleMoves(x)
<1>1. CASE x = c /\ (ReceiveSingle(c, k) \/ ReceiveSelect(c, k))
  BY <1>1, AdmittedMoves
<1>2. CASE ~(x = c /\ (ReceiveSingle(c, k) \/ ReceiveSelect(c, k)))
  <2>1. ElseKept(x) /\ NoOfflineWork(work, x) /\ NoOfflineWork(work', x)
    BY <1>2, KnownKept, AdmissionKeepsOthers, ReceiveWork
  <2>2. CASE \/ fakes'[x] = NoFake
             \/ fakes[x] # NoFake /\ fakes'[x] # NoFake /\ fakes'[x].cfg = fakes[x].cfg
    BY <2>1, <2>2, SameRoleOrLeft
  <2>3. CASE /\ x = c /\ ReceiveOffline(c, k) /\ config \in Offline
             /\ fakes'[x] # NoFake /\ fakes'[x].cfg = config
    <3>1. RoleOf(c)' = Role("offline", config, None)
      BY <2>3, RoleAfter DEF Faithful
    <3>2. /\ ~draining /\ config # None
          /\ NoRole(c) \/ InOffline(c)
      BY <2>3, ReceiveWork, ArrivesType, NoneAssumption
      DEF ReceiveOffline, Unknown, NoRole, Relayed, Selecting, Faithful, Consistent
    <3>3. RoleOf(c).is \in {"none", "offline"}
      BY <3>2, RoleBefore DEF InOffline, Role, Faithful
    <3>4. QED
      BY <2>3, <3>1, <3>2, <3>3 DEF RoleMoves, IsAdmitted, ServedBy
  <2>4. QED
    BY <2>2, <2>3, ReceiveFakes
<1>3. QED
  BY <1>1, <1>2

\* A return path's end: its client leaves, if the session was still its own.
LEMMA PathMoves ==
  ASSUME Faithful, Faithful', NEW s \in Sockets, TimerFires(s) \/ PathEnds(s),
         NEW x \in Clients
  PROVE  RoleMoves(x)
<1> USE DEF PathOnly, loopVars, pendVars, taskVars
<1> DEFINE c == path[s].client
<1>a. /\ TypeOK /\ Consistent /\ OneRole /\ SessionsMatchPaths
      /\ UNCHANGED <<pending, probes, results, fakes, work>>
      /\ path[s] \in Path /\ path[s] # FreePath
      /\ \A z \in Sockets : z # s => path'[z] = path[z]
  <2>1. TypeOK /\ Consistent /\ OneRole /\ SessionsMatchPaths
    BY DEF Faithful, Consistent
  <2>2. UNCHANGED <<pending, probes, results, fakes, work>>
    BY DEF TimerFires, PathEnds
  <2>3. path[s] \in Path /\ path[s] # FreePath
    <3>1. path[s].state # "free"
      BY DEF TimerFires, PathEnds
    <3>2. QED
      BY <2>1, <3>1 DEF TypeOK, FreePath
  <2>4. \A z \in Sockets : z # s => path'[z] = path[z]
    BY <2>1 DEF TimerFires, PathEnds, TypeOK
  <2>5. QED
    BY <2>1, <2>2, <2>3, <2>4
<1>b. c \in Clients
  BY <1>a DEF Path
<1>1. CASE session[x] = s
  <2>1. x = c
    BY <1>1, <1>a, NoneAssumption DEF SessionsMatchPaths, Relayed
  <2>2. session' = [session EXCEPT ![c] = None]
    BY <1>1, <2>1 DEF TimerFires, PathEnds, Removable
  <2>3. Relayed(x)
    BY <1>1, NoneAssumption DEF Relayed
  <2>4. NoRole(x)'
    BY <1>a, <1>b, <2>1, <2>2, <2>3 DEF OneRole, NoRole, Relayed, Selecting, InOffline, TypeOK
  <2>5. RoleOf(x).is = "relayed"
    BY <1>a, <2>3, RoleBefore DEF Role
  <2>6. QED
    BY <2>4, <2>5, RoleAfter DEF Faithful, RoleMoves, HasLeft
<1>2. CASE session[x] # s
  <2>1. session'[x] = session[x]
    BY <1>2, <1>a, <1>b DEF TimerFires, PathEnds, Removable, TypeOK
  <2>2. Relayed(x) => path'[session[x]] = path[session[x]]
    BY <1>2, <1>a DEF TypeOK, Relayed
  <2>3. ElseKept(x)
    BY <1>a, <2>1, <2>2 DEF ElseKept, Selecting
  <2>4. QED
    BY <1>a, <2>3, SameRole DEF RoleMoves
<1>3. QED
  BY <1>1, <1>2

\* What passes on a path changes neither its target nor its configuration.
LEMMA TrafficKeeps ==
  ASSUME Faithful, Faithful', NEW s \in Sockets, NEW sent \in BOOLEAN,
         TargetReply(s, sent) \/ TargetError(s) \/ SessionIdles(s), NEW x \in Clients
  PROVE  RoleKept(x)
<1> USE DEF PathOnly, loopVars, pendVars, taskVars
<1>1. /\ path \in [Sockets -> Path] /\ session \in [Clients -> Sockets \cup {None}]
      /\ UNCHANGED <<session, pending, probes, results, fakes, work>>
  BY DEF TargetReply, TargetError, SessionIdles, Faithful, Consistent, TypeOK
<1>2. path[s] \in [state : {"receiving", "closing"}, client : Clients,
                   target : Targets, cfg : Configs, idle : BOOLEAN]
  <2>1. path[s].state = "receiving"
    BY DEF TargetReply, TargetError, SessionIdles
  <2>2. path[s] \in Path
    BY <1>1
  <2>3. QED
    BY <2>1, <2>2 DEF Path, FreePath
<1>3. path'[s].cfg = path[s].cfg /\ path'[s].target = path[s].target
      /\ \A z \in Sockets : z # s => path'[z] = path[z]
  <2>1. CASE TargetReply(s, sent)
    BY <1>1, <1>2, <2>1 DEF TargetReply
  <2>2. CASE TargetError(s)
    BY <1>1, <1>2, <2>2 DEF TargetError
  <2>3. CASE SessionIdles(s)
    BY <1>1, <1>2, <2>3 DEF SessionIdles
  <2>4. QED
    BY <2>1, <2>2, <2>3
<1>4. ElseKept(x)
  BY <1>1, <1>3 DEF ElseKept, Relayed, Selecting
<1>5. QED
  BY <1>1, <1>4, SameRole

\* A probe's outcome keeps its client waiting under the same configuration.
LEMMA ProbeKeeps ==
  ASSUME Faithful, Faithful', NEW p \in probes, ProbeAnswered(p) \/ ProbeFailed(p),
         NEW x \in Clients
  PROVE  RoleKept(x)
<1> USE DEF SelectionOnly, loopVars, pendVars
<1>1. /\ UNCHANGED <<session, path, pending, fakes, work>>
      /\ results \in Seq(Result) /\ p \in Selection
  BY DEF ProbeAnswered, ProbeFailed, Faithful, Consistent, TypeOK
<1>2. ASSUME NEW g \in Configs, Selected(probes, results, x, g)
      PROVE  Selected(probes', results', x, g)
  <2>1. ASSUME NEW t, probes' = probes \ {p},
               results' = Append(results, SelectionResult(p, t))
        PROVE  Selected(probes', results', x, g)
    <3>1. CASE p.client = x /\ p.cfg = g
      <4>1. LET n == Len(results) + 1
            IN  n \in DOMAIN results' /\ results'[n] = SelectionResult(p, t)
        BY <1>1, <2>1
      <4>2. SelectionResult(p, t).client = x /\ SelectionResult(p, t).cfg = g
        BY <3>1 DEF SelectionResult
      <4>3. QED
        BY <4>1, <4>2 DEF Selected
    <3>2. CASE \E q \in probes : q # p /\ q.client = x /\ q.cfg = g
      BY <2>1, <3>2 DEF Selected
    <3>3. CASE \E i \in DOMAIN results : results[i].client = x /\ results[i].cfg = g
      <4>1. \A i \in DOMAIN results : i \in DOMAIN results' /\ results'[i] = results[i]
        BY <1>1, <2>1
      <4>2. QED
        BY <3>3, <4>1 DEF Selected
    <3>4. QED
      BY <1>2, <3>1, <3>2, <3>3 DEF Selected
  <2>2. ASSUME NEW n, probes' = (probes \ {p}) \cup {[p EXCEPT !.next = n]},
               UNCHANGED results
        PROVE  Selected(probes', results', x, g)
    <3>1. LET q == [p EXCEPT !.next = n] IN q.client = p.client /\ q.cfg = p.cfg
      BY <1>1 DEF Selection
    <3>2. QED
      BY <1>2, <2>2, <3>1 DEF Selected
  <2>3. QED
    BY <2>1, <2>2 DEF ProbeAnswered, ProbeFailed
<1>3. ElseKept(x)
  BY <1>1, <1>2 DEF ElseKept, Selecting
<1>4. QED
  BY <1>1, <1>3, SameRole

\* Flushing into a handshake keeps it, under its configuration, or ends it.
LEMMA FlushMoves ==
  ASSUME Faithful, Faithful', OfflineNext, NEW x \in Clients
  PROVE  RoleMoves(x)
<1> USE DEF loopVars, pendVars, taskVars
<1>0. work \in Work /\ work.mode = "offline" /\ NoWork.mode = "none"
  BY DEF OfflineNext, Faithful, Consistent, TypeOK, NoWork
<1>1a. PICK c \in Clients : c = work.client
  BY <1>0 DEF Work
<1>1b. work'.mode = "offline" => work'.client = work.client /\ work'.cfg = work.cfg
  <2>1. work \in [mode : {"forward", "offline"}, client : Clients,
                  sock : Sockets \cup {None}, cfg : Configs \cup {None},
                  queue : Queues]
    BY <1>0 DEF Work
  <2>2. \A q : LET w == [work EXCEPT !.queue = q]
               IN  w.client = work.client /\ w.cfg = work.cfg
    BY <2>1
  <2>3. QED
    BY <1>0, <2>2 DEF OfflineNext, NextDatagram
<1>a. /\ TypeOK /\ Consistent /\ OfflineFits /\ fakes \in [Clients -> Fake]
      /\ UNCHANGED <<session, path, pending, probes, results>>
      /\ work.mode = "offline"
      /\ work'.mode = "offline" => work'.client = c /\ work'.cfg = work.cfg
  BY <1>0, <1>1a, <1>1b DEF OfflineNext, Faithful, Consistent, TypeOK
<1>b. PICK o \in OfflineOutcomes(fakes, c, Head(work.queue), work.cfg) :
        fakes' = [fakes EXCEPT ![c] = o.fake]
  BY <1>1a DEF OfflineNext
<1>c. o.fake = NoFake \/ o.fake.cfg = work.cfg
  BY <1>a, <1>1a, OutcomeFits DEF OfflineFits
<1>1. CASE x # c
  <2>1. fakes'[x] = fakes[x]
    BY <1>1, <1>a, <1>b
  <2>2. ElseKept(x) /\ NoOfflineWork(work, x) /\ NoOfflineWork(work', x)
    BY <1>1, <1>a, <1>1a DEF ElseKept, Selecting, NoOfflineWork
  <2>3. QED
    BY <2>1, <2>2, SameRole DEF RoleMoves
<1>2. CASE x = c
  <2>1. RoleOf(c) = Role("offline", work.cfg, None) /\ ~Relayed(c) /\ ~Selecting(c)
    BY <1>a, <1>1a, RoleBefore DEF OfflineFits, Consistent, OneRole, InOffline
  <2>2. fakes'[c] = o.fake
    BY <1>a, <1>b
  <2>3. CASE o.fake # NoFake
    BY <1>2, <1>c, <2>1, <2>2, <2>3, RoleAfter DEF Faithful, RoleMoves, RoleKept
  <2>4. CASE o.fake = NoFake /\ work'.mode = "offline"
    BY <1>2, <1>a, <2>1, <2>2, <2>4, RoleAfter DEF Faithful, RoleMoves, RoleKept
  <2>5. CASE o.fake = NoFake /\ work'.mode # "offline"
    <3>1. NoRole(c)'
      BY <1>a, <2>1, <2>2, <2>5 DEF NoRole, Relayed, Selecting, InOffline
    <3>2. RoleOf(c).is = "offline"
      BY <2>1 DEF Role
    <3>3. QED
      BY <1>2, <1>a, <3>1, <3>2, RoleAfter DEF Faithful, RoleMoves, HasLeft
  <2>6. QED
    BY <2>3, <2>4, <2>5
<1>3. QED
  BY <1>1, <1>2

\* The tick forgets the handshakes that expired.
LEMMA TickMoves ==
  ASSUME Faithful, Faithful', MaintenanceTick, NEW x \in Clients
  PROVE  RoleMoves(x)
<1> USE DEF pendVars, taskVars
<1>1. /\ UNCHANGED <<session, path, pending, probes, results, work>>
      /\ work = NoWork /\ NoWork.mode = "none"
      /\ fakes'[x] = Retained(fakes)[x]
  BY DEF MaintenanceTick, AtSelect, NoWork
<1>2. ElseKept(x) /\ NoOfflineWork(work, x) /\ NoOfflineWork(work', x)
  BY <1>1 DEF ElseKept, Selecting, NoOfflineWork
<1>3. QED
  BY <1>1, <1>2, RetainedOnlyForgets, SameRoleOrLeft

\* Sending on, and the growing age of a handshake, move nobody.
LEMMA OthersKeep ==
  ASSUME Faithful, Faithful', NEW x \in Clients,
         ForwardNext \/ (\E c \in Clients : FakeIdles(c))
           \/ UNCHANGED <<session, path, pending, probes, results, fakes, work>>
  PROVE  RoleKept(x)
<1> USE DEF loopVars, pendVars, taskVars
<1>1. ElseKept(x)
  <2>1. UNCHANGED <<session, path, pending, probes, results>>
    BY DEF ForwardNext, FakeIdles
  <2>2. QED
    BY <2>1 DEF ElseKept, Selecting
<1>2. CASE ForwardNext
  <2>1. NoOfflineWork(work, x) /\ NoOfflineWork(work', x) /\ UNCHANGED fakes
    <3>1. work.mode = "forward" /\ UNCHANGED fakes
      BY <1>2 DEF ForwardNext
    <3>2. work \in [mode : {"forward", "offline"}, client : Clients,
                    sock : Sockets \cup {None}, cfg : Configs \cup {None},
                    queue : Queues]
      BY <3>1 DEF Faithful, Consistent, TypeOK, Work, NoWork
    <3>3. /\ [work EXCEPT !.queue = Tail(work.queue)].mode = work.mode
          /\ NoWork.mode = "none"
      BY <3>2 DEF NoWork
    <3>4. work'.mode # "offline"
      <4>1. NextDatagram
        BY <1>2 DEF ForwardNext
      <4>2. QED
        BY <3>1, <3>3, <4>1 DEF NextDatagram
    <3>5. QED
      BY <3>1, <3>4 DEF NoOfflineWork
  <2>2. QED
    BY <1>1, <2>1, SameRole
<1>3. ASSUME NEW c \in Clients, FakeIdles(c) PROVE RoleKept(x)
  <2>1. /\ UNCHANGED work /\ fakes \in [Clients -> Fake] /\ fakes[c] # NoFake
        /\ fakes' = [fakes EXCEPT ![c].life = "idle"]
    BY <1>3 DEF FakeIdles, NoFake, Faithful, Consistent, TypeOK
  <2>2. /\ fakes'[c].cfg = fakes[c].cfg /\ fakes'[c] # NoFake
        /\ \A y \in Clients : y # c => fakes'[y] = fakes[y]
    BY <2>1 DEF Fake, NoFake
  <2>3. QED
    BY <1>1, <2>1, <2>2, SameRole
<1>4. QED
  BY <1>1, <1>2, <1>3, SameRole

-----------------------------------------------------------------------------
\* The relay's steps as steps of the contract.
LEMMA ServeStep ==
  ASSUME \A c \in Clients : RoleMoves(c), status # "returned", status' # "returned",
         UNCHANGED <<config, draining>>
  PROVE  Contract!Next
<1>1. \A c \in Clients :
        \/ RoleKept(c) \/ IsAdmitted(c) \/ IsResolved(c) \/ HasLeft(c)
  BY DEF RoleMoves
<1>2. ASSUME NEW c \in Clients, NEW g, ServedBy(c, g) PROVE Contract!ServedUnder(c, g)
  BY <1>2 DEF ServedBy, Contract!ServedUnder, Contract!TargetsIn, Contract!Relay,
    Contract!ShownOffline, Role
<1>3. ASSUME NEW c \in Clients, IsAdmitted(c) PROVE Contract!Admit(c)
  BY <1>2, <1>3 DEF IsAdmitted, Contract!Admit, Contract!Waiting, Role
<1>4. ASSUME NEW c \in Clients, IsResolved(c) PROVE Contract!Resolve(c)
  BY <1>2, <1>4 DEF IsResolved, Contract!Resolve, Contract!Unserved, Role
<1>5. ASSUME NEW c \in Clients, HasLeft(c) PROVE Contract!Leave(c)
  BY <1>5 DEF HasLeft, Contract!Leave, Contract!Unserved, Role
<1>6. Contract!Serve
  BY <1>1, <1>3, <1>4, <1>5 DEF Contract!Serve, RoleKept
<1>7. QED
  BY <1>6 DEF Contract!Next

LEMMA KeptStep ==
  ASSUME \A c \in Clients : RoleKept(c), status # "returned", status' # "returned",
         \/ config' \in Configs /\ UNCHANGED draining
         \/ draining' = TRUE /\ UNCHANGED config
         \/ UNCHANGED <<config, draining>>
  PROVE  [Contract!Next]_Contract!vars
<1>1. UNCHANGED [c \in Clients |-> RoleOf(c)]
  BY DEF RoleKept
<1>2. CASE config' \in Configs /\ UNCHANGED draining
  BY <1>1, <1>2 DEF Contract!Next, Contract!Reconfigure
<1>3. CASE draining' = TRUE /\ UNCHANGED config
  BY <1>1, <1>3 DEF Contract!Next, Contract!Close
<1>4. CASE UNCHANGED <<config, draining>>
  BY <1>1, <1>4 DEF Contract!vars
<1>5. QED
  BY <1>2, <1>3, <1>4

LEMMA EndStep ==
  ASSUME Consistent, Faithful', status # "returned", status' = "returned",
         draining \/ config = None, UNCHANGED <<config, draining>>,
         \A c \in Clients : ~Relayed(c) /\ ~Selecting(c)
  PROVE  Contract!Next
<1>1. \A c \in Clients : RoleOf(c).is \in {"none", "offline"}
  <2> SUFFICES ASSUME NEW c \in Clients PROVE RoleOf(c).is \in {"none", "offline"}
    OBVIOUS
  <2>1. NoRole(c) \/ InOffline(c)
    BY DEF NoRole
  <2>2. QED
    BY <2>1, RoleBefore DEF InOffline, Role
<1>2. \A c \in Clients : RoleOf(c)' = Role("none", None, None)
  BY RoleAfter DEF Faithful, OutsideItsLife
<1>3. [c \in Clients |-> RoleOf(c)]' = [c \in Clients |-> Contract!Unserved]
  BY <1>2 DEF Role, Contract!Unserved
<1>4. QED
  BY <1>1, <1>3 DEF Contract!Next, Contract!End

\* A relay that does not run has no clients to move.
LEMMA RestStep ==
  ASSUME Faithful, Faithful', status # "running", [Next]_vars
  PROVE  [Contract!Next]_Contract!vars
<1>1. /\ UNCHANGED <<pending, fakes, work, draining, probes, results>>
      /\ \A c \in Clients : session'[c] \in {None, session[c]}
      /\ status' = status \/ status = "starting"
      /\ config' = config \/ (status = "starting" /\ status' = "running")
  BY NotRunning DEF Faithful
<1>2. CASE status = "failed"
  <2>1. UNCHANGED <<session, path, config, status>>
    BY <1>2, <1>1 DEF Next, Update, Loop, Tasks, Time, Publish, Start, HandleUpdate,
      MaintenanceTick, HandleResult, ForwardNext, OfflineNext, ReceiveError, Receive,
      ReceiveFake, ReceiveExisting, ReceivePending, ReceiveDraining, ReceiveOffline,
      ReceiveSingle, ReceiveSelect, NewClient, Arrives, AtSelect, ProbeAnswered,
      ProbeFailed, ReachabilityProbe, TargetReply, TargetError, TimerFires, PathEnds,
      SessionIdles, FakeIdles, PathOnly, vars, loopVars
  <2>2. \A c \in Clients : RoleKept(c)
    BY <1>1, <2>1, OthersKeep
  <2>3. QED
    BY <1>1, <1>2, <2>1, <2>2, KeptStep
<1>3. CASE status \in {"starting", "returned"}
  <2>1. \A c \in Clients : NoRole(c)
    BY <1>3 DEF Faithful, OutsideItsLife
  <2>2. \A c \in Clients : NoRole(c)'
    BY <1>1, <2>1 DEF NoRole, Relayed, Selecting, InOffline
  <2>3. \A c \in Clients : RoleKept(c)
    BY <2>1, <2>2, RoleBefore, RoleAfter DEF Faithful, RoleKept
  <2>4. UNCHANGED [c \in Clients |-> RoleOf(c)]
    BY <2>3 DEF RoleKept
  <2>5. CASE status = "returned"
    BY <1>1, <2>4, <2>5 DEF Contract!vars
  <2>6. CASE status = "starting" /\ status' = "returned"
    BY <1>1, <2>1, <2>6, EndStep DEF NoRole, Faithful, OutsideItsLife
  <2>7. CASE status = "starting" /\ status' # "returned"
    <3>1. config' = config \/ config' \in Configs
      BY <1>1 DEF Faithful, Consistent, TypeOK
    <3>2. QED
      BY <1>1, <2>3, <2>7, <3>1, KeptStep
  <2>8. QED
    BY <1>3, <2>5, <2>6, <2>7
<1>4. QED
  BY <1>2, <1>3 DEF Faithful, Consistent, TypeOK

LEMMA ContractStep ==
  ASSUME Faithful, Faithful', [Next]_vars
  PROVE  [Contract!Next]_Contract!vars
<1> USE DEF updateVars, loopVars, pendVars, taskVars
<1>1. CASE status # "running"
  BY <1>1, RestStep
<1>2. CASE status = "running"
  <2>1. CASE HandleUpdate
    <3>1. \A c \in Clients : RoleKept(c)
      BY <2>1, OthersKeep DEF HandleUpdate
    <3>2. /\ status' = status
          /\ \/ config' \in Configs /\ UNCHANGED draining
             \/ draining' = TRUE /\ UNCHANGED config
      BY <2>1 DEF HandleUpdate, Faithful, Consistent, TypeOK
    <3>3. QED
      BY <1>2, <3>1, <3>2, KeptStep
  <2>2. CASE MaintenanceTick
    <3>1. UNCHANGED <<config, draining>> /\ \A c \in Clients : RoleMoves(c)
      BY <2>2, TickMoves DEF MaintenanceTick
    <3>2. CASE status' = "returned"
      <4>1. draining /\ \A c \in Clients : ~Relayed(c) /\ ~Selecting(c)
        BY <1>2, <2>2, <3>2 DEF MaintenanceTick, Relayed, Selecting
      <4>2. QED
        BY <1>2, <3>1, <3>2, <4>1, EndStep DEF Faithful
    <3>3. CASE status' # "returned"
      BY <1>2, <3>1, <3>3, ServeStep
    <3>4. QED
      BY <3>2, <3>3
  <2>3. CASE HandleResult
    <3>1. UNCHANGED <<config, draining, status>>
      BY <2>3 DEF HandleResult
    <3>2. QED
      BY <1>2, <2>3, <3>1, ResultMoves, ServeStep
  <2>4. CASE OfflineNext
    <3>1. UNCHANGED <<config, draining, status>>
      BY <2>4 DEF OfflineNext
    <3>2. QED
      BY <1>2, <2>4, <3>1, FlushMoves, ServeStep
  <2>5. ASSUME NEW c \in Clients, NEW k \in Kinds, Receive(c, k)
        PROVE  [Contract!Next]_Contract!vars
    <3>1. UNCHANGED <<config, draining, status>>
      BY <2>5, ReceiveWork
    <3>2. QED
      BY <1>2, <2>5, <3>1, ReceiveMoves, ServeStep
  <2>6. ASSUME NEW s \in Sockets, TimerFires(s) \/ PathEnds(s)
        PROVE  [Contract!Next]_Contract!vars
    <3>1. UNCHANGED <<config, draining, status>>
      BY <2>6 DEF TimerFires, PathEnds, PathOnly
    <3>2. QED
      BY <1>2, <2>6, <3>1, PathMoves, ServeStep
  <2>7. ASSUME NEW s \in Sockets, NEW sent \in BOOLEAN,
               TargetReply(s, sent) \/ TargetError(s) \/ SessionIdles(s)
        PROVE  [Contract!Next]_Contract!vars
    <3>1. UNCHANGED <<config, draining, status>>
      BY <2>7 DEF TargetReply, TargetError, SessionIdles, PathOnly
    <3>2. QED
      BY <1>2, <2>7, <3>1, TrafficKeeps, KeptStep
  <2>8. ASSUME NEW p \in probes, ProbeAnswered(p) \/ ProbeFailed(p)
        PROVE  [Contract!Next]_Contract!vars
    <3>1. UNCHANGED <<config, draining, status>>
      BY <2>8 DEF ProbeAnswered, ProbeFailed, SelectionOnly
    <3>2. QED
      BY <1>2, <2>8, <3>1, ProbeKeeps, KeptStep
  <2>9. CASE ForwardNext \/ \E c \in Clients : FakeIdles(c)
    <3>1. UNCHANGED <<config, draining, status>>
      BY <2>9 DEF ForwardNext, FakeIdles
    <3>2. QED
      BY <1>2, <2>9, <3>1, OthersKeep, KeptStep
  <2>10. CASE \/ Update \/ ReceiveError \/ UNCHANGED vars
              \/ \E up \in BOOLEAN : ReachabilityProbe(up)
    <3>1. /\ UNCHANGED <<session, path, pending, probes, results, fakes, work,
                         config, draining>>
          /\ status' \in {status, "failed"}
      BY <2>10 DEF Update, Publish, ReceiveError, ReachabilityProbe, vars
    <3>2. QED
      BY <1>2, <3>1, OthersKeep, KeptStep
  <2>11. ~Start
    BY <1>2 DEF Start
  <2>12. QED
    BY <2>1, <2>2, <2>3, <2>4, <2>5, <2>6, <2>7, <2>8, <2>9, <2>10, <2>11
    DEF Next, Loop, Tasks, Time
<1>3. QED
  BY <1>1, <1>2

\* The loop and its tasks implement RelayContract: through every reload, drain
\* and expiry a client keeps the configuration it was admitted under and the
\* target selected for it until its service ends, a closed relay admits nobody,
\* and it ends only when it serves nobody (run_reconfigurable).
THEOREM RelayKeepsContract == Spec => KeepsContract
<1>1. Init => Faithful
  BY InitFaithful
<1>2. Faithful /\ [Next]_vars => Faithful'
  BY FaithfulStep
<1>3. Init => Contract!Init
  <2> SUFFICES ASSUME Init PROVE Contract!Init
    OBVIOUS
  <2>1. Consistent /\ \A c \in Clients : NoRole(c)
    BY InitFaithful DEF Faithful, OutsideItsLife, Init
  <2>2. \A c \in Clients : RoleOf(c) = Contract!Unserved
    BY <2>1, RoleBefore DEF Role, Contract!Unserved
  <2>3. QED
    BY <2>2 DEF Contract!Init, Init
<1>4. Faithful /\ Faithful' /\ [Next]_vars => [Contract!Next]_Contract!vars
  BY ContractStep
<1>5. QED
  BY <1>1, <1>2, <1>3, <1>4, PTL DEF Spec, KeepsContract, Contract!Spec
-----------------------------------------------------------------------------
(* The limits                                                                *)

LEMMA SizeOf == ASSUME NEW d \in Datagrams PROVE Size[d.kind] \in Nat
  BY LimitAssumption DEF Datagrams

\* The bytes of a queue, one datagram after the other.
LEMMA BytesType ==
  ASSUME NEW queue \in Seq(Datagrams)
  PROVE  BytesOf(queue) \in Nat
<1> DEFINE sizes == [i \in DOMAIN queue |-> Size[queue[i].kind]]
<1>1. DOMAIN queue = 1..Len(queue) /\ IsFiniteSet(DOMAIN queue)
  BY FS_Interval
<1>2. \A i \in DOMAIN queue : sizes[i] \in Nat
  BY <1>1, SizeOf
<1>3. DOMAIN sizes = DOMAIN queue
  OBVIOUS
<1> HIDE DEF sizes
<1>4. SumFunctionOnSet(sizes, DOMAIN queue) \in Nat
  BY <1>1, <1>2, SumType
<1>5. QED
  BY <1>3, <1>4 DEF BytesOf, SumFunction, sizes

LEMMA BytesOfNothing == BytesOf(<<>>) = 0
  BY SumEmpty DEF BytesOf, SumFunction

LEMMA BytesOfAppend ==
  ASSUME NEW queue \in Seq(Datagrams), NEW d \in Datagrams
  PROVE  BytesOf(Append(queue, d)) = BytesOf(queue) + Size[d.kind]
<1> DEFINE longer == Append(queue, d)
           n == Len(queue) + 1
           sizes == [i \in DOMAIN queue |-> Size[queue[i].kind]]
           sizesLonger == [i \in DOMAIN longer |-> Size[longer[i].kind]]
<1>1. /\ DOMAIN queue = 1..Len(queue) /\ DOMAIN longer = 1..n
      /\ n \in DOMAIN longer /\ DOMAIN longer \ {n} = DOMAIN queue
      /\ longer[n] = d /\ \A i \in DOMAIN queue : longer[i] = queue[i]
      /\ \A i \in DOMAIN longer : longer[i] \in Datagrams
  <2>1. Len(queue) \in Nat /\ DOMAIN queue = 1..Len(queue)
    OBVIOUS
  <2>2. /\ longer \in Seq(Datagrams) /\ Len(longer) = n
        /\ \A i \in 1..n : longer[i] = IF i <= Len(queue) THEN queue[i] ELSE d
    BY AppendProperties
  <2> HIDE DEF longer
  <2>3. DOMAIN longer = 1..n
    BY <2>2
  <2>4. (1..n) \ {n} = 1..Len(queue) /\ n \in 1..n
    BY <2>1
  <2>5. longer[n] = d /\ \A i \in DOMAIN queue : longer[i] = queue[i]
    BY <2>1, <2>2, <2>4
  <2>6. \A i \in DOMAIN longer : longer[i] \in Datagrams
    BY <2>2
  <2>7. QED
    BY <2>1, <2>3, <2>4, <2>5, <2>6
<1>2. IsFiniteSet(DOMAIN queue) /\ IsFiniteSet(DOMAIN longer)
  BY <1>1, FS_Interval
<1> HIDE DEF longer, n
<1>3. /\ \A i \in DOMAIN longer : sizesLonger[i] \in Int
      /\ \A i \in DOMAIN queue : sizesLonger[i] = sizes[i]
      /\ sizesLonger[n] = Size[d.kind]
      /\ DOMAIN sizesLonger = DOMAIN longer /\ DOMAIN sizes = DOMAIN queue
  BY <1>1, SizeOf
<1> HIDE DEF sizes, sizesLonger
<1>4. SumFunctionOnSet(sizesLonger, DOMAIN longer)
        = Size[d.kind] + SumFunctionOnSet(sizesLonger, DOMAIN queue)
  <2> DEFINE S == DOMAIN longer
  <2>1. IsFiniteSet(S) /\ n \in S /\ \A i \in S : sizesLonger[i] \in Int
    BY <1>1, <1>2, <1>3
  <2> HIDE DEF S
  <2>2. SumFunctionOnSet(sizesLonger, S)
          = sizesLonger[n] + SumFunctionOnSet(sizesLonger, S \ {n})
    BY <2>1, SumRemoves
  <2>3. QED
    BY <1>1, <1>3, <2>2 DEF S
<1>5. SumFunctionOnSet(sizesLonger, DOMAIN queue)
        = SumFunctionOnSet(sizes, DOMAIN queue)
  BY <1>2, <1>3, SumAgrees
<1>6. /\ BytesOf(longer) = SumFunctionOnSet(sizesLonger, DOMAIN longer)
      /\ BytesOf(queue) = SumFunctionOnSet(sizes, DOMAIN queue)
  BY <1>3 DEF BytesOf, SumFunction, sizes, sizesLonger
<1>7. BytesOf(queue) \in Nat /\ Size[d.kind] \in Nat
  BY BytesType, SizeOf
<1>8. QED
  BY <1>4, <1>5, <1>6, <1>7 DEF longer

\* What each client has waiting.
Waiting(p) == [c \in Clients |-> BytesOf(p[c].queue)]

LEMMA WaitingType ==
  ASSUME NEW p \in [Clients -> Pending], NEW c \in Clients
  PROVE  p[c].queue \in Seq(Datagrams) /\ Waiting(p)[c] \in Nat
<1>1. p[c].queue \in Seq(Datagrams)
  <2>1. CASE p[c] = NotPending
    BY <2>1 DEF NotPending
  <2>2. CASE p[c] \in [gen : Generations, queue : Queues]
    BY <2>2 DEF Queues
  <2>3. QED
    BY <2>1, <2>2 DEF Pending
<1>2. QED
  BY <1>1, BytesType DEF Waiting

\* One client's queue changes, and the budget with it by as much.
LEMMA BudgetMoves ==
  ASSUME NEW p \in [Clients -> Pending], NEW q \in [Clients -> Pending],
         NEW c \in Clients, \A x \in Clients : x # c => q[x] = p[x]
  PROVE  /\ SumFunction(Waiting(q)) \in Nat
         /\ SumFunction(Waiting(q)) = SumFunction(Waiting(p))
              - BytesOf(p[c].queue) + BytesOf(q[c].queue)
<1>1. /\ DOMAIN Waiting(p) = Clients /\ DOMAIN Waiting(q) = Clients
      /\ Waiting(p)[c] = BytesOf(p[c].queue)
      /\ Waiting(q)[c] = BytesOf(q[c].queue)
      /\ \A x \in Clients : x # c => Waiting(q)[x] = Waiting(p)[x]
  BY DEF Waiting
<1>2. \A x \in Clients : Waiting(p)[x] \in Nat /\ Waiting(q)[x] \in Nat
  BY WaitingType
<1>3. SumFunctionOnSet(Waiting(q), Clients)
        = SumFunctionOnSet(Waiting(p), Clients) - Waiting(p)[c] + Waiting(q)[c]
  BY <1>1, <1>2, ClientAssumption, SumUpdates
<1>4. SumFunctionOnSet(Waiting(q), Clients) \in Nat
  BY <1>2, ClientAssumption, SumType
<1>5. QED
  BY <1>1, <1>3, <1>4 DEF SumFunction

\* A set of clients that gains at most one.
LEMMA OneMore ==
  ASSUME NEW S \in SUBSET Clients, NEW T \in SUBSET Clients, NEW c \in Clients,
         T \subseteq S \cup {c}
  PROVE  /\ Cardinality(S) \in Nat /\ Cardinality(T) \in Nat
         /\ Cardinality(T) <= Cardinality(S) + 1
         /\ T \subseteq S => Cardinality(T) <= Cardinality(S)
<1>1. IsFiniteSet(S) /\ IsFiniteSet(T) /\ IsFiniteSet(S \cup {c})
  BY ClientAssumption, FS_Subset
<1>2. Cardinality(S) \in Nat /\ Cardinality(T) \in Nat
  BY <1>1, FS_CardinalityType
<1>3. Cardinality(S \cup {c}) <= Cardinality(S) + 1
  BY <1>1, <1>2, FS_AddElement
<1>4. Cardinality(T) <= Cardinality(S \cup {c})
  BY <1>1, FS_Subset
<1>5. Cardinality(S \cup {c}) \in Nat
  BY <1>1, FS_CardinalityType
<1>6. T \subseteq S => Cardinality(T) <= Cardinality(S)
  BY <1>1, FS_Subset
<1>7. QED
  BY <1>2, <1>3, <1>4, <1>5, <1>6

\* The part of WithinLimits about the queues, and the part about the
\* handshakes.
QueuesFit ==
  /\ bytes \in Nat
  /\ bytes = SumFunction(Waiting(pending))
  /\ bytes <= MaxPendingBytes
  /\ PendingCount <= MaxPendingClients
  /\ \A c \in Clients : Len(pending[c].queue) <= MaxPendingDatagrams
FakesFit == FakeCount(fakes) <= MaxFakeSessions

LEMMA TwoParts == WithinLimits <=> QueuesFit /\ FakesFit
  BY DEF WithinLimits, QueuesFit, FakesFit, Waiting

LEMMA InitWithinLimits == Init => WithinLimits
<1> SUFFICES ASSUME Init PROVE QueuesFit /\ FakesFit
  BY TwoParts
<1>1. \A c \in Clients : pending[c] = NotPending /\ pending[c].queue = <<>>
  BY DEF Init, NotPending
<1>2. SumFunction(Waiting(pending)) = 0
  <2>1. \A c \in Clients : Waiting(pending)[c] = 0
    BY <1>1, BytesOfNothing DEF Waiting
  <2>2. DOMAIN Waiting(pending) = Clients
    BY DEF Waiting
  <2>3. QED
    BY <2>1, <2>2, ClientAssumption, SumOfZeros DEF SumFunction
<1>3. PendingCount = 0 /\ FakeCount(fakes) = 0
  <2>1. {c \in Clients : pending[c] # NotPending} = {}
    BY <1>1
  <2>2. {c \in Clients : fakes[c] # NoFake} = {}
    BY DEF Init
  <2>3. QED
    BY <2>1, <2>2, FS_EmptySet DEF PendingCount, FakeCount
<1>4. QED
  BY <1>1, <1>2, <1>3, LimitAssumption DEF QueuesFit, FakesFit, Init

\* A change of one client's queue that keeps the limits.
LEMMA QueueChanges ==
  ASSUME TypeOK, TypeOK', QueuesFit, NEW c \in Clients,
         \A x \in Clients : x # c => pending'[x] = pending[x],
         bytes' = bytes - BytesOf(pending[c].queue) + BytesOf(pending'[c].queue),
         bytes' <= MaxPendingBytes,
         Len(pending'[c].queue) <= MaxPendingDatagrams,
         \/ pending[c] # NotPending
         \/ PendingCount < MaxPendingClients
  PROVE  QueuesFit'
<1>1. pending \in [Clients -> Pending] /\ pending' \in [Clients -> Pending]
  BY DEF TypeOK
<1>2. bytes' = SumFunction(Waiting(pending')) /\ bytes' \in Nat
  <2> DEFINE p == pending  q == pending'
  <2>1. /\ p \in [Clients -> Pending] /\ q \in [Clients -> Pending]
        /\ \A x \in Clients : x # c => q[x] = p[x]
    BY <1>1
  <2> HIDE DEF p, q
  <2>2. /\ SumFunction(Waiting(q)) \in Nat
        /\ SumFunction(Waiting(q)) = SumFunction(Waiting(p))
             - BytesOf(p[c].queue) + BytesOf(q[c].queue)
    BY <2>1, BudgetMoves
  <2>3. QED
    BY <2>2 DEF QueuesFit, p, q
<1>3. PendingCount' <= MaxPendingClients
  <2> DEFINE S == {x \in Clients : pending[x] # NotPending}
             T == {x \in Clients : pending'[x] # NotPending}
  <2>1. /\ S \in SUBSET Clients /\ T \in SUBSET Clients /\ T \subseteq S \cup {c}
        /\ pending[c] # NotPending => T \subseteq S
    OBVIOUS
  <2>2. Cardinality(S) = PendingCount /\ Cardinality(T) = PendingCount'
    BY DEF PendingCount
  <2> HIDE DEF S, T
  <2>3. /\ Cardinality(S) \in Nat /\ Cardinality(T) \in Nat
        /\ Cardinality(T) <= Cardinality(S) + 1
        /\ T \subseteq S => Cardinality(T) <= Cardinality(S)
    BY <2>1, OneMore
  <2>4. QED
    BY <2>1, <2>2, <2>3, LimitAssumption DEF QueuesFit
<1>4. \A x \in Clients : Len(pending'[x].queue) <= MaxPendingDatagrams
  BY DEF QueuesFit
<1>5. QED
  BY <1>2, <1>3, <1>4 DEF QueuesFit

LEMMA StartFits ==
  ASSUME TypeOK, TypeOK', QueuesFit, NEW c \in Clients, NEW d \in Datagrams,
         pending[c] = NotPending, HasRoom(d), StartPending(c, d)
  PROVE  QueuesFit'
<1>1. /\ pending[c].queue = <<>> /\ pending'[c].queue = <<d>>
      /\ \A x \in Clients : x # c => pending'[x] = pending[x]
  BY DEF TypeOK, NotPending, StartPending
<1>2. BytesOf(<<>>) = 0 /\ BytesOf(<<d>>) = Size[d.kind]
  <2>1. Append(<<>>, d) = <<d>> /\ <<>> \in Seq(Datagrams)
    OBVIOUS
  <2>2. BytesOf(Append(<<>>, d)) = BytesOf(<<>>) + Size[d.kind]
    BY <2>1, BytesOfAppend
  <2>3. QED
    BY <2>1, <2>2, SizeOf, BytesOfNothing
<1>3. Len(<<d>>) <= MaxPendingDatagrams
  BY LimitAssumption
<1>4. bytes \in Nat /\ Size[d.kind] \in Nat
  BY SizeOf DEF QueuesFit
<1>5. QED
  <2>1. /\ bytes' = bytes + Size[d.kind] /\ bytes + Size[d.kind] <= MaxPendingBytes
        /\ PendingCount < MaxPendingClients
    BY DEF HasRoom, StartPending
  <2>2. bytes' = bytes - BytesOf(pending[c].queue) + BytesOf(pending'[c].queue)
    BY <1>1, <1>2, <1>4, <2>1
  <2>3. bytes' <= MaxPendingBytes /\ Len(pending'[c].queue) <= MaxPendingDatagrams
    BY <1>1, <1>3, <2>1
  <2>4. QED
    BY <1>1, <2>1, <2>2, <2>3, QueueChanges

LEMMA EnqueueFits ==
  ASSUME TypeOK, TypeOK', QueuesFit, NEW c \in Clients, NEW d \in Datagrams,
         pending[c] # NotPending, Enqueue(c, d)
  PROVE  QueuesFit'
<1>1. CASE UNCHANGED <<pending, bytes>>
  BY <1>1 DEF QueuesFit, PendingCount
<1>2. CASE ~ UNCHANGED <<pending, bytes>>
  <2>1. /\ pending' = [pending EXCEPT ![c].queue = Append(@, d)]
        /\ bytes' = bytes + Size[d.kind]
        /\ ~ (Len(pending[c].queue) >= MaxPendingDatagrams)
        /\ ~ (bytes + Size[d.kind] > MaxPendingBytes)
    BY <1>2 DEF Enqueue
  <2>2. pending[c] \in [gen : Generations, queue : Queues]
    BY DEF TypeOK, Pending
  <2>3. /\ pending[c].queue \in Seq(Datagrams)
        /\ pending'[c].queue = Append(pending[c].queue, d)
        /\ \A x \in Clients : x # c => pending'[x] = pending[x]
    BY <2>1, <2>2 DEF TypeOK, Queues
  <2>4. /\ BytesOf(pending'[c].queue) = BytesOf(pending[c].queue) + Size[d.kind]
        /\ BytesOf(pending[c].queue) \in Nat
    BY <2>3, BytesOfAppend, BytesType
  <2>5. /\ Len(Append(pending[c].queue, d)) = Len(pending[c].queue) + 1
        /\ Len(pending[c].queue) \in Nat
    BY <2>3
  <2>6. bytes \in Nat /\ Size[d.kind] \in Nat
    BY SizeOf DEF QueuesFit
  <2>7. /\ Len(pending'[c].queue) <= MaxPendingDatagrams
        /\ bytes' <= MaxPendingBytes
        /\ bytes' = bytes - BytesOf(pending[c].queue) + BytesOf(pending'[c].queue)
    <3> DEFINE now == Len(pending[c].queue)  held == BytesOf(pending[c].queue)
    <3>1. now \in Nat /\ ~ (now >= MaxPendingDatagrams) /\ MaxPendingDatagrams \in Nat
      BY <2>1, <2>5, LimitAssumption
    <3>2. now + 1 <= MaxPendingDatagrams
      <4> HIDE DEF now
      <4>1. QED
        BY <3>1
    <3>3. Len(pending'[c].queue) <= MaxPendingDatagrams
      BY <2>3, <2>5, <3>2
    <3>4. bytes + Size[d.kind] <= MaxPendingBytes
      BY <2>1, <2>6, LimitAssumption
    <3>5. /\ held \in Nat /\ BytesOf(pending'[c].queue) = held + Size[d.kind]
      BY <2>4
    <3> HIDE DEF held
    <3>6. bytes' = bytes - held + BytesOf(pending'[c].queue)
      BY <2>1, <2>6, <3>5
    <3>7. QED
      BY <2>1, <3>3, <3>4, <3>6 DEF held
  <2>8. QED
    BY <2>3, <2>7, QueueChanges
<1>3. QED
  BY <1>1, <1>2

LEMMA RemovalFits ==
  ASSUME TypeOK, TypeOK', QueuesFit, NEW c \in Clients, pending[c] # NotPending,
         RemovePending(c)
  PROVE  QueuesFit'
<1>1. /\ pending'[c].queue = <<>>
      /\ \A x \in Clients : x # c => pending'[x] = pending[x]
      /\ bytes' = bytes - BytesOf(pending[c].queue)
  BY DEF TypeOK, NotPending, RemovePending
<1>2. BytesOf(pending[c].queue) \in Nat /\ BytesOf(<<>>) = 0
  BY WaitingType, BytesType, BytesOfNothing DEF TypeOK
<1>3. Len(<<>>) <= MaxPendingDatagrams
  BY LimitAssumption
<1>4. bytes \in Nat /\ bytes <= MaxPendingBytes
  BY DEF QueuesFit
<1>5. QED
  BY <1>1, <1>2, <1>3, <1>4, LimitAssumption, QueueChanges

LEMMA QueuesFitStep ==
  ASSUME Consistent, Consistent', QueuesFit, [Next]_vars PROVE QueuesFit'
<1> USE DEF updateVars, loopVars, pendVars, taskVars
<1>a. TypeOK /\ TypeOK'
  BY DEF Consistent
<1>1. ASSUME UNCHANGED <<pending, bytes>> PROVE QueuesFit'
  BY <1>1 DEF QueuesFit, PendingCount
<1>2. CASE HandleResult
  <2>1. Head(results).client \in Clients /\ Selecting(Head(results).client)
    BY <1>2, ResultIsCurrent DEF HandleResult, Result
  <2>2. \/ UNCHANGED <<pending, bytes>>
        \/ RemovePending(Head(results).client)
    BY <1>2 DEF HandleResult
  <2>3. QED
    BY <1>1, <1>a, <2>1, <2>2, RemovalFits DEF Selecting
<1>3. ASSUME NEW c \in Clients, NEW k \in Kinds, Receive(c, k) PROVE QueuesFit'
  <2>1. Datagram(c, k) \in Datagrams
    BY <1>3, <1>a, ReceiveEffect, DatagramType
  <2>2. CASE ReceivePending(c, k)
    BY <1>a, <2>1, <2>2, EnqueueFits DEF ReceivePending
  <2>3. CASE ReceiveSelect(c, k)
    <3>1. pending[c] = NotPending
      BY <2>3 DEF ReceiveSelect, NewClient, Unknown
    <3>2. CASE HasRoom(Datagram(c, k))
      BY <1>a, <2>1, <2>3, <3>1, <3>2, StartFits DEF ReceiveSelect
    <3>3. CASE ~ HasRoom(Datagram(c, k))
      BY <1>1, <2>3, <3>3 DEF ReceiveSelect
    <3>4. QED
      BY <3>2, <3>3
  <2>4. QED
    BY <1>1, <1>3, <2>2, <2>3
    DEF Receive, ReceiveFake, ReceiveExisting, ReceiveDraining, ReceiveOffline,
        ReceiveSingle
<1>4. CASE UNCHANGED vars
  BY <1>1, <1>4 DEF vars
<1>5. QED
  BY <1>1, <1>2, <1>3, <1>4
  DEF Next, Update, Loop, Tasks, Time, Publish, Start, HandleUpdate, MaintenanceTick,
      ForwardNext, OfflineNext, ReceiveError, ProbeAnswered, ProbeFailed,
      SelectionOnly, ReachabilityProbe, TargetReply, TargetError, TimerFires,
      PathEnds, SessionIdles, FakeIdles, PathOnly

\* Forgetting handshakes makes room.
LEMMA FewerFakes ==
  ASSUME NEW f, NEW g, \A x \in Clients : g[x] # NoFake => f[x] # NoFake,
         FakeCount(f) <= MaxFakeSessions
  PROVE  FakeCount(g) <= MaxFakeSessions
<1> DEFINE S == {x \in Clients : f[x] # NoFake}
           T == {x \in Clients : g[x] # NoFake}
<1>1. T \in SUBSET S /\ IsFiniteSet(S) /\ IsFiniteSet(T)
  BY ClientAssumption, FS_Subset
<1>2. Cardinality(S) = FakeCount(f) /\ Cardinality(T) = FakeCount(g)
  BY DEF FakeCount
<1> HIDE DEF S, T
<1>3. /\ Cardinality(T) <= Cardinality(S)
      /\ Cardinality(S) \in Nat /\ Cardinality(T) \in Nat
  BY <1>1, FS_Subset, FS_CardinalityType
<1>4. QED
  BY <1>2, <1>3, LimitAssumption

\* A datagram only makes a handshake of its own, and only if there is room.
LEMMA OutcomeFitsLimit ==
  ASSUME NEW f \in [Clients -> Fake], FakeCount(f) <= MaxFakeSessions,
         NEW c \in Clients, NEW d, NEW g, NEW o \in OfflineOutcomes(f, c, d, g)
  PROVE  FakeCount([f EXCEPT ![c] = o.fake]) <= MaxFakeSessions
<1> DEFINE h == [f EXCEPT ![c] = o.fake]
<1>1. /\ h[c] = o.fake
      /\ \A x \in Clients : x # c => h[x] = f[x]
  OBVIOUS
<1>2. \/ o.fake = NoFake \/ o.fake = f[c] \/ CanStartFake(f, c)
  BY DEF OfflineOutcomes, Outcome
<1> HIDE DEF h
<1>3. CASE o.fake = NoFake \/ f[c] # NoFake \/ o.fake = f[c]
  BY <1>1, <1>3, FewerFakes DEF h
<1>4. CASE FakeCount(f) < MaxFakeSessions
  <2> DEFINE S == {x \in Clients : f[x] # NoFake}
             T == {x \in Clients : h[x] # NoFake}
  <2>1. S \in SUBSET Clients /\ T \in SUBSET Clients /\ T \subseteq S \cup {c}
    BY <1>1
  <2>2. Cardinality(S) = FakeCount(f) /\ Cardinality(T) = FakeCount(h)
    BY DEF FakeCount
  <2> HIDE DEF S, T
  <2>3. /\ Cardinality(S) \in Nat /\ Cardinality(T) \in Nat
        /\ Cardinality(T) <= Cardinality(S) + 1
    BY <2>1, OneMore
  <2>4. QED
    BY <1>4, <2>2, <2>3, LimitAssumption DEF h
<1>5. QED
  BY <1>2, <1>3, <1>4 DEF CanStartFake

LEMMA FakesFitStep ==
  ASSUME TypeOK, FakesFit, [Next]_vars PROVE FakesFit'
<1> USE DEF updateVars, loopVars, pendVars, taskVars
<1> DEFINE Kept == Retained(fakes)
<1>a. Kept \in [Clients -> Fake]
  BY RetainedType
<1>b. FakeCount(Kept) <= MaxFakeSessions
  BY RetainedOnlyForgets, FewerFakes DEF FakesFit
<1> HIDE DEF Kept
<1>1. ASSUME UNCHANGED fakes PROVE FakesFit'
  BY <1>1 DEF FakesFit
<1>2. ASSUME fakes' = Kept PROVE FakesFit'
  BY <1>2, <1>b DEF FakesFit
<1>3. CASE OfflineNext
  <2>1. work.client \in Clients
    BY <1>3 DEF TypeOK, Work, OfflineNext, NoWork
  <2>2. PICK o \in OfflineOutcomes(fakes, work.client, Head(work.queue), work.cfg) :
          fakes' = [fakes EXCEPT ![work.client] = o.fake]
    BY <1>3 DEF OfflineNext
  <2>3. FakeCount([fakes EXCEPT ![work.client] = o.fake]) <= MaxFakeSessions
    BY <2>1, <2>2, OutcomeFitsLimit DEF TypeOK, FakesFit
  <2>4. QED
    BY <2>2, <2>3 DEF FakesFit
<1>4. ASSUME NEW c \in Clients, NEW k \in Kinds, Receive(c, k) PROVE FakesFit'
  <2>1. ASSUME NEW o \in OfflineOutcomes(Kept, c, Datagram(c, k), config),
               fakes' = [Kept EXCEPT ![c] = o.fake]
        PROVE  FakesFit'
    <3>1. FakeCount([Kept EXCEPT ![c] = o.fake]) <= MaxFakeSessions
      BY <1>a, <1>b, OutcomeFitsLimit
    <3>2. QED
      BY <2>1, <3>1 DEF FakesFit
  <2>2. CASE ReceiveFake(c, k)
    BY <2>1, <2>2 DEF ReceiveFake, Kept
  <2>3. CASE ReceiveOffline(c, k)
    <3>1. PICK o \in OfflineFirst(c, k) :
            o.handled /\ fakes' = [Kept EXCEPT ![c] = o.fake]
      BY <2>3 DEF ReceiveOffline, Kept
    <3>2. o \in OfflineOutcomes(Kept, c, Datagram(c, k), config)
      BY <3>1 DEF OfflineFirst, Kept
    <3>3. QED
      BY <2>1, <3>1, <3>2
  <2>4. QED
    BY <1>2, <1>4, <2>2, <2>3
    DEF Receive, ReceiveExisting, ReceivePending, ReceiveDraining, ReceiveSingle,
        ReceiveSelect, NewClient, Kept
<1>5. ASSUME NEW c \in Clients, FakeIdles(c) PROVE FakesFit'
  <2>1. fakes \in [Clients -> Fake] /\ fakes[c].life = "live"
        /\ fakes' = [fakes EXCEPT ![c].life = "idle"]
    BY <1>5 DEF FakeIdles, TypeOK
  <2>2. \A x \in Clients : fakes'[x] # NoFake => fakes[x] # NoFake
    BY <2>1 DEF NoFake
  <2>3. QED
    BY <2>2, FewerFakes DEF FakesFit
<1>6. CASE MaintenanceTick
  BY <1>2, <1>6 DEF MaintenanceTick, Kept
<1>7. CASE UNCHANGED vars
  BY <1>1, <1>7 DEF vars
<1>8. QED
  BY <1>1, <1>3, <1>4, <1>5, <1>6, <1>7
  DEF Next, Update, Loop, Tasks, Time, Publish, Start, HandleUpdate, HandleResult,
      ForwardNext, ReceiveError, ProbeAnswered, ProbeFailed,
      SelectionOnly, ReachabilityProbe, TargetReply, TargetError, TimerFires,
      PathEnds, SessionIdles, PathOnly

\* The counter of queued bytes never drifts from what is queued, whichever of
\* start, enqueue and remove comes in which order, so the budget stays whole;
\* no limit of the relay is ever exceeded.
THEOREM LimitsHold == Spec => []WithinLimits
<1>1. Consistent /\ Consistent' /\ WithinLimits /\ [Next]_vars => WithinLimits'
  <2> SUFFICES ASSUME Consistent, Consistent', WithinLimits, [Next]_vars
               PROVE  WithinLimits'
    OBVIOUS
  <2>1. QueuesFit' /\ FakesFit'
    BY TwoParts, QueuesFitStep, FakesFitStep DEF Consistent
  <2>2. QED
    BY <2>1 DEF WithinLimits, QueuesFit, FakesFit, Waiting
<1>2. QED
  BY <1>1, InitWithinLimits, Consistency, PTL DEF Spec

-----------------------------------------------------------------------------
(* Updates                                                                 *)

\* The relay is behind the supervisor by what it has not seen yet and nothing
\* else; it stops watching only when there is nothing more to come.
KeepsUp ==
  /\ status = "running" /\ ~watch.unseen =>
       IF watch.value = None THEN draining ELSE config = watch.value
  /\ draining => watch.value = None
  /\ ~watchOpen => watch.value = None /\ ~watch.unseen /\ draining

LEMMA KeepsUpStarts == Init => KeepsUp
  BY DEF Init, KeepsUp

LEMMA KeepsUpStep == TypeOK /\ KeepsUp /\ [Next]_vars => KeepsUp'
<1> SUFFICES ASSUME TypeOK, KeepsUp, [Next]_vars PROVE KeepsUp'
  OBVIOUS
<1> USE DEF updateVars, loopVars, pendVars, taskVars
<1>a. /\ watch \in [value : Configs \cup {None}, unseen : BOOLEAN]
      /\ watchOpen \in BOOLEAN /\ draining \in BOOLEAN
  BY DEF TypeOK
<1>1. ASSUME UNCHANGED <<watch, config, draining, watchOpen>>,
             status' = "running" => status = "running"
      PROVE  KeepsUp'
  BY <1>1 DEF KeepsUp
<1>2. ASSUME NEW v, Publish(v) PROVE KeepsUp'
  BY <1>2, <1>a DEF Publish, KeepsUp
<1>3. CASE Start
  BY <1>3, <1>a DEF Start, KeepsUp
<1>4. CASE HandleUpdate
  BY <1>4, <1>a DEF HandleUpdate, UpdateReady, KeepsUp
<1>5. CASE MaintenanceTick
  BY <1>1, <1>5 DEF MaintenanceTick
<1>6. CASE HandleResult \/ ForwardNext \/ OfflineNext \/ ReceiveError
  BY <1>1, <1>6 DEF HandleResult, ForwardNext, OfflineNext, ReceiveError
<1>7. ASSUME NEW c \in Clients, NEW k \in Kinds, Receive(c, k) PROVE KeepsUp'
  <2>1. Arrives(c)
    BY <1>7 DEF Receive, ReceiveFake, ReceiveExisting, ReceivePending,
       ReceiveDraining, ReceiveOffline, ReceiveSingle, ReceiveSelect, Unknown,
       OfflineFirst, NewClient
  <2>2. QED
    BY <1>1, <2>1 DEF Arrives
<1>8. CASE Tasks \/ Time
  BY <1>1, <1>8 DEF Tasks, Time, ProbeAnswered, ProbeFailed, ReachabilityProbe,
     TargetReply, TargetError, TimerFires, PathEnds, SessionIdles, FakeIdles,
     SelectionOnly, PathOnly
<1>9. CASE UNCHANGED vars
  BY <1>1, <1>9 DEF vars
<1>10. QED
  BY <1>2, <1>3, <1>4, <1>5, <1>6, <1>7, <1>8, <1>9 DEF Next, Update, Loop

\* The relay runs under what was published last, or drains as it was told, or
\* the branch that will tell it is ready.
NothingMissed ==
  status = "running" =>
    \/ UpdateReady
    \/ watch.value = None /\ draining
    \/ watch.value = config /\ ~draining

\* The watch channel keeps only the latest value: whatever overtakes what, the
\* relay never goes on under an old configuration or undrained with nothing
\* left to tell it (changed(), watch_open).
THEOREM NoUpdateIsMissed == Spec => []NothingMissed
<1>1. Init => TypeOK /\ KeepsUp
  BY InitTypeOK, KeepsUpStarts
<1>2. TypeOK /\ KeepsUp => NothingMissed
  BY DEF TypeOK, KeepsUp, NothingMissed, UpdateReady
<1>3. QED
  BY <1>1, <1>2, KeepsUpStep, TypeCorrect, PTL DEF Spec
=============================================================================
