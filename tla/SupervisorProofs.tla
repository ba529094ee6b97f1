-------------------------- MODULE SupervisorProofs --------------------------
(***************************************************************************)
(* What the supervisor promises, for any listeners, clients and files:     *)
(* whatever reloads fail half way, the listeners, the names and the rows   *)
(* are those of one file, no socket is leaked, no TCP client is served     *)
(* under a file older than its connection, and the rows follow the file    *)
(* in force and the clients that remain.  A removed listener always has a  *)
(* step ahead of it or sessions to drain, and a good file is rejected only *)
(* while such a listener is in its way.                                    *)
(***************************************************************************)
EXTENDS Supervisor, FiniteSetTheorems, TLAPS

-----------------------------------------------------------------------------
(* Files, and the parts of one that are prepared                           *)

LEMMA FirstRedirect ==
  ASSUME NEW f \in Seq(Redirects), f # <<>>
  PROVE  /\ Head(f) \in Redirects /\ Tail(f) \in Seq(Redirects)
         /\ Redirected(f) = Redirected(Tail(f)) \cup {Head(f)}
<1>1. Len(f) \in Nat /\ Len(f) > 0
  OBVIOUS
<1>2. Head(f) = f[1] /\ Head(f) \in Redirects /\ Tail(f) \in Seq(Redirects)
  OBVIOUS
<1>3. Len(Tail(f)) = Len(f) - 1
  OBVIOUS
<1>4. \A i \in 1 .. Len(f) - 1 : Tail(f)[i] = f[i + 1]
  OBVIOUS
<1>5. ASSUME NEW r \in Redirected(f) PROVE r \in Redirected(Tail(f)) \cup {Head(f)}
  <2>1. PICK i \in 1 .. Len(f) : r = f[i]
    BY <1>5 DEF Redirected
  <2>2. CASE i = 1
    BY <2>1, <2>2, <1>2
  <2>3. CASE i # 1
    <3>1. i - 1 \in 1 .. Len(f) - 1 /\ (i - 1) + 1 = i
      BY <2>1, <2>3, <1>1
    <3>2. Tail(f)[i - 1] = r
      BY <3>1, <1>4, <2>1
    <3>3. DOMAIN Tail(f) = 1 .. Len(f) - 1
      BY <1>2, <1>3
    <3>4. QED
      BY <3>1, <3>2, <3>3 DEF Redirected
  <2>4. QED
    BY <2>2, <2>3
<1>6. ASSUME NEW r \in Redirected(Tail(f)) \cup {Head(f)} PROVE r \in Redirected(f)
  <2>1. CASE r = Head(f)
    BY <2>1, <1>1, <1>2 DEF Redirected
  <2>2. CASE r \in Redirected(Tail(f))
    <3>1. PICK i \in 1 .. Len(f) - 1 : r = Tail(f)[i]
      BY <2>2, <1>2, <1>3 DEF Redirected
    <3>2. r = f[i + 1] /\ i + 1 \in 1 .. Len(f)
      BY <3>1, <1>1, <1>4
    <3>3. QED
      BY <3>2 DEF Redirected
  <2>3. QED
    BY <1>6, <2>1, <2>2
<1>7. QED
  BY <1>2, <1>5, <1>6

LEMMA OneMoreRedirect ==
  ASSUME NEW f \in Seq(Redirects), NEW r \in Redirects
  PROVE  /\ Append(f, r) \in Seq(Redirects)
         /\ Redirected(Append(f, r)) = Redirected(f) \cup {r}
<1>1. Append(f, r) \in Seq(Redirects) /\ Len(Append(f, r)) = Len(f) + 1
      /\ Len(f) \in Nat
  OBVIOUS
<1>2. \A i \in 1 .. Len(f) + 1 :
        Append(f, r)[i] = IF i = Len(f) + 1 THEN r ELSE f[i]
  OBVIOUS
<1>3. DOMAIN f = 1 .. Len(f) /\ DOMAIN Append(f, r) = 1 .. Len(f) + 1
  BY <1>1
<1>4. ASSUME NEW s \in Redirected(Append(f, r)) PROVE s \in Redirected(f) \cup {r}
  <2>1. PICK i \in 1 .. Len(f) + 1 : s = Append(f, r)[i]
    BY <1>3, <1>4 DEF Redirected
  <2>2. i = Len(f) + 1 \/ i \in 1 .. Len(f)
    BY <1>1, <2>1
  <2>3. QED
    BY <1>2, <1>3, <2>1, <2>2 DEF Redirected
<1>5. ASSUME NEW s \in Redirected(f) \cup {r} PROVE s \in Redirected(Append(f, r))
  <2>1. CASE s = r
    <3>1. Append(f, r)[Len(f) + 1] = r /\ Len(f) + 1 \in 1 .. Len(f) + 1
      BY <1>1, <1>2
    <3>2. QED
      BY <2>1, <3>1, <1>3 DEF Redirected
  <2>2. CASE s \in Redirected(f)
    <3>1. PICK i \in 1 .. Len(f) : s = f[i]
      BY <2>2, <1>3 DEF Redirected
    <3>2. i \in 1 .. Len(f) + 1 /\ i # Len(f) + 1
      BY <1>1, <3>1
    <3>3. QED
      BY <1>2, <1>3, <3>1, <3>2 DEF Redirected
  <2>3. QED
    BY <1>5, <2>1, <2>2
<1>6. QED
  BY <1>1, <1>4, <1>5

LEMMA NoRedirects == Redirected(<<>>) = {} /\ <<>> \in Seq(Redirects)
  BY DEF Redirected

LEMMA RedirectsOfFile ==
  ASSUME NEW f \in Seq(Redirects) PROVE Redirected(f) \subseteq Redirects
  BY DEF Redirected

LEMMA ConfigType ==
  ASSUME NEW r \in Redirects
  PROVE  /\ Config(r) \in Configs /\ Config(r) # None
         /\ Config(r).name = r.name
         /\ r.key \in Keys /\ r.name \in Names
  BY NoneAssumption DEF Config, Configs, Redirects

LEMMA ConfigsAtType ==
  ASSUME NEW f \in Seq(Redirects), NEW k PROVE ConfigsAt(f, k) \subseteq Configs
  BY RedirectsOfFile, ConfigType DEF ConfigsAt

-----------------------------------------------------------------------------
(* Types                                                                   *)

LEMMA InitTypeOK == Init => TypeOK
<1> SUFFICES ASSUME Init PROVE TypeOK
  OBVIOUS
<1>1. file \in Seq(Redirects)
  BY FileAssumption DEF Init
<1>2. [value |-> None, unseen |-> FALSE] \in Watches /\ NoLoop \in Loops
      /\ NoClient \in Served
  BY DEF Watches, NoLoop, Loops, NoClient, Served
<1>3. QED
  BY <1>1, <1>2, NoRedirects DEF Init, TypeOK

LEMMA ReturnType ==
  ASSUME TypeOK, NEW k \in Keys, Return(k)
  PROVE  /\ socket' \in [Keys -> {"closed", "prepared", "listening"}]
         /\ loop' \in [Keys -> Loops] /\ client' \in [Clients -> Served]
<1>1. NoLoop \in Loops /\ NoClient \in Served
  BY DEF NoLoop, Loops, NoClient, Served
<1>2. ResetAt(k) \in [Clients -> Served]
  BY <1>1 DEF ResetAt, TypeOK
<1>3. QED
  BY <1>1, <1>2 DEF Return, TypeOK

LEMMA SuperviseType == TypeOK /\ Supervise => TypeOK'
<1> SUFFICES ASSUME TypeOK, Supervise PROVE TypeOK'
  OBVIOUS
<1> USE DEF supervisorVars, listenerVars, clientVars
<1>1. CASE EditFile
  BY <1>1 DEF EditFile, TypeOK
<1>2. CASE BeginReload
  BY <1>2, FileAssumption DEF BeginReload, TypeOK
<1>3. CASE Prepare
  <2> DEFINE r == Head(todo)
  <2>1. /\ r \in Redirects /\ Tail(todo) \in Seq(Redirects) /\ r.key \in Keys
        /\ Append(prepared, r) \in Seq(Redirects)
    BY <1>3, FirstRedirect, OneMoreRedirect, ConfigType DEF Prepare, TypeOK
  <2>2. /\ todo' = Tail(todo) /\ prepared' = Append(prepared, r)
        /\ socket' = [socket EXCEPT ![r.key] =
                        IF r.key \in active THEN @ ELSE "prepared"]
        /\ UNCHANGED <<file, phase, reading, active, names, applied, watch, loop,
                       client, due, row>>
    BY <1>3 DEF Prepare
  <2> HIDE DEF r
  <2>3. socket' \in [Keys -> {"closed", "prepared", "listening"}]
    BY <2>1, <2>2 DEF TypeOK
  <2>4. QED
    BY <2>1, <2>2, <2>3 DEF TypeOK
<1>4. CASE Reject
  <2>1. client' \in [Clients -> Served]
    <3>1. NoClient \in Served
      BY DEF NoClient, Served
    <3>2. QED
      BY <1>4, <3>1 DEF Reject, TypeOK
  <2>2. socket' \in [Keys -> {"closed", "prepared", "listening"}]
    BY <1>4 DEF Reject, TypeOK
  <2>3. QED
    BY <1>4, <2>1, <2>2, NoRedirects DEF Reject, TypeOK
<1>5. CASE RetireRemoved
  <2>1. names' \subseteq Names
    <3>1. Redirected(prepared) \subseteq Redirects
      BY RedirectsOfFile DEF TypeOK
    <3>2. NamesOf(prepared) \subseteq Names
      BY <3>1 DEF NamesOf, Redirects
    <3>3. QED
      BY <1>5, <3>2 DEF RetireRemoved
  <2>2. watch' \in [Keys -> Watches]
    <3>1. [value |-> None, unseen |-> TRUE] \in Watches
      BY DEF Watches
    <3>2. QED
      BY <1>5, <3>1 DEF RetireRemoved, TypeOK
  <2>3. due' \in [Clients -> SUBSET Configs]
    <3>1. reading \in Seq(Redirects)
      BY FileAssumption DEF TypeOK
    <3>2. \A c \in Clients : ConfigsAt(reading, client[c].key) \subseteq Configs
      BY <3>1, ConfigsAtType
    <3>3. QED
      BY <1>5, <3>2 DEF RetireRemoved, TypeOK
  <2>4. row' \in [Names -> {"none", "live", "retired"}]
    BY <1>5 DEF RetireRemoved, RetireRows, TypeOK
  <2>5. QED
    BY <1>5, <2>1, <2>2, <2>3, <2>4 DEF RetireRemoved, TypeOK
<1>6. CASE Commit
  <2> DEFINE r == Head(prepared)
  <2>1. /\ r \in Redirects /\ Tail(prepared) \in Seq(Redirects)
        /\ r.key \in Keys /\ r.name \in Names /\ Config(r) \in Configs
    BY <1>6, FirstRedirect, ConfigType DEF Commit, TypeOK
  <2>2. /\ row' = [row EXCEPT ![r.name] = "live"]
        /\ active' = active \cup {r.key}
        /\ watch' = [watch EXCEPT ![r.key] = [value |-> Config(r),
                                              unseen |-> r.key \in active]]
        /\ \/ UNCHANGED listenerVars
           \/ /\ socket' = [socket EXCEPT ![r.key] = "listening"]
              /\ loop' = [loop EXCEPT ![r.key] =
                   [NoLoop EXCEPT !.state = "running", !.config = Config(r)]]
        /\ prepared' = Tail(prepared)
        /\ UNCHANGED <<file, phase, reading, todo, names, applied, clientVars>>
    BY <1>6 DEF Commit
  <2> HIDE DEF r
  <2>3. [value |-> Config(r), unseen |-> r.key \in active] \in Watches
    BY <2>1 DEF Watches
  <2>4. [NoLoop EXCEPT !.state = "running", !.config = Config(r)] \in Loops
    BY <2>1 DEF NoLoop, Loops
  <2>5. watch' \in [Keys -> Watches] /\ row' \in [Names -> {"none", "live", "retired"}]
    BY <2>1, <2>2, <2>3 DEF TypeOK
  <2>6. /\ socket' \in [Keys -> {"closed", "prepared", "listening"}]
        /\ loop' \in [Keys -> Loops]
    BY <2>1, <2>2, <2>4 DEF TypeOK
  <2>7. QED
    BY <2>1, <2>2, <2>5, <2>6 DEF TypeOK
<1>7. CASE Finish
  BY <1>7 DEF Finish, TypeOK
<1>8. CASE Exit
  BY <1>8 DEF Exit, TypeOK
<1>9. QED
  BY <1>1, <1>2, <1>3, <1>4, <1>5, <1>6, <1>7, <1>8 DEF Supervise, Apply

\* Loops and Served are closed under the changes a listener makes.
LEMMA EditsKeepLoops ==
  ASSUME NEW l \in Loops
  PROVE  /\ \A b \in BOOLEAN : [l EXCEPT !.polled = b] \in Loops
         /\ [l EXCEPT !.polled = FALSE, !.draining = TRUE] \in Loops
         /\ \A v \in Configs \cup {None} :
              [l EXCEPT !.polled = FALSE, !.config = v] \in Loops
         /\ [l EXCEPT !.hand = None] \in Loops
         /\ \A c \in Clients : [l EXCEPT !.polled = FALSE, !.hand = c] \in Loops
  BY DEF Loops

LEMMA EditsKeepServed ==
  ASSUME NEW r \in Served
  PROVE  /\ [r EXCEPT !.state = "accepted"] \in Served
         /\ [r EXCEPT !.state = "tracked"] \in Served
         /\ \A v \in Configs \cup {None} :
              [r EXCEPT !.state = "served", !.config = v] \in Served
  BY DEF Served

\* What a listener's step leaves alone, and its types.
LEMMA ListenType ==
  ASSUME TypeOK, NEW k \in Keys, Listen(k)
  PROVE  TypeOK'
<1> USE DEF ListenerOnly, supervisorVars
<1>a. loop[k] \in Loops
  BY DEF TypeOK
<1>1. ASSUME SeesUpdate(k) PROVE watch' \in [Keys -> Watches]
  <2>1. [watch[k] EXCEPT !.unseen = FALSE] \in Watches
    BY DEF TypeOK, Watches
  <2>2. QED
    BY <1>1, <2>1 DEF SeesUpdate, TypeOK
<1>2. \A b \in BOOLEAN : [loop[k] EXCEPT !.polled = b] \in Loops
  BY <1>a, EditsKeepLoops
<1>3. CASE TcpUpdate(k)
  <2>1. CASE Return(k)
    BY <1>1, <1>3, <2>1, ReturnType DEF TcpUpdate, SeesUpdate, TypeOK
  <2>2. CASE loop' = [loop EXCEPT ![k].polled = FALSE] /\ UNCHANGED <<socket, client>>
    BY <1>1, <1>2, <1>3, <2>2 DEF TcpUpdate, SeesUpdate, TypeOK
  <2>3. QED
    BY <1>3, <2>1, <2>2 DEF TcpUpdate
<1>4. CASE Poll(k)
  BY <1>2, <1>4 DEF Poll, TypeOK
<1>5. CASE TcpServe(k)
  <2>1. CASE Return(k)
    BY <1>5, <2>1, ReturnType DEF TcpServe, TypeOK
  <2>2. CASE /\ watch[k].value # None
             /\ client' = [client EXCEPT ![loop[k].hand] =
                  [@ EXCEPT !.state = "served", !.config = watch[k].value]]
             /\ loop' = [loop EXCEPT ![k].hand = None]
             /\ UNCHANGED socket
    <3>1. watch[k].value \in Configs /\ loop[k].hand \in Clients
      BY <1>5, <2>2 DEF TcpServe, TypeOK, Watches, Loops
    <3>2. [client[loop[k].hand] EXCEPT !.state = "served",
                                       !.config = watch[k].value] \in Served
      <4>1. client[loop[k].hand] \in Served
        BY <3>1 DEF TypeOK
      <4>2. QED
        BY <3>1, <4>1, EditsKeepServed
    <3>3. [loop[k] EXCEPT !.hand = None] \in Loops
      BY <1>a, EditsKeepLoops
    <3>4. loop' \in [Keys -> Loops]
      BY <2>2, <3>3 DEF TypeOK
    <3>5. client' \in [Clients -> Served]
      BY <2>2, <3>1, <3>2 DEF TypeOK
    <3>6. QED
      BY <1>5, <2>2, <3>4, <3>5 DEF TcpServe, TypeOK
  <2>3. QED
    BY <1>5, <2>1, <2>2 DEF TcpServe
<1>6. CASE UdpUpdate(k)
  <2>1. /\ [loop[k] EXCEPT !.polled = FALSE, !.draining = TRUE] \in Loops
        /\ [loop[k] EXCEPT !.polled = FALSE, !.config = watch[k].value] \in Loops
    <3>1. watch[k].value \in Configs \cup {None}
      BY DEF TypeOK, Watches
    <3>2. QED
      BY <1>a, <3>1, EditsKeepLoops
  <2>2. loop' \in [Keys -> Loops]
    BY <1>6, <2>1 DEF UdpUpdate, TypeOK
  <2>3. QED
    BY <1>1, <1>6, <2>2 DEF UdpUpdate, SeesUpdate, TypeOK
<1>7. CASE UdpReturn(k)
  BY <1>7, ReturnType DEF UdpReturn, TypeOK
<1>8. CASE UdpFails(k)
  <2>1. [NoLoop EXCEPT !.state = "failed"] \in Loops
    BY DEF NoLoop, Loops
  <2>2. ResetAt(k) \in [Clients -> Served]
    BY DEF ResetAt, TypeOK, NoClient, Served
  <2>3. QED
    BY <1>8, <2>1, <2>2 DEF UdpFails, TypeOK
<1>9. ASSUME NEW c \in Clients, TcpAccept(k, c) PROVE TypeOK'
  <2>1. [loop[k] EXCEPT !.polled = FALSE, !.hand = c] \in Loops
    BY <1>a, EditsKeepLoops
  <2>2. [client[c] EXCEPT !.state = "accepted"] \in Served
    <3>1. client[c] \in Served
      BY DEF TypeOK
    <3>2. QED
      BY <3>1, EditsKeepServed
  <2>3. loop' \in [Keys -> Loops] /\ client' \in [Clients -> Served]
    BY <1>9, <2>1, <2>2 DEF TcpAccept, TypeOK
  <2>4. QED
    BY <1>9, <2>3 DEF TcpAccept, TypeOK
<1>10. ASSUME NEW c \in Clients, UdpReceive(k, c) PROVE TypeOK'
  <2>1. [client[c] EXCEPT !.state = "served", !.config = loop[k].config] \in Served
    <3>1. loop[k].config \in Configs \cup {None} /\ client[c] \in Served
      BY DEF TypeOK, Loops
    <3>2. QED
      BY <3>1, EditsKeepServed
  <2>2. NoClient \in Served
    BY DEF NoClient, Served
  <2>3. loop' \in [Keys -> Loops] /\ client' \in [Clients -> Served]
    BY <1>2, <1>10, <2>1, <2>2 DEF UdpReceive, TypeOK
  <2>4. QED
    BY <1>10, <2>3 DEF UdpReceive, TypeOK
<1>11. ASSUME NEW c \in Clients, Arrive(c, k) PROVE TypeOK'
  <2>1. [state |-> "waiting", key |-> k, config |-> None] \in Served
    BY DEF Served
  <2>2. client' \in [Clients -> Served]
    BY <1>11, <2>1 DEF Arrive, TypeOK
  <2>3. due' \in [Clients -> SUBSET Configs]
    <3>1. reading \in Seq(Redirects) /\ (applied # None => applied \in Seq(Redirects))
      BY FileAssumption DEF TypeOK
    <3>2. ConfigsAt(reading, k) \subseteq Configs
          /\ (applied # None => ConfigsAt(applied, k) \subseteq Configs)
      BY <3>1, ConfigsAtType
    <3>3. QED
      BY <1>11, <3>2 DEF Arrive, TypeOK
  <2>4. QED
    BY <1>11, <2>2, <2>3 DEF Arrive, ClientOnly, listenerVars, TypeOK
<1>12. QED
  BY <1>3, <1>4, <1>5, <1>6, <1>7, <1>8, <1>9, <1>10, <1>11 DEF Listen

LEMMA ClientType ==
  ASSUME TypeOK, NEW c \in Clients, Track(c) \/ Leave(c)
  PROVE  TypeOK'
<1> USE DEF ClientOnly, supervisorVars, listenerVars
<1>1. CASE Track(c)
  <2>1. [client[c] EXCEPT !.state = "tracked"] \in Served
    <3>1. client[c] \in Served
      BY DEF TypeOK
    <3>2. QED
      BY <3>1, EditsKeepServed
  <2>2. client' \in [Clients -> Served]
    BY <1>1, <2>1 DEF Track, TypeOK
  <2>3. row' \in [Names -> {"none", "live", "retired"}]
    BY <1>1 DEF Track, TypeOK
  <2>4. QED
    BY <1>1, <2>2, <2>3 DEF Track, TypeOK
<1>2. CASE Leave(c)
  <2>1. NoClient \in Served
    BY DEF NoClient, Served
  <2>2. QED
    BY <1>2, <2>1 DEF Leave, TypeOK
<1>3. QED
  BY <1>1, <1>2

LEMMA TypeOKStep == TypeOK /\ [Next]_vars => TypeOK'
<1> SUFFICES ASSUME TypeOK, [Next]_vars PROVE TypeOK'
  OBVIOUS
<1>1. CASE UNCHANGED vars
  BY <1>1 DEF vars, supervisorVars, listenerVars, clientVars, TypeOK
<1>2. QED
  BY <1>1, SuperviseType, ListenType, ClientType DEF Next

\* Every variable keeps its type: what a listener holds in its hand, is sent
\* and serves are clients and configurations of the model's domains.
THEOREM TypeCorrect == Spec => []TypeOK
<1>1. QED
  BY InitTypeOK, TypeOKStep, PTL DEF Spec

-----------------------------------------------------------------------------
(* A reload takes the listeners from one file to the next                  *)

UniqueKeys(rs) == \A r, s \in rs : r.key = s.key => r = s
InForce(k) == IF applied = None THEN {} ELSE ConfigsAt(applied, k)

\* The listener of r and its row are what r says.
Committed(r) ==
  r.key \in active /\ watch[r.key].value = Config(r) /\ row[r.name] = "live"

ActiveHaveValues == \A k \in Keys : k \in active <=> watch[k].value # None

\* What apply was handed is prepared or still to prepare, and no key twice.
ReadingSplits ==
  /\ phase \in {"idle", "exited"} => prepared = <<>>
  /\ phase = "preparing" =>
       /\ Redirected(reading) = Redirected(prepared) \cup Redirected(todo)
       /\ UniqueKeys(Redirected(prepared))

\* During a commit each redirect is still to come or committed, and a listener
\* has the settings of the new file or, until its turn comes, of the old one.
CommitGoesOn ==
  phase = "committing" =>
    /\ UniqueKeys(Redirected(reading))
    /\ Redirected(prepared) \subseteq Redirected(reading)
    /\ \A r \in Redirected(reading) : r \in Redirected(prepared) \/ Committed(r)
    /\ active \subseteq KeysOf(reading) /\ names = NamesOf(reading)
    /\ \A n \in Names : row[n] = "live" => n \in names
    /\ \A k \in active : watch[k].value \in ConfigsAt(reading, k) \cup InForce(k)

\* Nothing listens before the first file is applied.
FirstApply == applied = None =>
  /\ phase # "idle"
  /\ phase = "preparing" => /\ active = {} /\ names = {}
                            /\ \A n \in Names : row[n] # "live"

FileInv == /\ ActiveHaveValues /\ ReadingSplits /\ CommitGoesOn
           /\ FirstApply /\ AppliedIsOneFile

LEMMA InitFileInv == Init => FileInv
<1> SUFFICES ASSUME Init PROVE FileInv
  OBVIOUS
<1>1. UniqueKeys({})
  BY DEF UniqueKeys
<1>2. QED
  BY <1>1, NoRedirects DEF Init, FileInv, ActiveHaveValues, ReadingSplits,
     CommitGoesOn, FirstApply, AppliedIsOneFile

\* A step that leaves the supervisor, the rows and the values sent alone.
Quiet ==
  /\ UNCHANGED <<supervisorVars, row>>
  /\ \A k \in Keys : watch'[k].value = watch[k].value

LEMMA QuietFileInv == TypeOK /\ FileInv /\ Quiet => FileInv'
<1> SUFFICES ASSUME TypeOK, FileInv, Quiet PROVE FileInv'
  OBVIOUS
<1> USE DEF Quiet, supervisorVars
<1>1. active \subseteq Keys
  BY DEF TypeOK
<1>2. ActiveHaveValues'
  BY DEF FileInv, ActiveHaveValues
<1>3. ReadingSplits'
  BY DEF FileInv, ReadingSplits
<1>4. FirstApply'
  BY DEF FileInv, FirstApply
<1>5. AppliedIsOneFile'
  BY <1>1 DEF FileInv, AppliedIsOneFile
<1>6. CommitGoesOn'
  <2> SUFFICES ASSUME phase = "committing" PROVE CommitGoesOn'
    BY DEF CommitGoesOn
  <2>1. ASSUME NEW r, Committed(r) PROVE Committed(r)'
    BY <1>1, <2>1 DEF Committed
  <2>2. \A k \in active : InForce(k)' = InForce(k)
    BY DEF InForce
  <2>3. \A k \in active : watch'[k].value \in ConfigsAt(reading, k) \cup InForce(k)
    BY <1>1 DEF FileInv, CommitGoesOn
  <2>4. QED
    BY <2>1, <2>2, <2>3 DEF FileInv, CommitGoesOn
<1>7. QED
  BY <1>2, <1>3, <1>4, <1>5, <1>6 DEF FileInv

LEMMA BeginFileInv == TypeOK /\ FileInv /\ BeginReload => FileInv'
<1> SUFFICES ASSUME TypeOK, FileInv, BeginReload PROVE FileInv'
  OBVIOUS
<1>1. prepared = <<>> /\ applied # None
  BY DEF BeginReload, FileInv, ReadingSplits, FirstApply
<1>2. ReadingSplits'
  BY <1>1, NoRedirects DEF BeginReload, ReadingSplits, UniqueKeys
<1>3. QED
  BY <1>1, <1>2 DEF BeginReload, FileInv, ActiveHaveValues, CommitGoesOn, FirstApply,
     AppliedIsOneFile

LEMMA PrepareFileInv == TypeOK /\ FileInv /\ Prepare => FileInv'
<1> SUFFICES ASSUME TypeOK, FileInv, Prepare PROVE FileInv'
  OBVIOUS
<1> DEFINE r == Head(todo)
<1>1. /\ phase = "preparing" /\ phase' = phase /\ Acceptable(r)
      /\ todo' = Tail(todo) /\ prepared' = Append(prepared, r)
      /\ UNCHANGED <<reading, active, names, applied, watch, row>>
  BY DEF Prepare
<1>2. /\ r \in Redirects
      /\ Redirected(todo) = Redirected(todo') \cup {r}
      /\ Redirected(prepared') = Redirected(prepared) \cup {r}
  BY <1>1, FirstRedirect, OneMoreRedirect DEF Prepare, TypeOK
<1> HIDE DEF r
<1>3. UniqueKeys(Redirected(prepared'))
  <2>1. \A s \in Redirected(prepared) : s.key # r.key
    BY <1>1 DEF Acceptable, KeysOf
  <2>2. UniqueKeys(Redirected(prepared))
    BY <1>1 DEF FileInv, ReadingSplits
  <2>3. QED
    BY <1>2, <2>1, <2>2 DEF UniqueKeys
<1>4. ReadingSplits'
  BY <1>1, <1>2, <1>3 DEF FileInv, ReadingSplits
<1>5. ActiveHaveValues' /\ CommitGoesOn' /\ FirstApply' /\ AppliedIsOneFile'
  BY <1>1 DEF FileInv, ActiveHaveValues, CommitGoesOn, FirstApply, AppliedIsOneFile
<1>6. QED
  BY <1>4, <1>5 DEF FileInv

LEMMA RejectFileInv == TypeOK /\ FileInv /\ Reject => FileInv'
  BY DEF FileInv, Reject, ActiveHaveValues, ReadingSplits, CommitGoesOn, FirstApply,
     AppliedIsOneFile

\* A row that is live stays live until its name is gone.
LEMMA RetireFileInv == TypeOK /\ FileInv /\ RetireRemoved => FileInv'
<1> SUFFICES ASSUME TypeOK, FileInv, RetireRemoved PROVE FileInv'
  OBVIOUS
<1>1. /\ phase = "preparing" /\ phase' = "committing" /\ todo = <<>>
      /\ names' = NamesOf(prepared) /\ active' = active \cap KeysOf(prepared)
      /\ UNCHANGED <<reading, prepared, applied>>
  BY DEF RetireRemoved
<1>2. Redirected(prepared) = Redirected(reading) /\ UniqueKeys(Redirected(prepared))
  BY <1>1, NoRedirects DEF FileInv, ReadingSplits
<1>3. \A k \in Keys : watch'[k] = IF k \in active \ KeysOf(prepared)
                                    THEN [value |-> None, unseen |-> TRUE]
                                    ELSE watch[k]
  BY DEF RetireRemoved
<1>4. ActiveHaveValues'
  BY <1>1, <1>3 DEF FileInv, ActiveHaveValues
<1>5. \A n \in Names : row'[n] = "live" => n \in names'
  <2> SUFFICES ASSUME NEW n \in Names, row'[n] = "live" PROVE n \in names'
    OBVIOUS
  <2>1. row[n] = "live" /\ ~(n \in names \ NamesOf(prepared))
    BY DEF RetireRemoved, RetireRows
  <2>2. n \in names
    BY <1>1, <2>1 DEF FileInv, FirstApply, AppliedIsOneFile
  <2>3. QED
    BY <1>1, <2>1, <2>2
<1>6. \A k \in active' : watch'[k].value \in InForce(k)'
  <2> SUFFICES ASSUME NEW k \in active' PROVE watch'[k].value \in InForce(k)'
    OBVIOUS
  <2>1. k \in active /\ k \in Keys /\ watch'[k] = watch[k]
    BY <1>1, <1>3 DEF TypeOK
  <2>2. applied # None /\ {watch[k].value} = ConfigsAt(applied, k)
    BY <1>1, <2>1 DEF FileInv, FirstApply, AppliedIsOneFile
  <2>3. QED
    BY <1>1, <2>1, <2>2 DEF InForce
<1>7. CommitGoesOn'
  BY <1>1, <1>2, <1>5, <1>6 DEF CommitGoesOn, KeysOf, NamesOf
<1>8. QED
  BY <1>1, <1>4, <1>7 DEF FileInv, ReadingSplits, FirstApply, AppliedIsOneFile

LEMMA CommitFileInv == TypeOK /\ FileInv /\ Commit => FileInv'
<1> SUFFICES ASSUME TypeOK, FileInv, Commit PROVE FileInv'
  OBVIOUS
<1> DEFINE r == Head(prepared)
<1>1. /\ phase = "committing" /\ phase' = phase /\ prepared # <<>>
      /\ row' = [row EXCEPT ![r.name] = "live"]
      /\ active' = active \cup {r.key}
      /\ watch' = [watch EXCEPT ![r.key] = [value |-> Config(r),
                                            unseen |-> r.key \in active]]
      /\ prepared' = Tail(prepared)
      /\ UNCHANGED <<reading, names, applied>>
  BY DEF Commit
<1>2. /\ r \in Redirects /\ r.key \in Keys /\ r.name \in Names
      /\ Config(r) # None
      /\ Redirected(prepared) = Redirected(prepared') \cup {r}
  BY <1>1, FirstRedirect, ConfigType DEF TypeOK
<1> HIDE DEF r
<1>3. /\ \A k \in Keys : watch'[k].value = IF k = r.key THEN Config(r) ELSE watch[k].value
      /\ \A n \in Names : row'[n] = IF n = r.name THEN "live" ELSE row[n]
  BY <1>1, <1>2 DEF TypeOK
<1>4. active \subseteq Keys
  BY DEF TypeOK
<1>5. r \in Redirected(reading) /\ UniqueKeys(Redirected(reading))
  BY <1>1, <1>2 DEF FileInv, CommitGoesOn
<1>6. ActiveHaveValues'
  BY <1>1, <1>2, <1>3 DEF FileInv, ActiveHaveValues
<1>7. \A s \in Redirected(reading) : s \in Redirected(prepared') \/ Committed(s)'
  <2> SUFFICES ASSUME NEW s \in Redirected(reading),
                      s \notin Redirected(prepared')
               PROVE  Committed(s)'
    OBVIOUS
  <2>0. s.key \in Keys /\ s.name \in Names
    BY FileAssumption, RedirectsOfFile, ConfigType DEF TypeOK
  <2>1. CASE s = r
    BY <1>1, <1>2, <1>3, <2>1 DEF Committed
  <2>2. CASE s # r
    <3>1. Committed(s)
      BY <1>1, <1>2, <2>2 DEF FileInv, CommitGoesOn
    <3>2. s.key # r.key
      BY <1>5, <2>2 DEF UniqueKeys
    <3>3. QED
      BY <1>1, <1>3, <2>0, <3>1, <3>2 DEF Committed
  <2>3. QED
    BY <2>1, <2>2
<1>8. \A k \in active' : watch'[k].value \in (ConfigsAt(reading, k) \cup InForce(k))'
  <2> SUFFICES ASSUME NEW k \in active'
               PROVE  watch'[k].value \in ConfigsAt(reading, k) \cup InForce(k)
    BY <1>1 DEF InForce
  <2>1. CASE k = r.key
    BY <1>2, <1>3, <1>5, <2>1 DEF ConfigsAt
  <2>2. CASE k # r.key
    BY <1>1, <1>3, <1>4, <2>2 DEF FileInv, CommitGoesOn
  <2>3. QED
    BY <2>1, <2>2
<1>9. CommitGoesOn'
  <2>1. active' \subseteq KeysOf(reading)
    BY <1>1, <1>5 DEF FileInv, CommitGoesOn, KeysOf
  <2>2. names' = NamesOf(reading) /\ r.name \in NamesOf(reading)
    BY <1>1, <1>5 DEF FileInv, CommitGoesOn, NamesOf
  <2>3. \A n \in Names : row'[n] = "live" => n \in names'
    BY <1>1, <1>3, <2>2 DEF FileInv, CommitGoesOn
  <2>4. Redirected(prepared') \subseteq Redirected(reading)
    BY <1>1, <1>2 DEF FileInv, CommitGoesOn
  <2>5. QED
    BY <1>1, <1>5, <1>7, <1>8, <2>1, <2>2, <2>3, <2>4 DEF CommitGoesOn
<1>10. QED
  BY <1>1, <1>6, <1>9 DEF FileInv, ReadingSplits, FirstApply, AppliedIsOneFile

\* When nothing is left to commit, everything is what the new file says.
LEMMA FinishFileInv == TypeOK /\ FileInv /\ Finish => FileInv'
<1> SUFFICES ASSUME TypeOK, FileInv, Finish PROVE FileInv'
  OBVIOUS
<1>1. /\ phase = "committing" /\ prepared = <<>>
      /\ phase' = "idle" /\ applied' = reading
      /\ UNCHANGED <<reading, prepared, active, names, watch, row>>
  BY DEF Finish
<1>2. /\ UniqueKeys(Redirected(reading)) /\ names = NamesOf(reading)
      /\ active \subseteq KeysOf(reading)
      /\ \A n \in Names : row[n] = "live" => n \in names
      /\ \A s \in Redirected(reading) : Committed(s)
  BY <1>1, NoRedirects DEF FileInv, CommitGoesOn
<1>3. reading # None
  BY NoneAssumption DEF TypeOK
<1>4. active = KeysOf(reading)
  BY <1>2 DEF KeysOf, Committed
<1>5. \A k \in active : {watch[k].value} = ConfigsAt(reading, k)
  <2> SUFFICES ASSUME NEW k \in active
               PROVE  {watch[k].value} = ConfigsAt(reading, k)
    OBVIOUS
  <2>1. PICK s \in Redirected(reading) : s.key = k
    BY <1>4 DEF KeysOf
  <2>2. watch[k].value = Config(s)
    BY <1>2, <2>1 DEF Committed
  <2>3. \A x \in Redirected(reading) : x.key = k => x = s
    BY <1>2, <2>1 DEF UniqueKeys
  <2>4. QED
    BY <2>1, <2>2, <2>3 DEF ConfigsAt
<1>6. \A n \in Names : row[n] = "live" <=> n \in names
  BY <1>2 DEF NamesOf, Committed
<1>7. AppliedIsOneFile'
  BY <1>1, <1>2, <1>4, <1>5, <1>6 DEF AppliedIsOneFile
<1>8. QED
  BY <1>1, <1>3, <1>7 DEF FileInv, ActiveHaveValues, ReadingSplits, CommitGoesOn,
     FirstApply

-----------------------------------------------------------------------------
(* Sockets and tasks                                                       *)

\* A connection in a listener's hand was accepted there, and a relay drains
\* only once it has been told to end.
HandsMatch == \A k \in Keys :
  /\ loop[k].hand # None =>
       /\ loop[k].state = "running" /\ k \notin UdpKeys
       /\ client[loop[k].hand].state = "accepted" /\ client[loop[k].hand].key = k
  /\ loop[k].draining => loop[k].state = "running" /\ watch[k].value = None

SocketInv == SocketsAreOwned /\ HandsMatch

LEMMA InitSocketInv == Init => SocketInv
  BY NoRedirects DEF Init, SocketInv, SocketsAreOwned, HandsMatch, NoLoop, KeysOf

\* The task at k has ended, by itself when it was told to.
Ended(k) ==
  /\ loop[k].state = "running" /\ socket'[k] = "closed"
  /\ \/ loop'[k] = NoLoop /\ k \notin active
     \/ loop'[k] = [NoLoop EXCEPT !.state = "failed"]

\* It goes on, or is as it was.
GoesOn(k) ==
  /\ socket'[k] = socket[k] /\ loop'[k].state = loop[k].state
  /\ loop'[k].draining =>
       loop[k].draining \/ (loop[k].state = "running" /\ watch[k].value = None)
  /\ loop'[k].hand # None =>
       /\ loop[k].state = "running" /\ k \notin UdpKeys
       /\ client'[loop'[k].hand].state = "accepted"
       /\ client'[loop'[k].hand].key = k

LEMMA ReturnEnds ==
  ASSUME TypeOK, FileInv, NEW k \in Keys, loop[k].state = "running",
         watch[k].value = None, Return(k)
  PROVE  Ended(k)
<1>1. k \notin active
  BY DEF FileInv, ActiveHaveValues
<1>2. QED
  BY <1>1 DEF Ended, Return, TypeOK

LEMMA ListenEffect ==
  ASSUME TypeOK, FileInv, HandsMatch, NEW k \in Keys, Listen(k)
  PROVE  Ended(k) \/ GoesOn(k)
<1>1. ASSUME loop'[k].state = loop[k].state, loop'[k].draining => loop[k].draining,
             loop'[k].hand = None, socket'[k] = socket[k]
      PROVE  GoesOn(k)
  BY <1>1 DEF GoesOn
<1>2. CASE TcpUpdate(k)
  <2>1. CASE watch[k].value = None
    BY <1>2, <2>1, ReturnEnds DEF TcpUpdate, SeesUpdate, AtPoll
  <2>2. CASE watch[k].value # None
    <3>1. loop'[k] = [loop[k] EXCEPT !.polled = FALSE] /\ loop[k].hand = None
          /\ socket' = socket
      BY <1>2, <2>2 DEF TcpUpdate, SeesUpdate, AtPoll, TypeOK
    <3>2. QED
      BY <1>1, <3>1 DEF TypeOK, Loops
  <2>3. QED
    BY <2>1, <2>2
<1>3. CASE Poll(k)
  <2>1. loop'[k] = [loop[k] EXCEPT !.polled = TRUE] /\ loop[k].hand = None
        /\ socket' = socket
    BY <1>3 DEF Poll, AtPoll, TypeOK
  <2>2. QED
    BY <1>1, <2>1 DEF TypeOK, Loops
<1>4. CASE TcpServe(k)
  <2>1. CASE watch[k].value = None
    BY <1>4, <2>1, ReturnEnds DEF TcpServe, HandsMatch
  <2>2. CASE watch[k].value # None
    <3>1. loop'[k] = [loop[k] EXCEPT !.hand = None] /\ socket' = socket
      BY <1>4, <2>2 DEF TcpServe, TypeOK
    <3>2. QED
      BY <1>1, <3>1 DEF TypeOK, Loops
  <2>3. QED
    BY <2>1, <2>2
<1>5. CASE UdpUpdate(k)
  <2>1. loop[k].state = "running" /\ loop[k].hand = None /\ socket' = socket
    BY <1>5 DEF UdpUpdate, SeesUpdate, AtPoll
  <2>2. CASE watch[k].value = None
    <3>1. loop'[k] = [loop[k] EXCEPT !.polled = FALSE, !.draining = TRUE]
      BY <1>5, <2>2 DEF UdpUpdate, TypeOK
    <3>2. loop'[k].state = "running" /\ loop'[k].hand = None
      BY <2>1, <3>1 DEF TypeOK, Loops
    <3>3. QED
      BY <2>1, <2>2, <3>2 DEF GoesOn
  <2>3. CASE watch[k].value # None
    <3>1. loop'[k] = [loop[k] EXCEPT !.polled = FALSE, !.config = watch[k].value]
      BY <1>5, <2>3 DEF UdpUpdate, TypeOK
    <3>2. QED
      BY <1>1, <2>1, <3>1 DEF TypeOK, Loops
  <2>4. QED
    BY <2>2, <2>3
<1>6. CASE UdpReturn(k)
  BY <1>6, ReturnEnds DEF UdpReturn, AtPoll, HandsMatch
<1>7. CASE UdpFails(k)
  BY <1>7 DEF UdpFails, AtPoll, Ended, TypeOK
<1>8. ASSUME NEW c \in Clients, TcpAccept(k, c) PROVE GoesOn(k)
  <2>1. loop'[k] = [loop[k] EXCEPT !.polled = FALSE, !.hand = c]
    BY <1>8 DEF TcpAccept, TypeOK
  <2>2. client'[c].state = "accepted" /\ client'[c].key = k
    BY <1>8 DEF TcpAccept, TypeOK, Served
  <2>3. /\ loop[k].state = "running" /\ k \notin UdpKeys /\ socket' = socket
        /\ loop'[k].state = loop[k].state /\ loop'[k].hand = c
        /\ loop'[k].draining => loop[k].draining
    BY <1>8, <2>1 DEF TcpAccept, AtPoll, TypeOK, Loops
  <2>4. QED
    BY <2>2, <2>3 DEF GoesOn
<1>9. ASSUME NEW c \in Clients, UdpReceive(k, c) PROVE GoesOn(k)
  <2>1. loop'[k] = [loop[k] EXCEPT !.polled = FALSE] /\ loop[k].hand = None
        /\ socket' = socket
    BY <1>9 DEF UdpReceive, AtPoll, TypeOK
  <2>2. QED
    BY <1>1, <2>1 DEF TypeOK, Loops
<1>10. ASSUME NEW c \in Clients, Arrive(c, k) PROVE GoesOn(k)
  <2>1. loop' = loop /\ socket' = socket
    BY <1>10 DEF Arrive, ClientOnly, listenerVars
  <2>2. loop[k].hand # None => client'[loop[k].hand] = client[loop[k].hand]
    <3>1. loop[k].hand # None => loop[k].hand # c
      BY <1>10 DEF Arrive, HandsMatch, NoClient
    <3>2. loop[k].hand # None => loop[k].hand \in Clients
      BY DEF TypeOK, Loops
    <3>3. QED
      BY <1>10, <3>1, <3>2 DEF Arrive, TypeOK
  <2>3. QED
    BY <2>1, <2>2 DEF GoesOn, HandsMatch
<1>11. QED
  BY <1>2, <1>3, <1>4, <1>5, <1>6, <1>7, <1>8, <1>9, <1>10 DEF Listen

\* A listener's step concerns its own key, and clients of that key.
LEMMA ListenLocal ==
  ASSUME TypeOK, HandsMatch, NEW k \in Keys, Listen(k)
  PROVE  /\ Quiet
         /\ \A j \in Keys : j # k => loop'[j] = loop[j] /\ socket'[j] = socket[j]
         /\ \A c \in Clients : client[c].key # k /\ client[c] # NoClient =>
              client'[c] = client[c]
<1> USE DEF Quiet, ListenerOnly
<1>1. ASSUME Return(k)
      PROVE  /\ \A j \in Keys : j # k => loop'[j] = loop[j] /\ socket'[j] = socket[j]
             /\ \A c \in Clients : client[c].key # k => client'[c] = client[c]
  BY <1>1 DEF Return, ResetAt, TypeOK
<1>2. ASSUME SeesUpdate(k) PROVE Quiet
  <2>1. watch' = [watch EXCEPT ![k].unseen = FALSE] /\ UNCHANGED <<supervisorVars, row>>
    BY <1>2 DEF SeesUpdate
  <2>2. [watch[k] EXCEPT !.unseen = FALSE].value = watch[k].value
    BY DEF TypeOK, Watches
  <2>3. QED
    BY <2>1, <2>2 DEF TypeOK
<1>3. CASE TcpUpdate(k)
  BY <1>1, <1>2, <1>3 DEF TcpUpdate, SeesUpdate, TypeOK
<1>4. CASE Poll(k)
  BY <1>4 DEF Poll, TypeOK
<1>5. CASE TcpServe(k)
  <2>1. client[loop[k].hand].key = k
    BY <1>5 DEF TcpServe, HandsMatch
  <2>2. QED
    BY <1>1, <1>5, <2>1 DEF TcpServe, TypeOK
<1>6. CASE UdpUpdate(k)
  BY <1>2, <1>6 DEF UdpUpdate, SeesUpdate, TypeOK
<1>7. CASE UdpReturn(k)
  BY <1>1, <1>7 DEF UdpReturn
<1>8. CASE UdpFails(k)
  BY <1>8 DEF UdpFails, ResetAt, TypeOK
<1>9. ASSUME NEW c \in Clients, TcpAccept(k, c) \/ UdpReceive(k, c)
      PROVE  /\ Quiet
             /\ \A j \in Keys : j # k => loop'[j] = loop[j] /\ socket'[j] = socket[j]
             /\ \A d \in Clients : client[d].key # k => client'[d] = client[d]
  BY <1>9 DEF TcpAccept, UdpReceive, TypeOK
<1>10. ASSUME NEW c \in Clients, Arrive(c, k)
       PROVE  /\ Quiet /\ UNCHANGED listenerVars
              /\ \A d \in Clients : client[d] # NoClient => client'[d] = client[d]
  BY <1>10 DEF Arrive, ClientOnly, TypeOK
<1>11. QED
  BY <1>3, <1>4, <1>5, <1>6, <1>7, <1>8, <1>9, <1>10 DEF Listen, listenerVars

LEMMA ListenSocketInv ==
  ASSUME TypeOK, FileInv, SocketInv, NEW k \in Keys, Listen(k)
  PROVE  SocketInv'
<1> USE DEF SocketInv
<1>1. Quiet /\ (Ended(k) \/ GoesOn(k))
  BY ListenLocal, ListenEffect
<1>2. UNCHANGED <<phase, prepared, active>> /\ Running
  BY <1>1 DEF Quiet, supervisorVars, Listen, TcpUpdate, UdpUpdate, SeesUpdate, Poll,
     AtPoll, TcpServe, UdpReturn, UdpFails, TcpAccept, UdpReceive, Arrive
<1>3. \A j \in Keys : j # k => loop'[j] = loop[j] /\ socket'[j] = socket[j]
  BY ListenLocal
<1>4. ASSUME NEW j \in Keys, j # k, loop[j].hand # None
      PROVE  client'[loop[j].hand] = client[loop[j].hand]
  <2>1. loop[j].hand \in Clients
    BY <1>4 DEF TypeOK, Loops
  <2>2. client[loop[j].hand].key = j /\ client[loop[j].hand].state = "accepted"
    BY <1>4 DEF HandsMatch
  <2>3. client[loop[j].hand] # NoClient
    BY <2>2 DEF NoClient
  <2>4. QED
    BY <1>4, <2>1, <2>2, <2>3, ListenLocal
<1>5. ASSUME NEW j \in Keys
      PROVE  /\ socket'[j] = "prepared" <=> j \in KeysOf(prepared) \ active
             /\ socket'[j] = "listening" <=> loop'[j].state = "running"
             /\ j \in active => loop'[j].state # "none"
             /\ loop'[j].state = "running" /\ j \notin active => watch'[j].value = None
  <2>1. j \notin active => watch'[j].value = None
    BY <1>1 DEF Quiet, FileInv, ActiveHaveValues
  <2>2. /\ socket[j] = "prepared" <=> j \in KeysOf(prepared) \ active
        /\ socket[j] = "listening" <=> loop[j].state = "running"
        /\ j \in active => loop[j].state # "none"
    BY <1>2 DEF SocketsAreOwned
  <2>3. CASE j = k /\ Ended(k)
    BY <2>1, <2>2, <2>3 DEF Ended, NoLoop
  <2>4. CASE j = k /\ GoesOn(k)
    BY <2>1, <2>2, <2>4 DEF GoesOn
  <2>5. CASE j # k
    BY <1>3, <2>1, <2>2, <2>5
  <2>6. QED
    BY <1>1, <2>3, <2>4, <2>5
<1>6. SocketsAreOwned'
  BY <1>2, <1>5 DEF SocketsAreOwned
<1>7. ASSUME NEW j \in Keys
      PROVE  /\ loop'[j].hand # None =>
                  /\ loop'[j].state = "running" /\ j \notin UdpKeys
                  /\ client'[loop'[j].hand].state = "accepted"
                  /\ client'[loop'[j].hand].key = j
             /\ loop'[j].draining => loop'[j].state = "running" /\ watch'[j].value = None
  <2>1. CASE j = k /\ Ended(k)
    BY <2>1 DEF Ended, NoLoop
  <2>2. CASE j = k /\ GoesOn(k)
    BY <1>1, <2>2 DEF GoesOn, Quiet, HandsMatch
  <2>3. CASE j # k
    BY <1>1, <1>3, <1>4, <2>3 DEF Quiet, HandsMatch
  <2>4. QED
    BY <1>1, <2>1, <2>2, <2>3
<1>8. QED
  BY <1>6, <1>7 DEF HandsMatch

\* A connection that is not in anyone's hand comes, goes on or leaves.
LEMMA ClientSocketInv ==
  ASSUME TypeOK, SocketInv, NEW c \in Clients, Track(c) \/ Leave(c)
  PROVE  SocketInv'
<1>1. UNCHANGED <<phase, prepared, active, watch, socket, loop>>
  BY DEF Track, Leave, ClientOnly, supervisorVars, listenerVars
<1>2. ASSUME NEW j \in Keys, loop[j].hand # None
      PROVE  client'[loop[j].hand] = client[loop[j].hand]
  <2>1. loop[j].hand \in Clients /\ client[loop[j].hand].state = "accepted"
    BY <1>2 DEF TypeOK, Loops, SocketInv, HandsMatch
  <2>2. loop[j].hand # c
    BY <2>1 DEF Track, Leave
  <2>3. QED
    BY <2>1, <2>2 DEF Track, Leave, TypeOK
<1>3. SocketsAreOwned'
  BY <1>1 DEF SocketInv, SocketsAreOwned, Running
<1>4. HandsMatch'
  BY <1>1, <1>2 DEF SocketInv, HandsMatch
<1>5. QED
  BY <1>3, <1>4 DEF SocketInv

LEMMA PrepareSocketInv ==
  ASSUME TypeOK, SocketInv, Prepare
  PROVE  SocketInv'
<1> DEFINE r == Head(todo)
<1>1. /\ phase = "preparing" /\ phase' = phase
      /\ r.key \in active \/ socket[r.key] = "closed"
      /\ socket' = [socket EXCEPT ![r.key] =
                      IF r.key \in active THEN @ ELSE "prepared"]
      /\ UNCHANGED <<active, watch, loop, client>>
  <2>1. r.key \in Keys
    BY FirstRedirect, ConfigType DEF Prepare, TypeOK
  <2>2. QED
    BY <2>1 DEF Prepare, Acceptable, Bindable, clientVars
<1>2. r.key \in Keys /\ Redirected(prepared') = Redirected(prepared) \cup {r}
  BY FirstRedirect, OneMoreRedirect, ConfigType DEF Prepare, TypeOK
<1> HIDE DEF r
<1>3. \A k \in Keys : k \in KeysOf(prepared') \ active <=>
        (k \in KeysOf(prepared) \ active \/ (k = r.key /\ r.key \notin active))
  BY <1>2 DEF KeysOf
<1>4. SocketsAreOwned'
  <2>1. ASSUME NEW k \in Keys
        PROVE  /\ socket'[k] = "prepared" <=> k \in KeysOf(prepared') \ active'
               /\ socket'[k] = "listening" <=> loop[k].state = "running"
               /\ k \in active => loop[k].state # "none"
               /\ loop[k].state = "running" /\ k \notin active => watch[k].value = None
    <3>1. /\ socket[k] = "prepared" <=> k \in KeysOf(prepared) \ active
          /\ socket[k] = "listening" <=> loop[k].state = "running"
          /\ k \in active => loop[k].state # "none"
          /\ loop[k].state = "running" /\ k \notin active => watch[k].value = None
      BY <1>1 DEF SocketInv, SocketsAreOwned, Running
    <3>2. CASE k = r.key /\ r.key \notin active
      BY <1>1, <1>2, <1>3, <3>1, <3>2 DEF TypeOK
    <3>3. CASE ~(k = r.key /\ r.key \notin active)
      <4>1. socket'[k] = socket[k]
        BY <1>1, <1>2, <3>3 DEF TypeOK
      <4>2. QED
        BY <1>1, <1>3, <3>1, <3>3, <4>1
    <3>4. QED
      BY <3>2, <3>3
  <2>2. QED
    BY <1>1, <2>1 DEF SocketsAreOwned
<1>5. HandsMatch'
  BY <1>1 DEF SocketInv, HandsMatch
<1>6. QED
  BY <1>4, <1>5 DEF SocketInv

\* What was bound is dropped; the clients it had were in no one's hand.
LEMMA RejectSocketInv ==
  ASSUME TypeOK, SocketInv, Reject
  PROVE  SocketInv'
<1>1. /\ phase = "preparing" /\ prepared' = <<>>
      /\ \A k \in Keys : socket'[k] = IF socket[k] = "prepared" THEN "closed"
                                      ELSE socket[k]
      /\ \A c \in Clients : client'[c] =
           IF \E k \in Keys : client[c].key = k /\ socket[k] = "prepared"
             THEN NoClient ELSE client[c]
      /\ UNCHANGED <<active, watch, loop>>
  BY DEF Reject
<1>2. KeysOf(prepared') = {}
  BY <1>1, NoRedirects DEF KeysOf
<1>3. \A k \in Keys :
        /\ socket[k] = "listening" <=> loop[k].state = "running"
        /\ k \in active => loop[k].state # "none"
        /\ loop[k].state = "running" /\ k \notin active => watch[k].value = None
  BY <1>1 DEF SocketInv, SocketsAreOwned, Running
<1>4. SocketsAreOwned'
  BY <1>1, <1>2, <1>3 DEF SocketsAreOwned
<1>5. ASSUME NEW k \in Keys, loop[k].hand # None
      PROVE  client'[loop[k].hand] = client[loop[k].hand]
  <2>1. /\ loop[k].hand \in Clients /\ client[loop[k].hand].key = k
        /\ loop[k].state = "running"
    BY <1>5 DEF TypeOK, Loops, SocketInv, HandsMatch
  <2>2. socket[k] = "listening"
    BY <1>3, <2>1
  <2>3. QED
    BY <1>1, <2>1, <2>2
<1>6. HandsMatch'
  BY <1>1, <1>5 DEF SocketInv, HandsMatch
<1>7. QED
  BY <1>4, <1>6 DEF SocketInv

LEMMA RetireSocketInv ==
  ASSUME TypeOK, FileInv, FileInv', SocketInv, RetireRemoved
  PROVE  SocketInv'
<1>1. /\ phase = "preparing" /\ active' = active \cap KeysOf(prepared)
      /\ UNCHANGED <<prepared, socket, loop, client>>
      /\ \A k \in Keys : watch'[k] = watch[k] \/ watch'[k].value = None
  BY DEF RetireRemoved, listenerVars
<1>2. SocketsAreOwned'
  <2>1. ASSUME NEW k \in Keys
        PROVE  /\ socket[k] = "prepared" <=> k \in KeysOf(prepared) \ active'
               /\ socket[k] = "listening" <=> loop[k].state = "running"
               /\ k \in active' => loop[k].state # "none"
    BY <1>1 DEF SocketInv, SocketsAreOwned, Running
  <2>2. \A k \in Keys : k \notin active' => watch'[k].value = None
    BY DEF FileInv, ActiveHaveValues
  <2>3. QED
    BY <1>1, <2>1, <2>2 DEF SocketsAreOwned
<1>3. HandsMatch'
  BY <1>1 DEF SocketInv, HandsMatch
<1>4. QED
  BY <1>2, <1>3 DEF SocketInv

LEMMA CommitSocketInv ==
  ASSUME TypeOK, FileInv, FileInv', SocketInv, Commit
  PROVE  SocketInv'
<1> DEFINE r == Head(prepared)
<1>1. /\ phase = "committing" /\ phase' = phase
      /\ active' = active \cup {r.key}
      /\ watch' = [watch EXCEPT ![r.key] = [value |-> Config(r),
                                            unseen |-> r.key \in active]]
      /\ IF r.key \in active
           THEN UNCHANGED listenerVars
           ELSE /\ socket' = [socket EXCEPT ![r.key] = "listening"]
                /\ loop' = [loop EXCEPT ![r.key] =
                     [NoLoop EXCEPT !.state = "running", !.config = Config(r)]]
      /\ prepared' = Tail(prepared)
      /\ UNCHANGED client
  BY DEF Commit, clientVars
<1>2. r.key \in Keys /\ Redirected(prepared) = Redirected(prepared') \cup {r}
  BY <1>1, FirstRedirect, ConfigType DEF Commit, TypeOK
<1> HIDE DEF r
<1>3. \A k \in Keys : k \in KeysOf(prepared') \ active' <=>
                        (k \in KeysOf(prepared) \ active /\ k # r.key)
  BY <1>1, <1>2 DEF KeysOf
<1>4. /\ \A k \in Keys : k # r.key \/ r.key \in active =>
           socket'[k] = socket[k] /\ loop'[k] = loop[k]
      /\ \A k \in Keys : k # r.key => watch'[k] = watch[k]
      /\ r.key \notin active =>
           /\ socket'[r.key] = "listening" /\ loop'[r.key].state = "running"
           /\ loop'[r.key].hand = None /\ ~loop'[r.key].draining
  <2>1. \A k \in Keys : k # r.key => watch'[k] = watch[k]
    BY <1>1, <1>2 DEF TypeOK
  <2>2. CASE r.key \in active
    BY <1>1, <2>1, <2>2 DEF listenerVars
  <2>3. CASE r.key \notin active
    <3>1. /\ socket' = [socket EXCEPT ![r.key] = "listening"]
          /\ loop' = [loop EXCEPT ![r.key] =
               [NoLoop EXCEPT !.state = "running", !.config = Config(r)]]
      BY <1>1, <2>3
    <3>2. loop'[r.key] = [NoLoop EXCEPT !.state = "running", !.config = Config(r)]
          /\ socket'[r.key] = "listening"
      BY <1>2, <3>1 DEF TypeOK
    <3>3. \A k \in Keys : k # r.key => socket'[k] = socket[k] /\ loop'[k] = loop[k]
      BY <1>2, <3>1 DEF TypeOK
    <3>4. QED
      BY <2>1, <2>3, <3>2, <3>3 DEF NoLoop
  <2>4. QED
    BY <2>2, <2>3
<1>5. SocketsAreOwned'
  <2>1. ASSUME NEW k \in Keys
        PROVE  /\ socket'[k] = "prepared" <=> k \in KeysOf(prepared') \ active'
               /\ socket'[k] = "listening" <=> loop'[k].state = "running"
               /\ k \in active' => loop'[k].state # "none"
    <3>1. /\ socket[k] = "prepared" <=> k \in KeysOf(prepared) \ active
          /\ socket[k] = "listening" <=> loop[k].state = "running"
          /\ k \in active => loop[k].state # "none"
      BY <1>1 DEF SocketInv, SocketsAreOwned, Running
    <3>2. CASE k = r.key /\ r.key \notin active
      BY <1>2, <1>3, <1>4, <3>2
    <3>3. CASE k = r.key /\ r.key \in active
      BY <1>1, <1>3, <1>4, <3>1, <3>3
    <3>4. CASE k # r.key
      BY <1>1, <1>3, <1>4, <3>1, <3>4
    <3>5. QED
      BY <3>2, <3>3, <3>4
  <2>2. \A k \in Keys : k \notin active' => watch'[k].value = None
    BY DEF FileInv, ActiveHaveValues
  <2>3. QED
    BY <2>1, <2>2 DEF SocketsAreOwned
<1>6. HandsMatch'
  <2>1. ASSUME NEW k \in Keys
        PROVE  /\ loop'[k].hand # None =>
                    /\ loop'[k].state = "running" /\ k \notin UdpKeys
                    /\ client[loop'[k].hand].state = "accepted"
                    /\ client[loop'[k].hand].key = k
               /\ loop'[k].draining =>
                    loop'[k].state = "running" /\ watch'[k].value = None
    <3>1. CASE k = r.key /\ r.key \notin active
      BY <1>4, <3>1
    <3>2. CASE k = r.key /\ r.key \in active
      <4>1. watch[k].value # None
        BY <3>2 DEF FileInv, ActiveHaveValues
      <4>2. QED
        BY <1>4, <3>2, <4>1 DEF SocketInv, HandsMatch
    <3>3. CASE k # r.key
      BY <1>4, <3>3 DEF SocketInv, HandsMatch
    <3>4. QED
      BY <3>1, <3>2, <3>3
  <2>2. QED
    BY <1>1, <2>1 DEF HandsMatch
<1>7. QED
  BY <1>5, <1>6 DEF SocketInv

LEMMA RestSocketInv ==
  ASSUME TypeOK, FileInv, SocketInv, EditFile \/ BeginReload \/ Finish \/ Exit
  PROVE  SocketInv'
<1>1. /\ UNCHANGED <<active, watch, socket, loop, client, prepared>>
      /\ Running
  BY DEF EditFile, BeginReload, Finish, Exit, supervisorVars, listenerVars, clientVars,
     Running
<1>2. QED
  BY <1>1 DEF SocketInv, SocketsAreOwned, HandsMatch, Running

-----------------------------------------------------------------------------
(* Rows                                                                    *)

\* Every configuration in use has a row.
RowsExist ==
  /\ \A k \in Keys : watch[k].value # None => row[watch[k].value.name] # "none"
  /\ \A k \in Keys : loop[k].state = "running" =>
       loop[k].config # None /\ row[loop[k].config.name] # "none"
  /\ \A c \in Clients : client[c].state \in {"served", "tracked"} =>
       client[c].config # None /\ row[client[c].config.name] # "none"

LEMMA InitRowsExist == Init => RowsExist
  BY DEF Init, RowsExist, NoLoop, NoClient

LEMMA ConfigNames ==
  ASSUME TypeOK
  PROVE  /\ \A k \in Keys : watch[k].value # None => watch[k].value.name \in Names
         /\ \A k \in Keys : loop[k].config # None => loop[k].config.name \in Names
         /\ \A c \in Clients : client[c].config # None => client[c].config.name \in Names
<1>1. \A x \in Configs \cup {None} : x # None => x.name \in Names
  BY DEF Configs
<1>2. \A k \in Keys : watch[k].value \in Configs \cup {None}
  BY DEF TypeOK, Watches
<1>3. \A k \in Keys : loop[k].config \in Configs \cup {None}
  BY DEF TypeOK, Loops
<1>4. \A c \in Clients : client[c].config \in Configs \cup {None}
  BY DEF TypeOK, Served
<1>5. QED
  BY <1>1, <1>2, <1>3, <1>4

\* Rows stay, and what comes into use had a row or has one now.
LEMMA RowsExistStep ==
  ASSUME TypeOK, RowsExist,
         \A n \in Names : row[n] # "none" => row'[n] # "none",
         \A k \in Keys : \/ watch'[k].value \in {None, watch[k].value}
                         \/ row'[watch'[k].value.name] # "none",
         \A k \in Keys : \/ loop'[k].state # "running"
                         \/ loop[k].state = "running" /\ loop'[k].config = loop[k].config
                         \/ /\ loop'[k].config # None
                            /\ row'[loop'[k].config.name] # "none",
         \A c \in Clients :
           \/ client'[c].state \notin {"served", "tracked"}
           \/ /\ client[c].state \in {"served", "tracked"}
              /\ client'[c].config = client[c].config
           \/ /\ client'[c].config # None
              /\ row'[client'[c].config.name] # "none"
  PROVE  RowsExist'
<1>1. ASSUME NEW k \in Keys, watch'[k].value # None
      PROVE  row'[watch'[k].value.name] # "none"
  BY <1>1, ConfigNames DEF RowsExist
<1>2. ASSUME NEW k \in Keys, loop'[k].state = "running"
      PROVE  loop'[k].config # None /\ row'[loop'[k].config.name] # "none"
  BY <1>2, ConfigNames DEF RowsExist
<1>3. ASSUME NEW c \in Clients, client'[c].state \in {"served", "tracked"}
      PROVE  client'[c].config # None /\ row'[client'[c].config.name] # "none"
  BY <1>3, ConfigNames DEF RowsExist
<1>4. QED
  BY <1>1, <1>2, <1>3 DEF RowsExist

LEMMA SuperviseRowsExist == TypeOK /\ RowsExist /\ Supervise => RowsExist'
<1> SUFFICES ASSUME TypeOK, RowsExist, Supervise PROVE RowsExist'
  OBVIOUS
<1> USE DEF supervisorVars, listenerVars, clientVars
<1>1. CASE UNCHANGED <<watch, loop, client, row>>
  BY <1>1 DEF RowsExist
<1>2. CASE Prepare
  BY <1>2, <1>1 DEF Prepare
<1>3. CASE Reject
  <2>1. UNCHANGED <<watch, loop, row>>
    BY <1>3 DEF Reject
  <2>2. \A c \in Clients : client'[c] = client[c] \/ client'[c] = NoClient
    BY <1>3 DEF Reject
  <2>3. NoClient.state = "none"
    BY DEF NoClient
  <2>4. \A c \in Clients :
          \/ client'[c].state \notin {"served", "tracked"}
          \/ /\ client[c].state \in {"served", "tracked"}
             /\ client'[c].config = client[c].config
    BY <2>2, <2>3
  <2>5. QED
    BY <2>1, <2>4, RowsExistStep
<1>4. CASE RetireRemoved
  <2>1. \A n \in Names : row[n] # "none" => row'[n] # "none"
    BY <1>4 DEF RetireRemoved, RetireRows
  <2>2. \A k \in Keys : watch'[k].value \in {None, watch[k].value}
    BY <1>4 DEF RetireRemoved
  <2>3. UNCHANGED <<loop, client>>
    BY <1>4 DEF RetireRemoved
  <2>4. QED
    BY <2>1, <2>2, <2>3, RowsExistStep
<1>5. CASE Commit
  <2> DEFINE r == Head(prepared)
  <2>1. /\ row' = [row EXCEPT ![r.name] = "live"]
        /\ watch' = [watch EXCEPT ![r.key] = [value |-> Config(r),
                                              unseen |-> r.key \in active]]
        /\ \/ UNCHANGED listenerVars
           \/ loop' = [loop EXCEPT ![r.key] =
                [NoLoop EXCEPT !.state = "running", !.config = Config(r)]]
        /\ UNCHANGED client
    BY <1>5 DEF Commit
  <2>2. /\ r.key \in Keys /\ r.name \in Names
        /\ Config(r) # None /\ Config(r).name = r.name
    BY <1>5, FirstRedirect, ConfigType DEF Commit, TypeOK
  <2> HIDE DEF r
  <2>3. /\ \A n \in Names : row[n] # "none" => row'[n] # "none"
        /\ row'[Config(r).name] = "live"
    BY <2>1, <2>2 DEF TypeOK
  <2>4. \A k \in Keys : watch'[k].value \in {watch[k].value, Config(r)}
    BY <2>1, <2>2 DEF TypeOK
  <2>5. [NoLoop EXCEPT !.state = "running", !.config = Config(r)].config = Config(r)
    BY DEF NoLoop
  <2>6. \A k \in Keys : loop'[k] = loop[k] \/ loop'[k].config = Config(r)
    BY <2>1, <2>2, <2>5 DEF TypeOK
  <2>7. QED
    BY <2>1, <2>2, <2>3, <2>4, <2>6, RowsExistStep
<1>6. CASE EditFile \/ BeginReload \/ Finish \/ Exit
  BY <1>6, <1>1 DEF EditFile, BeginReload, Finish, Exit
<1>7. QED
  BY <1>2, <1>3, <1>4, <1>5, <1>6 DEF Supervise, Apply

LEMMA TrackQuiet ==
  ASSUME TypeOK, RowsExist, NEW c \in Clients, Track(c) \/ Leave(c)
  PROVE  Quiet /\ UNCHANGED <<watch, loop>>
<1>1. CASE Track(c)
  <2>1. row[client[c].config.name] # "none"
    BY <1>1 DEF Track, RowsExist
  <2>2. row' = row
    BY <1>1, <2>1 DEF Track, TypeOK
  <2>3. QED
    BY <1>1, <2>2 DEF Track, ClientOnly, Quiet, listenerVars
<1>2. CASE Leave(c)
  BY <1>2 DEF Leave, ClientOnly, Quiet, listenerVars
<1>3. QED
  BY <1>1, <1>2

LEMMA ClientRowsExist ==
  ASSUME TypeOK, RowsExist, NEW c \in Clients, Track(c) \/ Leave(c)
  PROVE  RowsExist'
<1>1. UNCHANGED <<row, watch, loop>>
  BY TrackQuiet DEF Quiet
<1>2. \A d \in Clients : d # c => client'[d] = client[d]
  BY DEF Track, Leave, TypeOK
<1>3. \/ client'[c].state = "none"
      \/ client[c].state = "served" /\ client'[c].config = client[c].config
  BY DEF Track, Leave, TypeOK, Served, NoClient
<1>4. \A d \in Clients :
        \/ client'[d].state \notin {"served", "tracked"}
        \/ /\ client[d].state \in {"served", "tracked"}
           /\ client'[d].config = client[d].config
  BY <1>2, <1>3
<1>5. QED
  BY <1>1, <1>4, RowsExistStep

-----------------------------------------------------------------------------
(* What a listener does to a client                                        *)

Same(c)   == client'[c] = client[c] /\ due'[c] = due[c]
Gone(c)   == client'[c] = NoClient
Accepted(c) ==
  /\ client[c].state = "waiting" /\ client'[c].state = "accepted"
  /\ client'[c].key = client[c].key /\ due'[c] = due[c]
TakenUp(k, c) ==
  /\ client[c].state = "accepted" /\ client[c].key = k /\ watch[k].value # None
  /\ client'[c].state = "served" /\ client'[c].key = k
  /\ client'[c].config = watch[k].value /\ due'[c] = due[c]
Admitted(k, c) ==
  /\ k \in UdpKeys /\ loop[k].state = "running"
  /\ client'[c].state = "served" /\ client'[c].key = k
  /\ client'[c].config = loop[k].config
Arrived(k, c) ==
  /\ client'[c].state = "waiting" /\ client'[c].key = k
  /\ due'[c] = InForce(k) \cup
       (IF phase = "committing" THEN ConfigsAt(reading, k) ELSE {})

LEMMA ListenClients ==
  ASSUME TypeOK, HandsMatch, NEW k \in Keys, Listen(k), NEW c \in Clients
  PROVE  \/ Same(c) \/ Gone(c) \/ Accepted(c) \/ TakenUp(k, c)
         \/ Admitted(k, c) \/ Arrived(k, c)
<1> USE DEF ListenerOnly
<1>1. ASSUME Return(k), due' = due PROVE Same(c) \/ Gone(c)
  BY <1>1 DEF Return, ResetAt, Same, Gone
<1>2. CASE TcpUpdate(k)
  BY <1>1, <1>2 DEF TcpUpdate, SeesUpdate, Same
<1>3. CASE Poll(k)
  BY <1>3 DEF Poll, Same
<1>4. CASE TcpServe(k)
  <2>1. CASE watch[k].value = None
    BY <1>1, <1>4, <2>1 DEF TcpServe
  <2>2. CASE watch[k].value # None
    <3>1. /\ client' = [client EXCEPT ![loop[k].hand] =
               [@ EXCEPT !.state = "served", !.config = watch[k].value]]
          /\ due' = due /\ loop[k].hand # None
      BY <1>4, <2>2 DEF TcpServe
    <3>2. CASE c = loop[k].hand
      <4>1. client[c].state = "accepted" /\ client[c].key = k
        BY <3>1, <3>2 DEF HandsMatch
      <4>2. client'[c] = [client[c] EXCEPT !.state = "served",
                                           !.config = watch[k].value]
        BY <3>1, <3>2 DEF TypeOK
      <4>3. /\ client'[c].state = "served" /\ client'[c].key = client[c].key
            /\ client'[c].config = watch[k].value
        BY <4>2 DEF TypeOK, Served
      <4>4. QED
        BY <2>2, <3>1, <4>1, <4>3 DEF TakenUp
    <3>3. CASE c # loop[k].hand
      BY <3>1, <3>3 DEF Same, TypeOK
    <3>4. QED
      BY <3>2, <3>3
  <2>3. QED
    BY <2>1, <2>2
<1>5. CASE UdpUpdate(k)
  BY <1>5 DEF UdpUpdate, SeesUpdate, Same
<1>6. CASE UdpReturn(k)
  BY <1>1, <1>6 DEF UdpReturn
<1>7. CASE UdpFails(k)
  BY <1>7 DEF UdpFails, ResetAt, Same, Gone
<1>8. ASSUME NEW d \in Clients, TcpAccept(k, d) PROVE Same(c) \/ Accepted(c)
  <2>1. CASE c = d
    <3>1. client'[c] = [client[c] EXCEPT !.state = "accepted"]
      BY <1>8, <2>1 DEF TcpAccept, TypeOK
    <3>2. client'[c].state = "accepted" /\ client'[c].key = client[c].key
      BY <3>1 DEF TypeOK, Served
    <3>3. QED
      BY <1>8, <2>1, <3>2 DEF TcpAccept, Accepted
  <2>2. CASE c # d
    BY <1>8, <2>2 DEF TcpAccept, Same, TypeOK
  <2>3. QED
    BY <2>1, <2>2
<1>9. ASSUME NEW d \in Clients, UdpReceive(k, d)
      PROVE  Same(c) \/ Gone(c) \/ Admitted(k, c)
  <2>1. CASE c = d /\ loop[k].draining
    BY <1>9, <2>1 DEF UdpReceive, Gone, TypeOK
  <2>2. CASE c = d /\ ~loop[k].draining
    <3>1. client'[c] = [client[c] EXCEPT !.state = "served",
                                         !.config = loop[k].config]
      BY <1>9, <2>2 DEF UdpReceive, TypeOK
    <3>2. /\ client'[c].state = "served" /\ client'[c].key = client[c].key
          /\ client'[c].config = loop[k].config
      BY <3>1 DEF TypeOK, Served
    <3>3. QED
      BY <1>9, <2>2, <3>2 DEF UdpReceive, AtPoll, Admitted
  <2>3. CASE c # d
    BY <1>9, <2>3 DEF UdpReceive, Same, TypeOK
  <2>4. QED
    BY <2>1, <2>2, <2>3
<1>10. ASSUME NEW d \in Clients, Arrive(d, k) PROVE Same(c) \/ Arrived(k, c)
  <2>1. CASE c = d
    BY <1>10, <2>1 DEF Arrive, Arrived, InForce, TypeOK
  <2>2. CASE c # d
    BY <1>10, <2>2 DEF Arrive, Same, TypeOK
  <2>3. QED
    BY <2>1, <2>2
<1>11. QED
  BY <1>2, <1>3, <1>4, <1>5, <1>6, <1>7, <1>8, <1>9, <1>10 DEF Listen

LEMMA ListenRowsExist ==
  ASSUME TypeOK, FileInv, HandsMatch, RowsExist, NEW k \in Keys, Listen(k)
  PROVE  RowsExist'
<1>1. Quiet /\ (Ended(k) \/ GoesOn(k)) /\ row' = row
  BY ListenLocal, ListenEffect DEF Quiet
<1>2. \/ loop'[k].state # "running" \/ loop'[k].config = loop[k].config
      \/ loop'[k].config = watch[k].value /\ watch[k].value # None
  <2>1. CASE UNCHANGED loop \/ loop' = [loop EXCEPT ![k].hand = None]
             \/ (\E b \in BOOLEAN : loop' = [loop EXCEPT ![k].polled = b])
             \/ (\E d \in Clients : loop' = [loop EXCEPT ![k].polled = FALSE, ![k].hand = d])
    BY <2>1 DEF TypeOK, Loops
  <2>2. CASE loop' = [loop EXCEPT ![k] = NoLoop]
    BY <2>2 DEF TypeOK, NoLoop
  <2>3. CASE UdpUpdate(k)
    BY <2>3 DEF UdpUpdate, TypeOK, Loops
  <2>4. CASE UdpFails(k)
    BY <2>4 DEF UdpFails, TypeOK, NoLoop
  <2>5. QED
    BY <2>1, <2>2, <2>3, <2>4 DEF Listen, TcpUpdate, Poll, TcpServe, UdpReturn, Return,
       TcpAccept, UdpReceive, Arrive, ClientOnly, listenerVars
<1>3. ASSUME NEW j \in Keys
      PROVE  \/ loop'[j].state # "running"
             \/ loop[j].state = "running" /\ loop'[j].config = loop[j].config
             \/ /\ loop'[j].config # None
                /\ row'[loop'[j].config.name] # "none"
  <2>1. CASE j # k
    BY <2>1, ListenLocal
  <2>2. CASE j = k /\ Ended(k)
    BY <2>2 DEF Ended, NoLoop
  <2>3. CASE j = k /\ GoesOn(k)
    BY <1>1, <1>2, <2>3 DEF GoesOn, RowsExist
  <2>4. QED
    BY <1>1, <2>1, <2>2, <2>3
<1>4. ASSUME NEW c \in Clients
      PROVE  \/ client'[c].state \notin {"served", "tracked"}
             \/ /\ client[c].state \in {"served", "tracked"}
                /\ client'[c].config = client[c].config
             \/ /\ client'[c].config # None
                /\ row'[client'[c].config.name] # "none"
  <2>1. CASE Same(c) \/ Gone(c) \/ Accepted(c) \/ Arrived(k, c)
    BY <2>1 DEF Same, Gone, Accepted, Arrived, NoClient
  <2>2. CASE TakenUp(k, c)
    BY <1>1, <2>2 DEF TakenUp, RowsExist
  <2>3. CASE Admitted(k, c)
    BY <1>1, <2>3 DEF Admitted, RowsExist
  <2>4. QED
    BY <2>1, <2>2, <2>3, ListenClients
<1>5. QED
  BY <1>1, <1>3, <1>4, RowsExistStep DEF Quiet

-----------------------------------------------------------------------------
(* Under which file a client is served                                     *)

\* A client that is not served yet may be, under what its listener was last
\* sent and under what it is about to be sent.
DueCovers == \A c \in Clients :
  /\ Running /\ client[c].state \in {"waiting", "accepted"} =>
       /\ client[c].key \in active => watch[client[c].key].value \in due[c]
       /\ phase = "committing" => ConfigsAt(reading, client[c].key) \subseteq due[c]

DueInv == DueCovers /\ ServedUnderCurrent

LEMMA InitDueInv == Init => DueInv
  BY DEF Init, DueInv, DueCovers, ServedUnderCurrent, NoClient

\* What a client that arrives is due contains what its listener has.
LEMMA ArrivedIsCovered ==
  ASSUME TypeOK, FileInv, Running, NEW k \in active
  PROVE  watch[k].value \in InForce(k) \cup
           (IF phase = "committing" THEN ConfigsAt(reading, k) ELSE {})
<1>1. CASE phase = "committing"
  BY <1>1 DEF FileInv, CommitGoesOn
<1>2. CASE phase \in {"preparing", "idle"}
  BY <1>2 DEF FileInv, FirstApply, AppliedIsOneFile, InForce
<1>3. CASE phase \notin {"preparing", "idle", "committing"}
  BY <1>3 DEF Running, TypeOK
<1>4. QED
  BY <1>1, <1>2, <1>3

LEMMA ListenDueInv ==
  ASSUME TypeOK, FileInv, HandsMatch, DueInv, NEW k \in Keys, Listen(k)
  PROVE  DueInv'
<1>1. /\ UNCHANGED <<phase, active, reading, applied>>
      /\ \A j \in Keys : watch'[j].value = watch[j].value
  BY ListenLocal DEF Quiet, supervisorVars
<1>2. Running
  BY DEF Listen, TcpUpdate, UdpUpdate, SeesUpdate, Poll, AtPoll, TcpServe, UdpReturn,
     UdpFails, TcpAccept, UdpReceive, Arrive
<1>3. active \subseteq Keys
  BY DEF TypeOK
<1>4. ASSUME NEW c \in Clients, client'[c].state \in {"waiting", "accepted"}
      PROVE  /\ client'[c].key \in active => watch[client'[c].key].value \in due'[c]
             /\ phase = "committing" =>
                  ConfigsAt(reading, client'[c].key) \subseteq due'[c]
  <2>1. CASE Same(c) \/ Accepted(c)
    BY <1>2, <1>4, <2>1 DEF Same, Accepted, DueInv, DueCovers
  <2>2. CASE Gone(c) \/ TakenUp(k, c) \/ Admitted(k, c)
    BY <1>4, <2>2 DEF Gone, TakenUp, Admitted, NoClient
  <2>3. CASE Arrived(k, c)
    BY <1>2, <2>3, ArrivedIsCovered DEF Arrived
  <2>4. QED
    BY <2>1, <2>2, <2>3, ListenClients
<1>5. ASSUME NEW c \in Clients, client'[c].state \in {"served", "tracked"},
             client'[c].key \notin UdpKeys
      PROVE  client'[c].config \in due'[c]
  <2>1. CASE Same(c)
    BY <1>5, <2>1 DEF Same, DueInv, ServedUnderCurrent
  <2>2. CASE Gone(c) \/ Accepted(c) \/ Arrived(k, c) \/ Admitted(k, c)
    BY <1>5, <2>2 DEF Gone, Accepted, Arrived, Admitted, NoClient
  <2>3. CASE TakenUp(k, c)
    <3>1. k \in active
      BY <2>3 DEF TakenUp, FileInv, ActiveHaveValues
    <3>2. QED
      BY <1>2, <2>3, <3>1 DEF TakenUp, DueInv, DueCovers
  <2>4. QED
    BY <2>1, <2>2, <2>3, ListenClients
<1>6. DueCovers'
  BY <1>1, <1>3, <1>4 DEF DueCovers
<1>7. QED
  BY <1>5, <1>6 DEF DueInv, ServedUnderCurrent

LEMMA ClientDueInv ==
  ASSUME TypeOK, RowsExist, DueInv, NEW c \in Clients, Track(c) \/ Leave(c)
  PROVE  DueInv'
<1>1. UNCHANGED <<phase, active, reading, watch>> /\ Running
  BY TrackQuiet DEF Quiet, supervisorVars, Track, Leave
<1>2. \A d \in Clients : d # c => client'[d] = client[d] /\ due'[d] = due[d]
  BY DEF Track, Leave, TypeOK
<1>3. \/ client'[c].state = "none"
      \/ /\ client[c].state = "served" /\ client'[c].state = "tracked"
         /\ client'[c].key = client[c].key /\ client'[c].config = client[c].config
         /\ due'[c] = due[c]
  BY DEF Track, Leave, TypeOK, Served, NoClient
<1>4. DueCovers'
  BY <1>1, <1>2, <1>3 DEF DueInv, DueCovers, Running
<1>5. ServedUnderCurrent'
  BY <1>2, <1>3 DEF DueInv, ServedUnderCurrent
<1>6. QED
  BY <1>4, <1>5 DEF DueInv

LEMMA RejectDueInv == TypeOK /\ DueInv /\ Reject => DueInv'
<1> SUFFICES ASSUME TypeOK, DueInv, Reject PROVE DueInv'
  OBVIOUS
<1>1. /\ phase = "preparing" /\ phase' \in {"exited", "idle"}
      /\ UNCHANGED <<active, watch, due>>
      /\ \A c \in Clients : client'[c] = client[c] \/ client'[c] = NoClient
  BY DEF Reject
<1>2. NoClient.state = "none"
  BY DEF NoClient
<1>3. QED
  BY <1>1, <1>2 DEF DueInv, DueCovers, ServedUnderCurrent, Running

LEMMA RetireDueInv == TypeOK /\ FileInv /\ DueInv /\ RetireRemoved => DueInv'
<1> SUFFICES ASSUME TypeOK, FileInv, DueInv, RetireRemoved PROVE DueInv'
  OBVIOUS
<1>1. /\ phase = "preparing" /\ active' = active \cap KeysOf(prepared)
      /\ UNCHANGED <<reading, client>>
      /\ \A k \in Keys : k \in active' => watch'[k] = watch[k]
      /\ \A c \in Clients : due'[c] =
           IF client[c].state \in {"waiting", "accepted"}
             THEN due[c] \cup ConfigsAt(reading, client[c].key)
             ELSE due[c]
  BY DEF RetireRemoved
<1>2. active \subseteq Keys
  BY DEF TypeOK
<1>3. DueCovers'
  BY <1>1, <1>2 DEF DueInv, DueCovers, Running
<1>4. ServedUnderCurrent'
  BY <1>1 DEF DueInv, ServedUnderCurrent
<1>5. QED
  BY <1>3, <1>4 DEF DueInv

LEMMA CommitDueInv == TypeOK /\ FileInv /\ DueInv /\ Commit => DueInv'
<1> SUFFICES ASSUME TypeOK, FileInv, DueInv, Commit PROVE DueInv'
  OBVIOUS
<1> DEFINE r == Head(prepared)
<1>1. /\ phase = "committing" /\ phase' = phase
      /\ active' = active \cup {r.key}
      /\ watch' = [watch EXCEPT ![r.key] = [value |-> Config(r),
                                            unseen |-> r.key \in active]]
      /\ UNCHANGED <<reading, client, due>>
  BY DEF Commit, clientVars
<1>2. /\ r \in Redirected(reading) /\ r.key \in Keys
      /\ \A k \in Keys : watch'[k].value = IF k = r.key THEN Config(r)
                                           ELSE watch[k].value
  <2>1. r \in Redirected(prepared) /\ r.key \in Keys
    BY FirstRedirect, ConfigType DEF Commit, TypeOK
  <2>2. r \in Redirected(reading)
    BY <1>1, <2>1 DEF FileInv, CommitGoesOn
  <2>3. QED
    BY <1>1, <2>1, <2>2 DEF TypeOK
<1> HIDE DEF r
<1>3. Config(r) \in ConfigsAt(reading, r.key) /\ active \subseteq Keys
  BY <1>2 DEF ConfigsAt, TypeOK
<1>4. ASSUME NEW c \in Clients, client[c].state \in {"waiting", "accepted"},
             client[c].key \in active'
      PROVE  watch'[client[c].key].value \in due[c]
  <2>1. ConfigsAt(reading, client[c].key) \subseteq due[c]
    BY <1>1, <1>4 DEF DueInv, DueCovers, Running
  <2>2. CASE client[c].key = r.key
    BY <1>2, <1>3, <2>1, <2>2
  <2>3. CASE client[c].key # r.key
    BY <1>1, <1>2, <1>3, <1>4, <2>3 DEF DueInv, DueCovers, Running
  <2>4. QED
    BY <2>2, <2>3
<1>5. DueCovers'
  BY <1>1, <1>4 DEF DueInv, DueCovers, Running
<1>6. ServedUnderCurrent'
  BY <1>1 DEF DueInv, ServedUnderCurrent
<1>7. QED
  BY <1>5, <1>6 DEF DueInv

LEMMA RestDueInv ==
  ASSUME TypeOK, DueInv, EditFile \/ BeginReload \/ Prepare \/ Finish \/ Exit
  PROVE  DueInv'
<1>1. /\ UNCHANGED <<active, watch, client, due>> /\ Running
      /\ phase' = "committing" => phase = "committing" /\ reading' = reading
  BY DEF EditFile, BeginReload, Prepare, Finish, Exit, supervisorVars, clientVars,
     Running
<1>2. QED
  BY <1>1 DEF DueInv, DueCovers, ServedUnderCurrent, Running

-----------------------------------------------------------------------------
(* Together                                                                *)

IInv == TypeOK /\ FileInv /\ SocketInv /\ RowsExist /\ DueInv

LEMMA IInvStep == IInv /\ [Next]_vars => IInv'
<1> SUFFICES ASSUME IInv, [Next]_vars PROVE IInv'
  OBVIOUS
<1> USE DEF IInv
<1>1. TypeOK'
  BY TypeOKStep
<1>2. ASSUME NEW k \in Keys, Listen(k) PROVE IInv'
  <2>1. HandsMatch /\ Quiet
    BY <1>2, ListenLocal DEF SocketInv
  <2>2. FileInv' /\ SocketInv'
    BY <1>2, <2>1, QuietFileInv, ListenSocketInv
  <2>3. RowsExist' /\ DueInv'
    BY <1>2, <2>1, ListenRowsExist, ListenDueInv
  <2>4. QED
    BY <1>1, <2>2, <2>3
<1>3. ASSUME NEW c \in Clients, Track(c) \/ Leave(c) PROVE IInv'
  <2>1. FileInv'
    BY <1>3, TrackQuiet, QuietFileInv
  <2>2. SocketInv' /\ RowsExist' /\ DueInv'
    BY <1>3, ClientSocketInv, ClientRowsExist, ClientDueInv
  <2>3. QED
    BY <1>1, <2>1, <2>2
<1>4. CASE Supervise
  <2>1. RowsExist'
    BY <1>4, SuperviseRowsExist
  <2>2. CASE EditFile
    <3>1. Quiet
      BY <2>2 DEF EditFile, Quiet
    <3>2. QED
      BY <1>1, <2>1, <2>2, <3>1, QuietFileInv, RestSocketInv, RestDueInv
  <2>3. CASE BeginReload
    BY <1>1, <2>1, <2>3, BeginFileInv, RestSocketInv, RestDueInv
  <2>4. CASE Prepare
    BY <1>1, <2>1, <2>4, PrepareFileInv, PrepareSocketInv, RestDueInv
  <2>5. CASE Reject
    BY <1>1, <2>1, <2>5, RejectFileInv, RejectSocketInv, RejectDueInv
  <2>6. CASE RetireRemoved
    BY <1>1, <2>1, <2>6, RetireFileInv, RetireSocketInv, RetireDueInv
  <2>7. CASE Commit
    BY <1>1, <2>1, <2>7, CommitFileInv, CommitSocketInv, CommitDueInv
  <2>8. CASE Finish
    BY <1>1, <2>1, <2>8, FinishFileInv, RestSocketInv, RestDueInv
  <2>9. CASE Exit
    <3>1. FileInv'
      BY <2>9 DEF Exit, FileInv, ActiveHaveValues, ReadingSplits, CommitGoesOn,
         FirstApply, AppliedIsOneFile
    <3>2. QED
      BY <1>1, <2>1, <2>9, <3>1, RestSocketInv, RestDueInv
  <2>10. QED
    BY <1>4, <2>2, <2>3, <2>4, <2>5, <2>6, <2>7, <2>8, <2>9 DEF Supervise, Apply
<1>5. CASE UNCHANGED vars
  <2>1. UNCHANGED <<file, phase, reading, todo, prepared, active, names, applied,
                    watch, socket, loop, client, due, row>>
    BY <1>5 DEF vars, supervisorVars, listenerVars, clientVars
  <2>2. FileInv'
    BY <2>1, QuietFileInv DEF Quiet, supervisorVars
  <2>3. SocketInv'
    BY <2>1 DEF SocketInv, SocketsAreOwned, HandsMatch, Running
  <2>4. RowsExist' /\ DueInv'
    BY <2>1 DEF RowsExist, DueInv, DueCovers, ServedUnderCurrent, Running
  <2>5. QED
    BY <1>1, <2>2, <2>3, <2>4
<1>6. QED
  BY <1>2, <1>3, <1>4, <1>5 DEF Next

THEOREM InductiveInvariant == Spec => []IInv
<1>1. Init => IInv
  BY InitTypeOK, InitFileInv, InitSocketInv, InitRowsExist, InitDueInv DEF IInv
<1>2. QED
  BY <1>1, IInvStep, PTL DEF Spec

\* "On any error above, temporary sockets drop and all old listeners/settings
\* stay intact": whenever no commit is under way, the listeners, the names and
\* the live rows are those of the file last applied, for any sequence of
\* reloads, accepted and rejected.
THEOREM ReloadsAreAtomic == Spec => []AppliedIsOneFile
<1>1. IInv => AppliedIsOneFile
  BY DEF IInv, FileInv
<1>2. QED
  BY <1>1, InductiveInvariant, PTL

\* No socket outlives the reload that bound it or the task that listens on it,
\* and a task whose listener was removed has been told to end.
THEOREM NoSocketIsLeaked == Spec => []SocketsAreOwned
<1>1. IInv => SocketsAreOwned
  BY DEF IInv, SocketInv
<1>2. QED
  BY <1>1, InductiveInvariant, PTL

\* A TCP client is never served under a file older than its connection.
THEOREM NoStaleService == Spec => []ServedUnderCurrent
<1>1. IInv => ServedUnderCurrent
  BY DEF IInv, DueInv
<1>2. QED
  BY <1>1, InductiveInvariant, PTL

\* Between reloads the statistics show the redirects of the file in force and
\* those that still have clients.
THEOREM RowsAreRight == Spec => []RowsFollowClients
<1>1. IInv => RowsFollowClients
  <2> SUFFICES ASSUME IInv, phase = "idle", NEW n \in Names
               PROVE  Visible(n) <=> \/ n \in names
                                     \/ \E c \in Clients :
                                          client[c].state = "tracked" /\ client[c].config.name = n
    BY DEF RowsFollowClients
  <2>1. row[n] = "live" <=> n \in names
    BY DEF IInv, FileInv, FirstApply, AppliedIsOneFile
  <2>2. row[n] \in {"none", "live", "retired"}
    BY DEF IInv, TypeOK
  <2>3. ASSUME NEW c \in Clients, client[c].state = "tracked", client[c].config.name = n
        PROVE  row[n] # "none"
    BY <2>3 DEF IInv, RowsExist
  <2>4. QED
    BY <2>1, <2>2, <2>3 DEF Visible
<1>2. QED
  BY <1>1, InductiveInvariant, PTL
-----------------------------------------------------------------------------
(* What a removed listener still waits for                                 *)

\* The listener at k has been told to end and has not heard of it, or it is a
\* relay that drains.
Told(k) == watch[k].unseen \/ (k \in UdpKeys /\ loop[k].draining)

RetiredAreTold == \A k \in Keys :
  loop[k].state = "running" /\ k \notin active => Told(k)

\* An accepted connection is in the hand of the listener it came to.
AcceptedAreHeld == \A c \in Clients : client[c].state = "accepted" =>
  /\ client[c].key \in Keys \ UdpKeys
  /\ loop[client[c].key].hand = c

LEMMA ListenTold ==
  ASSUME TypeOK, FileInv, HandsMatch, NEW k \in Keys, Listen(k),
         loop'[k].state = "running", k \notin active, Told(k)
  PROVE  Told(k)'
<1>1. watch[k].value = None
  BY DEF FileInv, ActiveHaveValues
<1>2. ASSUME Return(k) PROVE FALSE
  BY <1>2 DEF Return, TypeOK, NoLoop
<1>3. ASSUME watch'[k] = watch[k], loop'[k].draining = loop[k].draining
      PROVE  Told(k)'
  BY <1>3 DEF Told
<1>4. CASE TcpUpdate(k)
  BY <1>1, <1>2, <1>4 DEF TcpUpdate
<1>5. CASE Poll(k)
  <2>1. loop'[k] = [loop[k] EXCEPT !.polled = TRUE] /\ watch' = watch
    BY <1>5 DEF Poll, TypeOK
  <2>2. QED
    BY <1>3, <2>1 DEF TypeOK, Loops
<1>6. CASE TcpServe(k)
  BY <1>1, <1>2, <1>6 DEF TcpServe
<1>7. CASE UdpUpdate(k)
  <2>1. loop'[k] = [loop[k] EXCEPT !.polled = FALSE, !.draining = TRUE]
    BY <1>1, <1>7 DEF UdpUpdate, TypeOK
  <2>2. loop'[k].draining
    BY <2>1 DEF TypeOK, Loops
  <2>3. k \in UdpKeys
    BY <1>7 DEF UdpUpdate
  <2>4. QED
    BY <2>2, <2>3 DEF Told
<1>8. CASE UdpReturn(k)
  BY <1>2, <1>8 DEF UdpReturn
<1>9. CASE UdpFails(k)
  BY <1>9 DEF UdpFails, TypeOK, NoLoop
<1>10. ASSUME NEW c \in Clients, TcpAccept(k, c) PROVE Told(k)'
  <2>1. loop'[k] = [loop[k] EXCEPT !.polled = FALSE, !.hand = c] /\ watch' = watch
    BY <1>10 DEF TcpAccept, TypeOK
  <2>2. QED
    BY <1>3, <2>1 DEF TypeOK, Loops
<1>11. ASSUME NEW c \in Clients, UdpReceive(k, c) PROVE Told(k)'
  <2>1. loop'[k] = [loop[k] EXCEPT !.polled = FALSE] /\ watch' = watch
    BY <1>11 DEF UdpReceive, TypeOK
  <2>2. QED
    BY <1>3, <2>1 DEF TypeOK, Loops
<1>12. ASSUME NEW c \in Clients, Arrive(c, k) PROVE Told(k)'
  BY <1>3, <1>12 DEF Arrive, ClientOnly, listenerVars
<1>13. QED
  BY <1>4, <1>5, <1>6, <1>7, <1>8, <1>9, <1>10, <1>11, <1>12 DEF Listen

\* A listener's step hears its own channel only.
LEMMA ListenHears ==
  ASSUME TypeOK, NEW k \in Keys, Listen(k)
  PROVE  \A j \in Keys : j # k => watch'[j] = watch[j]
  BY DEF Listen, TcpUpdate, SeesUpdate, Poll, TcpServe, UdpUpdate, UdpReturn, UdpFails,
     TcpAccept, UdpReceive, Arrive, ClientOnly, TypeOK

LEMMA ListenRetiredAreTold ==
  ASSUME TypeOK, FileInv, HandsMatch, RetiredAreTold, NEW k \in Keys, Listen(k)
  PROVE  RetiredAreTold'
<1>1. active' = active
  BY ListenLocal DEF Quiet, supervisorVars
<1>2. SUFFICES ASSUME NEW j \in Keys, loop'[j].state = "running", j \notin active
               PROVE  Told(j)'
  BY <1>1 DEF RetiredAreTold
<1>3. CASE j = k
  <2>1. loop[k].state = "running"
    BY <1>2, <1>3, ListenEffect DEF Ended, GoesOn
  <2>2. QED
    BY <1>2, <1>3, <2>1, ListenTold DEF RetiredAreTold
<1>4. CASE j # k
  <2>1. loop'[j] = loop[j] /\ watch'[j] = watch[j]
    BY <1>4, ListenLocal, ListenHears
  <2>2. QED
    BY <1>2, <2>1 DEF RetiredAreTold, Told
<1>5. QED
  BY <1>3, <1>4
\* What a listener that goes on does to a client it had accepted: nothing,
\* until it serves it, and it accepts no other meanwhile.
LEMMA ListenAcceptedAreHeld ==
  ASSUME TypeOK, HandsMatch, AcceptedAreHeld, NEW k \in Keys, Listen(k)
  PROVE  AcceptedAreHeld'
<1> SUFFICES ASSUME NEW c \in Clients, client'[c].state = "accepted"
             PROVE  /\ client'[c].key \in Keys \ UdpKeys
                    /\ loop'[client'[c].key].hand = c
  BY DEF AcceptedAreHeld
<1>1. ASSUME client'[c] = client[c], client[c].key # k
      PROVE  /\ client'[c].key \in Keys \ UdpKeys
             /\ loop'[client'[c].key].hand = c
  BY <1>1, ListenLocal DEF AcceptedAreHeld
<1>2. ASSUME client'[c] = client[c], loop'[k].hand = loop[k].hand
      PROVE  /\ client'[c].key \in Keys \ UdpKeys
             /\ loop'[client'[c].key].hand = c
  BY <1>1, <1>2 DEF AcceptedAreHeld
<1>3. ASSUME Return(k) PROVE client'[c] = client[c] /\ client[c].key # k
  BY <1>3 DEF Return, ResetAt, NoClient
<1>4. CASE TcpUpdate(k)
  <2>1. CASE watch[k].value = None
    BY <1>1, <1>3, <1>4, <2>1 DEF TcpUpdate
  <2>2. CASE watch[k].value # None
    <3>1. loop'[k] = [loop[k] EXCEPT !.polled = FALSE] /\ client' = client
      BY <1>4, <2>2 DEF TcpUpdate, TypeOK
    <3>2. QED
      BY <1>2, <3>1 DEF TypeOK, Loops
  <2>3. QED
    BY <2>1, <2>2
<1>5. CASE Poll(k)
  <2>1. loop'[k] = [loop[k] EXCEPT !.polled = TRUE] /\ client' = client
    BY <1>5 DEF Poll, TypeOK
  <2>2. QED
    BY <1>2, <2>1 DEF TypeOK, Loops
<1>6. CASE TcpServe(k)
  <2>1. CASE watch[k].value = None
    BY <1>1, <1>3, <1>6, <2>1 DEF TcpServe
  <2>2. CASE watch[k].value # None
    <3>1. client' = [client EXCEPT ![loop[k].hand] =
                       [@ EXCEPT !.state = "served", !.config = watch[k].value]]
      BY <1>6, <2>2 DEF TcpServe
    <3>2. client'[c] = client[c] /\ c # loop[k].hand
      BY <3>1 DEF TypeOK, Served
    <3>3. client[c].key # k
      BY <3>2 DEF AcceptedAreHeld
    <3>4. QED
      BY <1>1, <3>2, <3>3
  <2>3. QED
    BY <2>1, <2>2
<1>7. CASE UdpUpdate(k)
  <2>1. client' = client /\ k \in UdpKeys
    BY <1>7 DEF UdpUpdate
  <2>2. client[c].key # k
    BY <2>1 DEF AcceptedAreHeld
  <2>3. QED
    BY <1>1, <2>1, <2>2
<1>8. CASE UdpReturn(k)
  BY <1>1, <1>3, <1>8 DEF UdpReturn
<1>9. CASE UdpFails(k)
  <2>1. client'[c] = client[c] /\ client[c].key # k
    BY <1>9 DEF UdpFails, ResetAt, NoClient
  <2>2. QED
    BY <1>1, <2>1
<1>10. ASSUME NEW d \in Clients, TcpAccept(k, d)
       PROVE  /\ client'[c].key \in Keys \ UdpKeys
              /\ loop'[client'[c].key].hand = c
  <2>1. /\ client' = [client EXCEPT ![d].state = "accepted"]
        /\ loop' = [loop EXCEPT ![k].polled = FALSE, ![k].hand = d]
        /\ client[d].key = k /\ k \notin UdpKeys /\ loop[k].hand = None
    BY <1>10 DEF TcpAccept, AtPoll
  <2>2. CASE c = d
    <3>1. loop'[k] = [loop[k] EXCEPT !.polled = FALSE, !.hand = d]
      BY <2>1 DEF TypeOK
    <3>2. loop'[k].hand = d
      BY <3>1 DEF TypeOK, Loops
    <3>3. client'[d] = [client[d] EXCEPT !.state = "accepted"]
      BY <2>1 DEF TypeOK
    <3>4. client'[d].key = k
      BY <2>1, <3>3 DEF TypeOK, Served
    <3>5. QED
      BY <2>1, <2>2, <3>2, <3>4
  <2>3. CASE c # d
    <3>1. client'[c] = client[c]
      BY <2>1, <2>3 DEF TypeOK
    <3>2. client[c].key # k
      BY <2>1, <3>1, NoneAssumption DEF AcceptedAreHeld
    <3>3. QED
      BY <1>1, <3>1, <3>2
  <2>4. QED
    BY <2>2, <2>3
<1>11. ASSUME NEW d \in Clients, UdpReceive(k, d)
       PROVE  /\ client'[c].key \in Keys \ UdpKeys
              /\ loop'[client'[c].key].hand = c
  <2>1. k \in UdpKeys
    BY <1>11 DEF UdpReceive
  <2>2. client'[c] = client[c]
    BY <1>11 DEF UdpReceive, TypeOK, Served, NoClient
  <2>3. client[c].key # k
    BY <2>1, <2>2 DEF AcceptedAreHeld
  <2>4. QED
    BY <1>1, <2>2, <2>3
<1>12. ASSUME NEW d \in Clients, Arrive(d, k)
       PROVE  /\ client'[c].key \in Keys \ UdpKeys
              /\ loop'[client'[c].key].hand = c
  <2>1. client'[c] = client[c] /\ loop' = loop
    BY <1>12 DEF Arrive, ClientOnly, listenerVars, TypeOK
  <2>2. QED
    BY <1>2, <2>1
<1>13. QED
  BY <1>4, <1>5, <1>6, <1>7, <1>8, <1>9, <1>10, <1>11, <1>12 DEF Listen

LEMMA ClientHeld ==
  ASSUME TypeOK, RetiredAreTold, AcceptedAreHeld,
         NEW c \in Clients, Track(c) \/ Leave(c)
  PROVE  RetiredAreTold' /\ AcceptedAreHeld'
<1>1. UNCHANGED <<active, watch, loop>>
  BY DEF Track, Leave, ClientOnly, supervisorVars, listenerVars
<1>2. \A d \in Clients : client'[d].state = "accepted" => client'[d] = client[d]
  BY DEF Track, Leave, NoClient, TypeOK, Served
<1>3. QED
  BY <1>1, <1>2 DEF RetiredAreTold, AcceptedAreHeld, Told

\* The supervisor tells what it removes, and starts only where nothing runs.
LEMMA SuperviseHeld ==
  ASSUME TypeOK, FileInv, SocketInv, RetiredAreTold, AcceptedAreHeld, Supervise
  PROVE  RetiredAreTold' /\ AcceptedAreHeld'
<1>1. ASSUME UNCHANGED <<active, watch, loop>>,
             \A c \in Clients : client'[c] = client[c] \/ client'[c] = NoClient
      PROVE  RetiredAreTold' /\ AcceptedAreHeld'
  BY <1>1 DEF RetiredAreTold, AcceptedAreHeld, Told, NoClient
<1>2. CASE EditFile \/ BeginReload \/ Prepare \/ Reject \/ Finish \/ Exit
  <2>1. UNCHANGED <<active, watch, loop>>
    BY <1>2 DEF EditFile, BeginReload, Prepare, Reject, Finish, Exit, supervisorVars,
       listenerVars
  <2>2. \A c \in Clients : client'[c] = client[c] \/ client'[c] = NoClient
    BY <1>2 DEF EditFile, BeginReload, Prepare, Reject, Finish, Exit, clientVars
  <2>3. QED
    BY <1>1, <2>1, <2>2
<1>3. CASE RetireRemoved
  <2>1. /\ UNCHANGED <<loop, client>>
        /\ active' = active \cap KeysOf(prepared)
        /\ \A k \in Keys : watch'[k] = IF k \in active \ KeysOf(prepared)
                                         THEN [value |-> None, unseen |-> TRUE]
                                         ELSE watch[k]
    BY <1>3 DEF RetireRemoved, listenerVars
  <2>2. RetiredAreTold'
    BY <2>1 DEF RetiredAreTold, Told
  <2>3. QED
    BY <2>1, <2>2 DEF AcceptedAreHeld
<1>4. CASE Commit
  <2> DEFINE r == Head(prepared)
  <2>1. r.key \in Keys
    BY <1>4, FirstRedirect, ConfigType DEF Commit, TypeOK
  <2>2. /\ client' = client /\ active' = active \cup {r.key}
        /\ watch' = [watch EXCEPT ![r.key] = [value |-> Config(r),
                                              unseen |-> r.key \in active]]
        /\ IF r.key \in active
             THEN UNCHANGED listenerVars
             ELSE loop' = [loop EXCEPT ![r.key] =
                    [NoLoop EXCEPT !.state = "running", !.config = Config(r)]]
    BY <1>4 DEF Commit, clientVars
  <2> HIDE DEF r
  <2>3. \A k \in Keys : k # r.key => watch'[k] = watch[k] /\ loop'[k] = loop[k]
    BY <2>1, <2>2 DEF listenerVars, TypeOK
  <2>4. RetiredAreTold'
    BY <2>2, <2>3 DEF RetiredAreTold, Told
  <2>5. r.key \notin active => loop[r.key].hand = None
    <3>1. r.key \notin active => socket[r.key] = "prepared"
      BY <1>4, <2>1, FirstRedirect DEF Commit, TypeOK, SocketInv, SocketsAreOwned,
         Running, KeysOf, r
    <3>2. socket[r.key] = "prepared" => loop[r.key].state # "running"
      BY <1>4, <2>1 DEF Commit, SocketInv, SocketsAreOwned, Running
    <3>3. QED
      BY <2>1, <3>1, <3>2 DEF SocketInv, HandsMatch
  <2>6. AcceptedAreHeld'
    <3> SUFFICES ASSUME NEW c \in Clients, client[c].state = "accepted"
                 PROVE  loop'[client[c].key].hand = c
      BY <2>2 DEF AcceptedAreHeld
    <3>1. client[c].key \in Keys /\ loop[client[c].key].hand = c
      BY DEF AcceptedAreHeld
    <3>2. client[c].key # r.key \/ r.key \in active
      BY <2>5, <3>1, NoneAssumption
    <3>3. QED
      BY <2>2, <2>3, <3>1, <3>2 DEF listenerVars
  <2>7. QED
    BY <2>4, <2>6
<1>5. QED
  BY <1>2, <1>3, <1>4 DEF Supervise, Apply

\* A client with no connection is at no listener.
NoneAreNowhere == \A c \in Clients : client[c].state = "none" => client[c] = NoClient

LEMMA NoneAreNowhereStep == TypeOK /\ NoneAreNowhere /\ [Next]_vars => NoneAreNowhere'
<1> SUFFICES ASSUME TypeOK, NoneAreNowhere, [Next]_vars,
                    NEW c \in Clients, client'[c].state = "none"
             PROVE  client'[c] = client[c] \/ client'[c] = NoClient
  BY DEF NoneAreNowhere
<1>1. ASSUME NEW k \in Keys, Listen(k)
      PROVE  client'[c] = client[c] \/ client'[c] = NoClient
  <2>1. CASE Return(k) \/ client' = client
    BY <2>1 DEF Return, ResetAt
  <2>2. CASE UdpFails(k)
    BY <2>2 DEF UdpFails, ResetAt
  <2> DEFINE Is(d, s) == [client[d] EXCEPT !.state = s]
             IsUnder(d, s, f) == [client[d] EXCEPT !.state = s, !.config = f]
  <2>3. ASSUME NEW d \in Clients, NEW v,
               client' = [client EXCEPT ![d] = v],
               v = NoClient \/ v.state # "none"
        PROVE  client'[c] = client[c] \/ client'[c] = NoClient
    <3>1. c # d => client'[c] = client[c]
      BY <2>3 DEF TypeOK
    <3>2. client'[d] = v
      BY <2>3 DEF TypeOK
    <3>3. QED
      BY <2>3, <3>1, <3>2
  <2>4. \A d \in Clients : Is(d, "accepted").state # "none"
    BY DEF TypeOK, Served
  <2>5. \A d \in Clients : \A f : IsUnder(d, "served", f).state # "none"
    BY DEF TypeOK, Served
  <2>6. CASE TcpServe(k)
    <3>1. loop[k].hand \in Clients
      BY <2>6 DEF TcpServe, TypeOK, Loops
    <3>2. CASE watch[k].value = None
      BY <2>1, <2>6, <3>2 DEF TcpServe
    <3>3. CASE watch[k].value # None
      <4>1. client' = [client EXCEPT ![loop[k].hand] =
                         IsUnder(loop[k].hand, "served", watch[k].value)]
        BY <2>6, <3>3 DEF TcpServe
      <4> HIDE DEF IsUnder
      <4>2. QED
        BY <2>3, <2>5, <3>1, <4>1
    <3>4. QED
      BY <3>2, <3>3
  <2>7. ASSUME NEW d \in Clients, TcpAccept(k, d) \/ UdpReceive(k, d) \/ Arrive(d, k)
        PROVE  client'[c] = client[c] \/ client'[c] = NoClient
    <3>1. CASE TcpAccept(k, d)
      <4>1. client' = [client EXCEPT ![d] = Is(d, "accepted")]
        BY <3>1 DEF TcpAccept
      <4> HIDE DEF Is
      <4>2. QED
        BY <2>3, <2>4, <4>1
    <3>2. CASE UdpReceive(k, d)
      <4>1. client' = [client EXCEPT ![d] = IF loop[k].draining THEN NoClient
                         ELSE IsUnder(d, "served", loop[k].config)]
        BY <3>2 DEF UdpReceive
      <4> HIDE DEF IsUnder
      <4>2. CASE loop[k].draining
        BY <2>3, <4>1, <4>2
      <4>3. CASE ~loop[k].draining
        BY <2>3, <2>5, <4>1, <4>3
      <4>4. QED
        BY <4>2, <4>3
    <3>3. CASE Arrive(d, k)
      BY <2>3, <3>3 DEF Arrive
    <3>4. QED
      BY <2>7, <3>1, <3>2, <3>3
  <2>8. QED
    BY <1>1, <2>1, <2>2, <2>6, <2>7 DEF Listen, TcpUpdate, Poll, UdpUpdate, UdpReturn
<1>2. ASSUME NEW d \in Clients, Track(d) \/ Leave(d)
      PROVE  client'[c] = client[c] \/ client'[c] = NoClient
  BY <1>2 DEF Track, Leave, TypeOK, Served
<1>3. CASE Supervise
  BY <1>3 DEF Supervise, EditFile, BeginReload, Apply, Prepare, Reject, RetireRemoved,
     Commit, Finish, Exit, clientVars
<1>4. CASE UNCHANGED vars
  BY <1>4 DEF vars, clientVars
<1>5. QED
  BY <1>1, <1>2, <1>3, <1>4 DEF Next

HeldInv == RetiredAreTold /\ AcceptedAreHeld /\ NoneAreNowhere

LEMMA HeldAlways == Spec => []HeldInv
<1>1. Init => HeldInv
  BY DEF Init, HeldInv, RetiredAreTold, AcceptedAreHeld, NoneAreNowhere,
     NoLoop, NoClient
<1>2. IInv /\ HeldInv /\ [Next]_vars => HeldInv'
  <2> SUFFICES ASSUME IInv, HeldInv, [Next]_vars PROVE HeldInv'
    OBVIOUS
  <2> USE DEF HeldInv
  <2>1. TypeOK /\ FileInv /\ SocketInv /\ HandsMatch /\ NoneAreNowhere'
    BY NoneAreNowhereStep DEF IInv, SocketInv
  <2>2. ASSUME NEW k \in Keys, Listen(k) PROVE HeldInv'
    BY <2>1, <2>2, ListenRetiredAreTold, ListenAcceptedAreHeld
  <2>3. ASSUME NEW c \in Clients, Track(c) \/ Leave(c) PROVE HeldInv'
    BY <2>1, <2>3, ClientHeld
  <2>4. CASE Supervise
    BY <2>1, <2>4, SuperviseHeld
  <2>5. CASE UNCHANGED vars
    BY <2>1, <2>5 DEF vars, supervisorVars, listenerVars, clientVars, RetiredAreTold,
       AcceptedAreHeld, Told
  <2>6. QED
    BY <2>2, <2>3, <2>4, <2>5 DEF Next
<1>3. QED
  BY <1>1, <1>2, InductiveInvariant, PTL DEF Spec

\* The safety part of RetiredIsReleased: as long as a removed listener holds
\* its socket, a step that lets it go on is under way, or it is a relay that
\* drains and waits for nothing but sessions it still serves.
RetiredGoesOn == Running => \A k \in Keys :
  socket[k] = "listening" /\ k \notin active =>
    \/ watch[k].unseen /\ loop[k].hand = None     \* TcpUpdate, UdpUpdate
    \/ loop[k].hand # None                        \* TcpServe
    \/ /\ k \in UdpKeys /\ AtPoll(k) /\ loop[k].draining
       /\ \A c \in Clients : client[c].key = k =>
            client[c].state \in {"waiting", "served", "tracked"}

\* A removed listener is never stuck: it has an update to see, a connection to
\* settle, or drains sessions that may leave.
THEOREM RetiredAreReleasable == Spec => []RetiredGoesOn
<1>1. IInv /\ HeldInv => RetiredGoesOn
  <2> SUFFICES ASSUME IInv, HeldInv, Running, NEW k \in Keys,
                      socket[k] = "listening", k \notin active,
                      ~watch[k].unseen, loop[k].hand = None
               PROVE  /\ k \in UdpKeys /\ AtPoll(k) /\ loop[k].draining
                      /\ \A c \in Clients : client[c].key = k =>
                           client[c].state \in {"waiting", "served", "tracked"}
    BY DEF RetiredGoesOn
  <2>1. loop[k].state = "running"
    BY DEF IInv, SocketInv, SocketsAreOwned
  <2>2. k \in UdpKeys /\ loop[k].draining
    BY <2>1 DEF HeldInv, RetiredAreTold, Told
  <2>3. ASSUME NEW c \in Clients, client[c].key = k
        PROVE  client[c].state \in {"waiting", "served", "tracked"}
    <3>1. client[c].state # "accepted"
      BY <2>2, <2>3 DEF HeldInv, AcceptedAreHeld
    <3>2. client[c].state # "none"
      BY <2>3, NoneAssumption DEF HeldInv, NoneAreNowhere, NoClient
    <3>3. QED
      BY <3>1, <3>2 DEF IInv, TypeOK, Served
  <2>4. QED
    BY <2>1, <2>2, <2>3 DEF AtPoll
<1>2. QED
  BY <1>1, InductiveInvariant, HeldAlways, PTL
-----------------------------------------------------------------------------
(* Why a good file is rejected                                             *)

LEMMA DistinctKeys ==
  ASSUME NEW f \in Seq(Redirects), Cardinality(KeysOf(f)) = Len(f),
         NEW i \in DOMAIN f, NEW j \in DOMAIN f, f[i].key = f[j].key
  PROVE  i = j
<1> DEFINE indices == 1 .. Len(f)
           g == [x \in indices |-> f[x].key]
<1>1. Len(f) \in Nat /\ DOMAIN f = indices
  OBVIOUS
<1>2. IsFiniteSet(indices) /\ Cardinality(indices) = Len(f)
  <2>1. 1 \in Int /\ Len(f) \in Int
    BY <1>1
  <2>2. Cardinality(indices) = IF 1 > Len(f) THEN 0 ELSE Len(f) - 1 + 1
    BY <2>1, FS_Interval, Zenon
  <2>3. IsFiniteSet(indices)
    BY <2>1, FS_Interval, Zenon
  <2>4. QED
    BY <1>1, <2>2, <2>3
<1>3. g \in Surjection(indices, KeysOf(f))
  BY <1>1 DEF Surjection, KeysOf, Redirected
<1>4. g[i] = g[j] /\ i \in indices /\ j \in indices
  BY <1>1
<1> HIDE DEF indices, g
<1>5. g \in Injection(indices, KeysOf(f))
  BY <1>2, <1>3, FS_Surjection, Zenon
<1>6. QED
  BY <1>4, <1>5 DEF Injection, IsInjective

\* What is prepared and what is still to prepare are the file, in its order.
ReadInOrder == phase = "preparing" => reading = prepared \o todo

LEMMA ReadInOrderAlways == Spec => []ReadInOrder
<1>1. Init => ReadInOrder
  BY FileAssumption DEF Init, ReadInOrder
<1>2. IInv /\ ReadInOrder /\ [Next]_vars => ReadInOrder'
  <2> SUFFICES ASSUME IInv, ReadInOrder, [Next]_vars PROVE ReadInOrder'
    OBVIOUS
  <2>1. ASSUME UNCHANGED <<phase, reading, prepared, todo>> PROVE ReadInOrder'
    BY <2>1 DEF ReadInOrder
  <2>2. ASSUME NEW k \in Keys, Listen(k) PROVE ReadInOrder'
    BY <2>1, <2>2, ListenLocal DEF Quiet, supervisorVars, IInv, SocketInv
  <2>3. ASSUME NEW c \in Clients, Track(c) \/ Leave(c) PROVE ReadInOrder'
    BY <2>1, <2>3 DEF Track, Leave, ClientOnly, supervisorVars
  <2>4. CASE EditFile \/ UNCHANGED vars
    BY <2>1, <2>4 DEF EditFile, vars, supervisorVars
  <2>5. CASE BeginReload
    <3>1. prepared' = <<>> /\ reading' = file /\ todo' = file /\ file \in Files
      BY <2>5 DEF BeginReload, IInv, TypeOK, FileInv, ReadingSplits
    <3>2. QED
      BY <3>1, FileAssumption DEF ReadInOrder
  <2>6. CASE Prepare
    <3>1. /\ todo # <<>> /\ reading' = reading /\ reading = prepared \o todo
          /\ prepared' = Append(prepared, Head(todo)) /\ todo' = Tail(todo)
      BY <2>6 DEF Prepare, ReadInOrder
    <3>2. todo \in Seq(Redirects) /\ prepared \in Seq(Redirects)
      BY DEF IInv, TypeOK
    <3>3. Append(prepared, Head(todo)) \o Tail(todo) = prepared \o todo
      BY <3>1, <3>2
    <3>4. QED
      BY <3>1, <3>3 DEF ReadInOrder
  <2>7. CASE Reject \/ RetireRemoved \/ Commit \/ Finish \/ Exit
    BY <2>7 DEF Reject, RetireRemoved, Commit, Finish, Exit, ReadInOrder
  <2>8. QED
    BY <2>2, <2>3, <2>4, <2>5, <2>6, <2>7 DEF Next, Supervise, Apply
<1>3. QED
  BY <1>1, <1>2, InductiveInvariant, PTL DEF Spec

\* A removed listener that has not let go of its socket excludes k.
InTheWay(j, k) ==
  /\ socket[j] = "listening" /\ j \notin active
  /\ j = k \/ {j, k} \in Overlaps

\* The safety part of RetriedReloadApplies: a consistent file that no listener
\* in force obstructs is rejected only while a removed listener that has not
\* let go of its socket excludes one of its redirects.
RejectedForDrain ==
  Reject /\ Consistent(reading) /\ Unobstructed(reading) =>
    \E j \in Keys : InTheWay(j, Head(todo).key)

LEMMA NextIsNew ==
  ASSUME TypeOK, ReadInOrder, phase = "preparing", todo # <<>>,
         Consistent(reading)
  PROVE  /\ Head(todo) \in Redirected(reading)
         /\ Head(todo).key \notin KeysOf(prepared)
<1> DEFINE n == Len(prepared) + 1
<1>1. reading = prepared \o todo /\ reading \in Seq(Redirects)
      /\ prepared \in Seq(Redirects) /\ todo \in Seq(Redirects)
  BY FileAssumption DEF ReadInOrder, TypeOK
<1>2. /\ Len(prepared) \in Nat /\ Len(todo) \in Nat \ {0}
      /\ Len(reading) = Len(prepared) + Len(todo)
  BY <1>1
<1>3. n \in DOMAIN reading /\ reading[n] = Head(todo)
  BY <1>1, <1>2
<1>4. \A i \in DOMAIN prepared :
        i \in DOMAIN reading /\ reading[i] = prepared[i] /\ i # n
  BY <1>1, <1>2
<1> HIDE DEF n
<1>5. Head(todo) \in Redirected(reading)
  BY <1>3 DEF Redirected
<1>6. ASSUME Head(todo).key \in KeysOf(prepared) PROVE FALSE
  <2>1. PICK i \in DOMAIN prepared : prepared[i].key = Head(todo).key
    BY <1>6 DEF KeysOf, Redirected
  <2>2. Cardinality(KeysOf(reading)) = Len(reading)
    BY DEF Consistent
  <2>3. /\ i \in DOMAIN reading /\ n \in DOMAIN reading /\ i # n
        /\ reading[i].key = reading[n].key
    BY <1>3, <1>4, <2>1
  <2>4. QED
    BY <1>1, <2>2, <2>3, DistinctKeys
<1>7. QED
  BY <1>5, <1>6

\* So a repeated reload waits for removed listeners only, and each of these
\* goes on (RetiredAreReleasable).
THEOREM GoodFilesWaitForDrainsOnly == Spec => [][RejectedForDrain]_vars
<1>1. IInv /\ ReadInOrder => RejectedForDrain
  <2> SUFFICES ASSUME IInv, ReadInOrder, Reject, Consistent(reading),
                      Unobstructed(reading)
               PROVE  \E j \in Keys : InTheWay(j, Head(todo).key)
    BY DEF RejectedForDrain
  <2> DEFINE r == Head(todo)
  <2>1. TypeOK /\ phase = "preparing" /\ todo # <<>>
    BY DEF IInv, Reject
  <2>2. r \in Redirected(reading) /\ r.key \notin KeysOf(prepared)
    BY <2>1, NextIsNew
  <2>3. r.key \in Keys /\ r.key \in KeysOf(reading)
    BY <2>1, <2>2, FirstRedirect, ConfigType DEF TypeOK, KeysOf
  <2>4. ~Unreadable(r) /\ r.key \notin Taken
    BY <2>2, <2>3 DEF Consistent
  <2>5. ~Acceptable(r)
    BY <2>4 DEF Reject
  <2> HIDE DEF r
  <2>6. r.key \notin active
    BY <2>2, <2>5 DEF Acceptable
  <2>7. PICK j \in Keys : (j = r.key \/ {j, r.key} \in Overlaps) /\ socket[j] # "closed"
    BY <2>2, <2>4, <2>5 DEF Acceptable, Bindable
  <2>8. j \notin active
    BY <2>3, <2>6, <2>7 DEF Unobstructed
  <2>9. socket[j] # "prepared"
    <3>1. SUFFICES ASSUME socket[j] = "prepared" PROVE FALSE
      OBVIOUS
    <3>2. j \in KeysOf(prepared)
      BY <2>1, <3>1 DEF IInv, SocketInv, SocketsAreOwned, Running
    <3>3. j \in KeysOf(reading)
      BY <2>1, <3>2 DEF IInv, FileInv, ReadingSplits, KeysOf
    <3>4. {j, r.key} \subseteq KeysOf(reading)
      BY <2>3, <3>3
    <3>5. QED
      BY <2>2, <2>7, <3>2, <3>4 DEF Consistent
  <2>10. socket[j] = "listening"
    BY <2>1, <2>7, <2>9 DEF TypeOK
  <2>11. QED
    BY <2>7, <2>8, <2>10 DEF InTheWay, r
<1>2. QED
  BY <1>1, InductiveInvariant, ReadInOrderAlways, PTL
=============================================================================
