----------------------------- MODULE Supervisor -----------------------------
(***************************************************************************)
(* The supervisor of the listeners (runtime.rs): it prepares a             *)
(* configuration, commits it to the listeners while they run, and lets the *)
(* removed ones go.  The accept loop of a TCP listener (proxy.rs) is       *)
(* modelled step by step, a UDP relay as UdpRelay abstracts it: it admits, *)
(* drains and returns.  The rows of the statistics (connections.rs) appear *)
(* as far as the supervisor changes them.                                  *)
(*                                                                         *)
(* The supervisor is one task and reloads one configuration at a time; the *)
(* listeners and the tasks of the connections run on other threads.        *)
(***************************************************************************)
EXTENDS Naturals, Sequences, FiniteSets

CONSTANTS
  Clients,    \* clients, each of one connection or UDP session at a time
  Keys,       \* listener keys: a transport and an address
  UdpKeys,    \* the keys whose transport is UDP
  Overlaps,   \* {j, k}: a socket cannot be bound to j while k is bound
  Taken,      \* keys that another program has bound
  Names,      \* display names of redirects
  Settings,   \* what a redirect configures besides its listener
  BadAssets,  \* the settings that name a favicon which at times cannot be read
  Files,      \* valid contents of the config file
  None

Redirects == [key : Keys, name : Names, settings : Settings]

ASSUME KeyAssumption ==
  /\ UdpKeys \subseteq Keys /\ Taken \subseteq Keys
  /\ \A o \in Overlaps : o \subseteq Keys
ASSUME FileAssumption == Files \subseteq Seq(Redirects)
ASSUME NoneAssumption ==
  /\ None \notin Clients /\ None \notin Keys /\ None \notin Names
  /\ None \notin Settings /\ None \notin Files
  /\ None \notin [name : Names, settings : Settings]

VARIABLES
  file,      \* the config file as it is now, None when it is not valid
  phase,     \* of the supervisor's task
  reading,   \* the redirects handed to apply
  todo,      \* those apply has not prepared yet
  prepared,  \* those it has prepared and not committed
  active,    \* keys with a sender in Supervisor::active
  names,     \* Supervisor::names
  applied,   \* history: what was last applied, None before the first
  watch,     \* [key -> latest value of its watch channel, whether unseen]
  socket,    \* [key -> who holds the socket bound to it]
  loop,      \* [key -> its listener's task]
  client,    \* [client -> its connection or session]
  due,       \* history: [client -> the settings it may be served under]
  row        \* [name -> its Totals: none, live or retired]

supervisorVars == <<phase, reading, todo, prepared, active, names, applied>>
listenerVars == <<socket, loop>>
clientVars == <<client, due>>
vars == <<file, supervisorVars, watch, listenerVars, clientVars, row>>

NoLoop   == [state |-> "none", polled |-> FALSE, hand |-> None,
             draining |-> FALSE, config |-> None]
NoClient == [state |-> "none", key |-> None, config |-> None]

\* TcpSettings and UdpProxyConfig: the configuration a listener is given.
Config(r) == [name |-> r.name, settings |-> r.settings]
Redirected(f) == {f[i] : i \in DOMAIN f}
KeysOf(f)  == {r.key : r \in Redirected(f)}
NamesOf(f) == {r.name : r \in Redirected(f)}
ConfigsAt(f, k) == {Config(r) : r \in {x \in Redirected(f) : x.key = k}}

Running == phase # "exited"
Bindable(k) ==
  k \notin Taken /\ \A j \in Keys : j = k \/ {j, k} \in Overlaps =>
                                      socket[j] = "closed"

\* The clients at k that were not served yet lose their connection.
ResetAt(k) == [c \in Clients |->
  IF client[c].key = k /\ client[c].state \in {"waiting", "accepted"}
    THEN NoClient ELSE client[c]]

Init ==
  /\ file \in Files
  /\ phase = "preparing"
  /\ reading = file /\ todo = file /\ prepared = <<>>
  /\ active = {} /\ names = {} /\ applied = None
  /\ watch = [k \in Keys |-> [value |-> None, unseen |-> FALSE]]
  /\ socket = [k \in Keys |-> "closed"]
  /\ loop = [k \in Keys |-> NoLoop]
  /\ client = [c \in Clients |-> NoClient]
  /\ due = [c \in Clients |-> {}]
  /\ row = [n \in Names |-> "none"]

-----------------------------------------------------------------------------
(* Reloading *)

\* Someone edits the file.  Only a reload reads it, and reads it at once, so
\* that edits during a reload are left out.
EditFile ==
  /\ phase = "idle"
  /\ file' \in Files \cup {None}
  /\ UNCHANGED <<supervisorVars, watch, listenerVars, clientVars, row>>

\* SIGHUP, or an authenticated request.  A file that cannot be read, parsed or
\* validated is rejected here and changes nothing.
BeginReload ==
  /\ phase = "idle" /\ file # None
  /\ phase' = "preparing"
  /\ reading' = file /\ todo' = file
  /\ UNCHANGED <<file, prepared, active, names, applied, watch, listenerVars,
                 clientVars, row>>

\* What apply rejects: a key twice, an asset that cannot be read, a new
\* address that cannot be bound.
Unreadable(r) == r.key \notin UdpKeys /\ r.settings \in BadAssets
Acceptable(r) ==
  /\ r.key \notin KeysOf(prepared)
  /\ r.key \in active \/ Bindable(r.key)

\* Mutant: a listener that stays is sent its new settings at once.
Prepare_SendsAtOnce ==
  /\ phase = "preparing" /\ todo # <<>>
  /\ LET r == Head(todo) IN
       /\ Acceptable(r)
       /\ prepared' = Append(prepared, r)
       /\ socket' = [socket EXCEPT ![r.key] =
                       IF r.key \in active THEN @ ELSE "prepared"]
       /\ watch' = [watch EXCEPT ![r.key] =
                      IF r.key \in active
                        THEN [value |-> Config(r), unseen |-> TRUE] ELSE @]
  /\ todo' = Tail(todo)
  /\ UNCHANGED <<file, phase, reading, active, names, applied, loop,
                 clientVars, row>>
Prepare ==
  /\ phase = "preparing" /\ todo # <<>>
  /\ LET r == Head(todo) IN
       /\ Acceptable(r)
       /\ prepared' = Append(prepared, r)
       /\ socket' = [socket EXCEPT ![r.key] =
                       IF r.key \in active THEN @ ELSE "prepared"]
  /\ todo' = Tail(todo)
  /\ UNCHANGED <<file, phase, reading, active, names, applied, watch, loop,
                 clientVars, row>>

\* The first error returns from apply and drops what was bound; at startup it
\* ends the process.
\* Mutant: the sockets stay bound.
Reject_KeepsSockets ==
  /\ phase = "preparing" /\ todo # <<>>
  /\ ~Acceptable(Head(todo)) \/ Unreadable(Head(todo))
  /\ phase' = IF applied = None THEN "exited" ELSE "idle"
  /\ todo' = <<>> /\ prepared' = <<>>
  /\ UNCHANGED <<file, reading, active, names, applied, watch, listenerVars,
                 clientVars, row>>
Reject ==
  /\ phase = "preparing" /\ todo # <<>>
  /\ ~Acceptable(Head(todo)) \/ Unreadable(Head(todo))
  /\ phase' = IF applied = None THEN "exited" ELSE "idle"
  /\ todo' = <<>> /\ prepared' = <<>>
  /\ socket' = [k \in Keys |->
                  IF socket[k] = "prepared" THEN "closed" ELSE socket[k]]
  /\ client' = [c \in Clients |->
                  IF \E k \in Keys : client[c].key = k /\ socket[k] = "prepared"
                    THEN NoClient ELSE client[c]]
  /\ UNCHANGED <<file, reading, active, names, applied, watch, loop, due, row>>

\* retire_redirect, for each name that is gone.
\* Mutant: the row is dropped, although clients of the redirect may remain.
RetireRows_Dropped(gone) ==
  row' = [n \in Names |-> IF n \in gone THEN "none" ELSE row[n]]
RetireRows(gone) ==
  row' = [n \in Names |-> IF n \in gone /\ row[n] # "none"
                            THEN "retired" ELSE row[n]]

\* Everything is prepared: the redirects that are gone are retired.
RetireRemoved ==
  /\ phase = "preparing" /\ todo = <<>>
  /\ phase' = "committing"
  /\ RetireRows(names \ NamesOf(prepared))
  /\ names' = NamesOf(prepared)
  /\ active' = active \cap KeysOf(prepared)
  /\ watch' = [k \in Keys |-> IF k \in active \ KeysOf(prepared)
                                THEN [value |-> None, unseen |-> TRUE]
                                ELSE watch[k]]
  /\ due' = [c \in Clients |->
               IF client[c].state \in {"waiting", "accepted"}
                 THEN due[c] \cup ConfigsAt(reading, client[c].key)
                 ELSE due[c]]
  /\ UNCHANGED <<file, reading, todo, prepared, applied, listenerVars, client>>

\* The row is registered, then the listener is sent its settings or spawned.
\* Mutant: a listener that stays is not sent them.
Commit_NotSent ==
  /\ phase = "committing" /\ prepared # <<>>
  /\ LET r == Head(prepared) IN
       /\ row' = [row EXCEPT ![r.name] = "live"]
       /\ active' = active \cup {r.key}
       /\ IF r.key \in active
            THEN UNCHANGED <<watch, listenerVars>>
            ELSE /\ watch' = [watch EXCEPT ![r.key] =
                                [value |-> Config(r), unseen |-> FALSE]]
                 /\ socket' = [socket EXCEPT ![r.key] = "listening"]
                 /\ loop' = [loop EXCEPT ![r.key] =
                      [NoLoop EXCEPT !.state = "running", !.config = Config(r)]]
  /\ prepared' = Tail(prepared)
  /\ UNCHANGED <<file, phase, reading, todo, names, applied, clientVars>>
Commit ==
  /\ phase = "committing" /\ prepared # <<>>
  /\ LET r == Head(prepared) IN
       /\ row' = [row EXCEPT ![r.name] = "live"]
       /\ active' = active \cup {r.key}
       /\ watch' = [watch EXCEPT ![r.key] = [value |-> Config(r),
                                             unseen |-> r.key \in active]]
       /\ IF r.key \in active
            THEN UNCHANGED listenerVars
            ELSE /\ socket' = [socket EXCEPT ![r.key] = "listening"]
                 /\ loop' = [loop EXCEPT ![r.key] =
                      [NoLoop EXCEPT !.state = "running", !.config = Config(r)]]
  /\ prepared' = Tail(prepared)
  /\ UNCHANGED <<file, phase, reading, todo, names, applied, clientVars>>

Finish ==
  /\ phase = "committing" /\ prepared = <<>>
  /\ phase' = "idle" /\ applied' = reading
  /\ UNCHANGED <<file, reading, todo, prepared, active, names, watch,
                 listenerVars, clientVars, row>>

\* Ctrl+C, or the first listener task that ended with an error.
Exit ==
  /\ phase = "idle"
  /\ phase' = "exited"
  /\ UNCHANGED <<file, reading, todo, prepared, active, names, applied, watch,
                 listenerVars, clientVars, row>>
TaskFailed == (\E k \in Keys : loop[k].state = "failed") /\ Exit

-----------------------------------------------------------------------------
(* The listeners *)

ListenerOnly == UNCHANGED <<file, supervisorVars, due, row>>

\* The task of k returns and drops its socket; clients in its backlog are lost.
Return(k) ==
  /\ socket' = [socket EXCEPT ![k] = "closed"]
  /\ loop' = [loop EXCEPT ![k] = NoLoop]
  /\ client' = ResetAt(k)

AtPoll(k) == Running /\ loop[k].state = "running" /\ loop[k].hand = None

\* updates.changed(), which the biased select! polls first.
SeesUpdate(k) ==
  /\ AtPoll(k) /\ watch[k].unseen
  /\ watch' = [watch EXCEPT ![k].unseen = FALSE]
  /\ ListenerOnly

\* Mutant: a retired listener goes on accepting.
TcpUpdate_GoesOn(k) ==
  /\ k \notin UdpKeys /\ SeesUpdate(k)
  /\ loop' = [loop EXCEPT ![k].polled = FALSE]
  /\ UNCHANGED <<socket, client>>
TcpUpdate(k) ==
  /\ k \notin UdpKeys /\ SeesUpdate(k)
  /\ IF watch[k].value = None
       THEN Return(k)
       ELSE /\ loop' = [loop EXCEPT ![k].polled = FALSE]
            /\ UNCHANGED <<socket, client>>

\* No update was ready: the socket is polled next, whatever happens meanwhile.
Poll(k) ==
  /\ AtPoll(k) /\ ~watch[k].unseen /\ ~loop[k].polled
  /\ loop' = [loop EXCEPT ![k].polled = TRUE]
  /\ UNCHANGED <<watch, socket, client>> /\ ListenerOnly

TcpAccept(k, c) ==
  /\ k \notin UdpKeys /\ AtPoll(k) /\ loop[k].polled
  /\ client[c].key = k /\ client[c].state = "waiting"
  /\ loop' = [loop EXCEPT ![k].polled = FALSE, ![k].hand = c]
  /\ client' = [client EXCEPT ![c].state = "accepted"]
  /\ UNCHANGED <<watch, socket>> /\ ListenerOnly

\* The accepted connection takes a snapshot of the settings as they are now;
\* the listener may have been retired since it was polled.
\* Mutant: that case is forgotten.
TcpServe_Unchecked(k) ==
  /\ Running /\ loop[k].hand # None
  /\ client' = [client EXCEPT ![loop[k].hand] =
       [@ EXCEPT !.state = "served", !.config = watch[k].value]]
  /\ loop' = [loop EXCEPT ![k].hand = None]
  /\ UNCHANGED <<watch, socket>> /\ ListenerOnly
TcpServe(k) ==
  /\ Running /\ loop[k].hand # None
  /\ IF watch[k].value = None
       THEN Return(k)
       ELSE /\ client' = [client EXCEPT ![loop[k].hand] =
                 [@ EXCEPT !.state = "served", !.config = watch[k].value]]
            /\ loop' = [loop EXCEPT ![k].hand = None]
            /\ UNCHANGED socket
  /\ UNCHANGED watch /\ ListenerOnly

UdpUpdate(k) ==
  /\ k \in UdpKeys /\ SeesUpdate(k)
  /\ loop' = [loop EXCEPT ![k] =
       IF watch[k].value = None
         THEN [@ EXCEPT !.polled = FALSE, !.draining = TRUE]
         ELSE [@ EXCEPT !.polled = FALSE, !.config = watch[k].value]]
  /\ UNCHANGED <<socket, client>>

\* The first datagram of a client: it is served, or dropped by a draining relay.
UdpReceive(k, c) ==
  /\ k \in UdpKeys /\ AtPoll(k) /\ loop[k].polled
  /\ client[c].key = k /\ client[c].state = "waiting"
  /\ client' = [client EXCEPT ![c] =
       IF loop[k].draining THEN NoClient
       ELSE [@ EXCEPT !.state = "served", !.config = loop[k].config]]
  /\ loop' = [loop EXCEPT ![k].polled = FALSE]
  /\ UNCHANGED <<watch, socket>> /\ ListenerOnly

UdpReturn(k) ==
  /\ AtPoll(k) /\ loop[k].draining
  /\ \A c \in Clients : client[c].key = k => client[c].state = "waiting"
  /\ Return(k)
  /\ UNCHANGED watch /\ ListenerOnly

\* recv_from failed.
UdpFails(k) ==
  /\ k \in UdpKeys /\ AtPoll(k)
  /\ loop' = [loop EXCEPT ![k] = [NoLoop EXCEPT !.state = "failed"]]
  /\ socket' = [socket EXCEPT ![k] = "closed"]
  /\ client' = ResetAt(k)
  /\ UNCHANGED watch /\ ListenerOnly

-----------------------------------------------------------------------------
(* The clients *)

ClientOnly == UNCHANGED <<file, supervisorVars, watch, listenerVars>>

\* A bound socket takes connections and datagrams before anyone serves them.
Arrive(c, k) ==
  /\ Running /\ client[c] = NoClient /\ socket[k] # "closed"
  /\ client' = [client EXCEPT ![c] =
                  [state |-> "waiting", key |-> k, config |-> None]]
  /\ due' = [due EXCEPT ![c] =
       (IF applied = None THEN {} ELSE ConfigsAt(applied, k))
         \cup (IF phase = "committing" THEN ConfigsAt(reading, k) ELSE {})]
  /\ ClientOnly /\ UNCHANGED row

\* connections::track, once a target is connected.
Track(c) ==
  /\ Running /\ client[c].state = "served"
  /\ client' = [client EXCEPT ![c].state = "tracked"]
  /\ row' = [row EXCEPT ![client[c].config.name] =
               IF @ = "none" THEN "live" ELSE @]
  /\ ClientOnly /\ UNCHANGED due

\* Its target failed, its connection closed or its session expired.
Leave(c) ==
  /\ Running /\ client[c].state \in {"served", "tracked"}
  /\ client' = [client EXCEPT ![c] = NoClient]
  /\ due' = [due EXCEPT ![c] = {}]
  /\ ClientOnly /\ UNCHANGED row

-----------------------------------------------------------------------------
Apply == Prepare \/ Reject \/ RetireRemoved \/ Commit \/ Finish
Supervise == EditFile \/ BeginReload \/ Apply \/ Exit

Listen(k) == \/ TcpUpdate(k) \/ Poll(k) \/ TcpServe(k)
             \/ UdpUpdate(k) \/ UdpReturn(k) \/ UdpFails(k)
             \/ \E c \in Clients :
                  TcpAccept(k, c) \/ UdpReceive(k, c) \/ Arrive(c, k)

Next == \/ Supervise
        \/ \E k \in Keys : Listen(k)
        \/ \E c \in Clients : Track(c) \/ Leave(c)

Spec == Init /\ [][Next]_vars

\* The runtime polls every ready task again.  Nothing is assumed of clients, of
\* the editor of the file, or of whoever asks for reloads.
Fairness ==
  /\ WF_vars(Apply) /\ WF_vars(TaskFailed)
  /\ \A k \in Keys :
       WF_vars(TcpUpdate(k) \/ TcpServe(k) \/ UdpUpdate(k) \/ UdpReturn(k))

FairSpec == Spec /\ Fairness
-----------------------------------------------------------------------------
(* What the supervisor promises *)

Configs == [name : Names, settings : Settings]
Watches == [value : Configs \cup {None}, unseen : BOOLEAN]
Loops == [state : {"none", "running", "failed"}, polled : BOOLEAN,
          hand : Clients \cup {None}, draining : BOOLEAN,
          config : Configs \cup {None}]
Served == [state : {"none", "waiting", "accepted", "served", "tracked"},
           key : Keys \cup {None}, config : Configs \cup {None}]

TypeOK ==
  /\ file \in Files \cup {None} /\ applied \in Files \cup {None}
  /\ phase \in {"preparing", "committing", "idle", "exited"}
  /\ reading \in Files
  /\ todo \in Seq(Redirects) /\ prepared \in Seq(Redirects)
  /\ active \subseteq Keys /\ names \subseteq Names
  /\ watch \in [Keys -> Watches]
  /\ socket \in [Keys -> {"closed", "prepared", "listening"}]
  /\ loop \in [Keys -> Loops]
  /\ client \in [Clients -> Served] /\ due \in [Clients -> SUBSET Configs]
  /\ row \in [Names -> {"none", "live", "retired"}]

\* "On any error above, temporary sockets drop and all old listeners/settings
\* stay intact" (runtime.rs): outside a commit, what the listeners were last
\* sent, the names and the rows are those of one file, the last one applied,
\* however many reloads failed half way since.
AppliedIsOneFile ==
  phase \in {"preparing", "idle"} /\ applied # None =>
    /\ active = KeysOf(applied)
    /\ \A k \in active : {watch[k].value} = ConfigsAt(applied, k)
    /\ names = NamesOf(applied)
    /\ \A n \in Names : row[n] = "live" <=> n \in names

\* Every bound socket belongs to a reload in progress or to a running task; a
\* task whose key is not active has been told to end.  Nothing is leaked by
\* rejected reloads or by keys that leave and come back.
SocketsAreOwned ==
  Running => \A k \in Keys :
    /\ socket[k] = "prepared" <=> k \in KeysOf(prepared) \ active
    /\ socket[k] = "listening" <=> loop[k].state = "running"
    /\ k \in active => loop[k].state # "none"
    /\ loop[k].state = "running" /\ k \notin active => watch[k].value = None

\* A TCP client is served under the file that was in force when it connected
\* or one applied since, never an older one, and not at all when none of them
\* has its listener, although the accept loop learns of a reload later than
\* the client that asked for it.  (A UDP relay uses its own copy of the
\* settings and can be one poll behind.)
ServedUnderCurrent ==
  \A c \in Clients :
    client[c].state \in {"served", "tracked"} /\ client[c].key \notin UdpKeys =>
      client[c].config \in due[c]

Visible(n) ==
  \/ row[n] = "live"
  \/ /\ row[n] = "retired"
     /\ \E c \in Clients :
          client[c].state = "tracked" /\ client[c].config.name = n

\* The statistics show the redirects of the file in force and those that still
\* have clients, and no others, whenever clients of a removed redirect are
\* tracked after its removal.
RowsFollowClients ==
  phase = "idle" => \A n \in Names : Visible(n) <=>
    \/ n \in names
    \/ \E c \in Clients : client[c].state = "tracked" /\ client[c].config.name = n

ClientsLeave == \A c \in Clients : []<>(client[c] = NoClient)

\* The socket of a removed listener is released once its clients have left.
RetiredIsReleased ==
  ClientsLeave => \A k \in Keys :
    (socket[k] = "listening" /\ k \notin active) ~>
      (socket[k] = "closed" \/ phase = "exited")

\* Every redirect of f could be bound if nothing of this process stood in the
\* way, and no two of them exclude each other.
Consistent(f) ==
  /\ KeysOf(f) \cap Taken = {}
  /\ Cardinality(KeysOf(f)) = Len(f)
  /\ \A r \in Redirected(f) : ~Unreadable(r)
  /\ \A o \in Overlaps : ~(o \subseteq KeysOf(f))

\* No listener of the file in force excludes one of f.
Unobstructed(f) ==
  \A k \in active, j \in KeysOf(f) : {j, k} \notin Overlaps

\* A reload rejected because a removed listener still drains is not rejected
\* for ever: repeated, it is applied once the old clients have left.  (One
\* that replaces a listener by an overlapping one is: docs/usage.md says to
\* remove the old listener with a reload of its own.)
RetriedReloadApplies ==
  ClientsLeave => \A f \in {g \in Files : Consistent(g)} :
    (<>[](file = f /\ Unobstructed(f)) /\ []<><<BeginReload>>_vars) =>
      []<>(applied = f \/ phase = "exited")
=============================================================================
