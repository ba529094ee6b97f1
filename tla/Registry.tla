------------------------------ MODULE Registry ------------------------------
(***************************************************************************)
(* The process-wide registry of open connections (connections.rs) and what *)
(* it publishes: the two snapshot files that other processes read, and the *)
(* status line of the service.  Each connection's task tracks it, reports  *)
(* its traffic and drops its guard; a timer rewrites the files.  The tasks *)
(* run on several threads, and only the two mutexes order them.  Writing a *)
(* file is assumed to succeed (an error is ignored by the code).           *)
(***************************************************************************)
EXTENDS Integers, FiniteSets, Functions

CONSTANTS
  Conns,        \* connections, by the id that track gives each
  Redirects,
  RedirectOf,   \* [Conns -> Redirects]
  Timer,        \* the task of spawn_snapshot_task
  Nobody,
  STATUS_LINE_CLIENT_LIMIT,
  MaxBytes      \* bound of the model: bytes of one connection

Tasks == Conns \cup {Timer}

ASSUME ConnAssumption ==
  /\ IsFiniteSet(Conns) /\ RedirectOf \in [Conns -> Redirects]
  /\ Timer \notin Conns /\ Nobody \notin Tasks
ASSUME LimitAssumption ==
  STATUS_LINE_CLIENT_LIMIT \in Nat \ {0} /\ MaxBytes \in Nat

VARIABLES
  entries,     \* the connections in the registry
  counter,     \* [connection -> bytes counted for it]
  totals,      \* [redirect -> lifetime bytes]
  pc,          \* [task -> where it is]
  text,        \* [connection -> the status text its task has built]
  growth,      \* [connection -> bytes counted for it, not yet in the totals]
  entriesLock, \* holder of the mutex of the entries
  writeLock,   \* holder of SNAPSHOT_WRITE
  snap,        \* the snapshot that the holder of SNAPSHOT_WRITE takes
  stateFile, statsFile, statusLine

published == <<stateFile, statsFile, statusLine>>
locks == <<entriesLock, writeLock>>
traffic == <<counter, totals, growth>>
vars == <<entries, traffic, pc, text, locks, snap, published>>

Online == [total |-> 0, shown |-> {}]
NoSnapshot == [conns |-> [c \in {} |-> 0], totals |-> [r \in Redirects |-> 0]]

Open(conns, r) == {c \in conns : RedirectOf[c] = r}

Init ==
  /\ entries = {} /\ text = [c \in Conns |-> Online]
  /\ counter = [c \in Conns |-> 0]
  /\ totals = [r \in Redirects |-> 0]
  /\ growth = [c \in Conns |-> 0]
  /\ pc = [t \in Tasks |-> IF t = Timer THEN "idle" ELSE "new"]
  /\ entriesLock = Nobody /\ writeLock = Nobody
  /\ snap = NoSnapshot
  /\ stateFile = [c \in {} |-> 0]
  /\ statsFile = [r \in Redirects |-> [total |-> 0, connections |-> 0]]
  /\ statusLine = Online

Goto(t, where) == pc' = [pc EXCEPT ![t] = where]

-----------------------------------------------------------------------------
(* Connections *)

Track(c) ==
  /\ pc[c] = "new" /\ entriesLock = Nobody
  /\ entries' = entries \cup {c}
  /\ Goto(c, "status")
  /\ UNCHANGED <<traffic, text, locks, snap, published>>

\* add_up of a UDP session, or set_absolute with the cumulative count of a
\* worker, which may be that of an earlier report or less: the connection's
\* counter first (fetch_max), then the redirect's total in a second step.  The
\* handles that report outlive the guard.
\* Mutant: the counter takes what was reported last.
Report_TakesLast(c, bytes) ==
  /\ pc[c] # "new" /\ growth[c] = 0
  /\ counter' = [counter EXCEPT ![c] = bytes]
  /\ growth' = [growth EXCEPT ![c] =
       IF bytes > counter[c] THEN bytes - counter[c] ELSE 0]
  /\ UNCHANGED <<entries, totals, pc, text, locks, snap, published>>
Report(c, bytes) ==
  /\ pc[c] # "new" /\ growth[c] = 0
  /\ counter' = [counter EXCEPT ![c] = IF bytes > @ THEN bytes ELSE @]
  /\ growth' = [growth EXCEPT ![c] =
       IF bytes > counter[c] THEN bytes - counter[c] ELSE 0]
  /\ UNCHANGED <<entries, totals, pc, text, locks, snap, published>>

AddToTotal(c) ==
  /\ growth[c] # 0
  /\ totals' = [totals EXCEPT ![RedirectOf[c]] = @ + growth[c]]
  /\ growth' = [growth EXCEPT ![c] = 0]
  /\ UNCHANGED <<entries, counter, pc, text, locks, snap, published>>

\* ConnectionGuard::drop
\* Mutant: it does not persist.
DropGuard_Silent(c) ==
  /\ pc[c] = "open" /\ entriesLock = Nobody
  /\ entries' = entries \ {c}
  /\ Goto(c, "gone")
  /\ UNCHANGED <<traffic, text, locks, snap, published>>
DropGuard(c) ==
  /\ pc[c] = "open" /\ entriesLock = Nobody
  /\ entries' = entries \ {c}
  /\ Goto(c, "status")
  /\ UNCHANGED <<traffic, text, locks, snap, published>>

-----------------------------------------------------------------------------
(* persist *)

\* The text is built under the lock of the entries ...
BuildStatus(c) ==
  /\ pc[c] = "status" /\ entriesLock = Nobody
  /\ \E shown \in SUBSET entries :
       /\ Cardinality(shown) = IF Cardinality(entries) < STATUS_LINE_CLIENT_LIMIT
                               THEN Cardinality(entries)
                               ELSE STATUS_LINE_CLIENT_LIMIT
       /\ text' = [text EXCEPT ![c] =
                     [total |-> Cardinality(entries), shown |-> shown]]
  /\ Goto(c, "notify")
  /\ UNCHANGED <<entries, traffic, locks, snap, published>>

\* ... and sent after the lock is released.
Notify(c) ==
  /\ pc[c] = "notify"
  /\ statusLine' = text[c]
  /\ text' = [text EXCEPT ![c] = Online]
  /\ Goto(c, "write")
  /\ UNCHANGED <<entries, traffic, locks, snap, stateFile, statsFile>>

Tick == /\ pc[Timer] = "idle"
        /\ Goto(Timer, "write")
        /\ UNCHANGED <<entries, traffic, text, locks, snap, published>>

-----------------------------------------------------------------------------
(* write_snapshots *)

LockWrite(t) ==
  /\ pc[t] = "write" /\ writeLock = Nobody
  /\ writeLock' = t
  /\ Goto(t, "snapshot")
  /\ UNCHANGED <<entries, traffic, text, entriesLock, snap, published>>

\* snapshots() keeps the entries locked, while traffic goes on: it loads the
\* counters of the connections, then the totals.
SnapConnections(t) ==
  /\ pc[t] = "snapshot" /\ entriesLock = Nobody
  /\ entriesLock' = t
  /\ snap' = [snap EXCEPT !.conns = [c \in entries |-> counter[c]]]
  /\ Goto(t, "totals")
  /\ UNCHANGED <<entries, traffic, text, writeLock, published>>

\* Mutant: the totals are summed up from the open connections.
SnapTotals_OfOpen(t) ==
  /\ pc[t] = "totals"
  /\ entriesLock' = Nobody
  /\ snap' = [snap EXCEPT !.totals = [r \in Redirects |->
       SumFunctionOnSet(counter, Open(entries, r))]]
  /\ Goto(t, "state")
  /\ UNCHANGED <<entries, traffic, text, writeLock, published>>
SnapTotals(t) ==
  /\ pc[t] = "totals"
  /\ entriesLock' = Nobody
  /\ snap' = [snap EXCEPT !.totals = totals]
  /\ Goto(t, "state")
  /\ UNCHANGED <<entries, traffic, text, writeLock, published>>

\* Mutant: the lock covers the snapshot and the first of the two files only.
WriteState_Unlocks(t) ==
  /\ pc[t] = "state"
  /\ stateFile' = snap.conns
  /\ writeLock' = Nobody
  /\ Goto(t, "stats")
  /\ UNCHANGED <<entries, traffic, text, entriesLock, snap, statsFile, statusLine>>
WriteState(t) ==
  /\ pc[t] = "state"
  /\ stateFile' = snap.conns
  /\ Goto(t, "stats")
  /\ UNCHANGED <<entries, traffic, text, locks, snap, statsFile, statusLine>>

WriteStats(t) ==
  /\ pc[t] = "stats"
  /\ statsFile' = [r \in Redirects |->
       [total |-> snap.totals[r],
        connections |-> Cardinality(Open(DOMAIN snap.conns, r))]]
  /\ writeLock' = Nobody /\ snap' = NoSnapshot
  /\ Goto(t, IF t = Timer THEN "idle" ELSE IF t \in entries THEN "open" ELSE "gone")
  /\ UNCHANGED <<entries, traffic, text, entriesLock, stateFile, statusLine>>

-----------------------------------------------------------------------------
Connection(c) == \/ Track(c) \/ AddToTotal(c) \/ DropGuard(c)
                 \/ BuildStatus(c) \/ Notify(c)
                 \/ \E bytes \in 0..MaxBytes : Report(c, bytes)

Write(t) == \/ LockWrite(t) \/ SnapConnections(t) \/ SnapTotals(t)
            \/ WriteState(t) \/ WriteStats(t)

Next == \/ \E c \in Conns : Connection(c)
        \/ Tick
        \/ \E t \in Tasks : Write(t)

Spec == Init /\ [][Next]_vars
-----------------------------------------------------------------------------
(* What the registry promises *)

Writing == {"snapshot", "totals", "state", "stats"}  \* while writeLock is held
Shown == UNION {[conns -> 0..MaxBytes] : conns \in SUBSET Conns}
Status == [total : Nat, shown : SUBSET Conns]

TypeOK ==
  /\ entries \subseteq Conns
  /\ counter \in [Conns -> 0..MaxBytes] /\ growth \in [Conns -> 0..MaxBytes]
  /\ totals \in [Redirects -> Nat]
  /\ pc \in [Tasks -> {"idle", "new", "open", "gone", "status", "notify",
                      "write"} \cup Writing]
  /\ pc[Timer] \in {"idle", "write"} \cup Writing
  /\ entriesLock \in Tasks \cup {Nobody} /\ writeLock \in Tasks \cup {Nobody}
  /\ snap \in [conns : Shown, totals : [Redirects -> Nat]]
  /\ text \in [Conns -> Status] /\ statusLine \in Status
  /\ stateFile \in Shown
  /\ statsFile \in [Redirects -> [total : Nat, connections : Nat]]

\* No connection is being opened or closed, and nobody writes.
Settled == /\ \A c \in Conns : pc[c] \in {"new", "open", "gone"}
           /\ writeLock = Nobody

\* "The registry is snapshotted to a JSON file on every change": once the
\* changes are over, the files show the open connections, no fewer and no
\* more, whichever of the concurrent writers came last.
FilesSettle ==
  Settled => /\ DOMAIN stateFile = entries
             /\ \A r \in Redirects :
                  statsFile[r].connections = Cardinality(Open(entries, r))

\* "Keep each pair of writes together": between two writers the files agree.
FilesAgree ==
  writeLock = Nobody => \A r \in Redirects :
    statsFile[r].connections = Cardinality(Open(DOMAIN stateFile, r))

\* The lifetime total of a redirect is what was counted for its connections,
\* those that are gone included, up to what is being added.
TotalsComplete ==
  \A r \in Redirects :
    totals[r] = SumFunctionOnSet([c \in Conns |-> counter[c] - growth[c]],
                                 Open(Conns, r))

\* The totals the monitor reads never go back, so that graphs do not dip when
\* a client leaves, although several tasks take and write snapshots.
TotalsNeverDip ==
  [][\A r \in Redirects : statsFile'[r].total >= statsFile[r].total]_vars

\* "pushes the same summary to the sd_notify status line": once the changes
\* are over, the status line shows the open connections.
StatusSettles ==
  Settled => /\ statusLine.total = Cardinality(entries)
             /\ statusLine.shown \subseteq entries
=============================================================================
