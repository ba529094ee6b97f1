--------------------------- MODULE RegistryProofs ---------------------------
(***************************************************************************)
(* What the two mutexes of the registry are worth, for any number of       *)
(* connections and redirects: whichever task writes last has seen every    *)
(* change, the pair of files is never torn, and no total goes back.        *)
(***************************************************************************)
EXTENDS Registry, FiniteSums, TLAPS

-----------------------------------------------------------------------------
(* The inductive invariant                                                   *)

\* A task is where it is only with the lock that it needs there.
LocksAreHeld ==
  \A t \in Tasks : /\ pc[t] \in Writing <=> writeLock = t
                   /\ pc[t] = "totals" <=> entriesLock = t

\* Somebody has changed the entries and has not begun to write yet.
Pending == \E c \in Conns : pc[c] \in {"status", "notify", "write"}

\* What is published, or will be by the task that writes, shows the entries,
\* unless another task is going to write after it.
ChangesArePublished ==
  /\ writeLock = Nobody => DOMAIN stateFile = entries \/ Pending
  /\ \A t \in Tasks : pc[t] \in {"totals", "state", "stats"} =>
       DOMAIN snap.conns = entries \/ Pending

\* The second file is written from the snapshot of the first.
FilesArePaired ==
  /\ FilesAgree
  /\ \A t \in Tasks : pc[t] = "stats" => stateFile = snap.conns

\* Totals only grow on their way into the file.
TotalsGrow ==
  \A r \in Redirects :
    /\ statsFile[r].total <= totals[r]
    /\ \A t \in Tasks : pc[t] \in {"state", "stats"} =>
         statsFile[r].total <= snap.totals[r] /\ snap.totals[r] <= totals[r]

IInv == /\ TypeOK /\ LocksAreHeld
        /\ ChangesArePublished /\ FilesArePaired /\ TotalsGrow

-----------------------------------------------------------------------------
(* Sets and snapshots                                                        *)

LEMMA CountsAreNumbers ==
  ASSUME NEW conns \in SUBSET Conns
  PROVE  /\ Cardinality(conns) \in Nat
         /\ \A r : Cardinality(Open(conns, r)) \in Nat
<1>1. IsFiniteSet(conns)
  BY ConnAssumption, FS_Subset
<1>2. \A r : Open(conns, r) \subseteq conns
  BY DEF Open
<1> QED
  BY <1>1, <1>2, FS_Subset, FS_CardinalityType

LEMMA SnapshotsAreShown ==
  /\ \A conns \in SUBSET Conns : \A f \in [Conns -> 0..MaxBytes] :
       [c \in conns |-> f[c]] \in Shown
  /\ \A f \in Shown : DOMAIN f \in SUBSET Conns
<1>1. ASSUME NEW conns \in SUBSET Conns, NEW f \in [Conns -> 0..MaxBytes]
      PROVE  [c \in conns |-> f[c]] \in Shown
  <2>1. [c \in conns |-> f[c]] \in [conns -> 0..MaxBytes]
    OBVIOUS
  <2> QED
    BY <2>1 DEF Shown
<1> QED
  BY <1>1 DEF Shown

LEMMA NothingIsShown ==
  [c \in {} |-> 0] \in Shown /\ DOMAIN [c \in {} |-> 0] = {}
BY DEF Shown

LEMMA InitHolds == Init => IInv
<1> SUFFICES ASSUME Init PROVE IInv
  OBVIOUS
<1>1. \A r : Open({}, r) = {}
  BY DEF Open
<1>2. TypeOK
  BY NothingIsShown, ConnAssumption, LimitAssumption
  DEF Init, TypeOK, Tasks, Online, NoSnapshot, Status
<1>3. LocksAreHeld
  BY ConnAssumption DEF Init, LocksAreHeld, Tasks, Writing
<1>4. ChangesArePublished
  BY NothingIsShown DEF Init, ChangesArePublished
<1>5. FilesArePaired
  BY <1>1, NothingIsShown, FS_EmptySet DEF Init, FilesArePaired, FilesAgree
<1>6. TotalsGrow
  BY DEF Init, TotalsGrow
<1> QED
  BY <1>2, <1>3, <1>4, <1>5, <1>6 DEF IInv

-----------------------------------------------------------------------------
(* The steps                                                                 *)

\* A step of one task outside of the locked sections.
LEMMA TrackStep == ASSUME IInv, NEW c \in Conns, Track(c) PROVE IInv'
<1> USE DEF Track, Goto, IInv, TypeOK, Tasks
<1>1. TypeOK'
  BY ConnAssumption DEF locks, traffic, published
<1>2. LocksAreHeld'
  BY DEF LocksAreHeld, Writing, locks
<1>3. ChangesArePublished'
  BY DEF ChangesArePublished, Pending
<1>4. FilesArePaired' /\ TotalsGrow'
  BY DEF FilesArePaired, FilesAgree, TotalsGrow, locks, traffic, published
<1> QED
  BY <1>1, <1>2, <1>3, <1>4

LEMMA ReportStep ==
  ASSUME IInv, NEW c \in Conns, NEW bytes \in 0..MaxBytes, Report(c, bytes)
  PROVE  IInv'
<1> USE DEF Report, IInv, TypeOK
<1>1. TypeOK'
  BY LimitAssumption DEF locks, published
<1>2. LocksAreHeld' /\ ChangesArePublished'
  BY DEF LocksAreHeld, ChangesArePublished, Pending, locks, published
<1>3. FilesArePaired' /\ TotalsGrow'
  BY DEF FilesArePaired, FilesAgree, TotalsGrow, locks, published
<1> QED
  BY <1>1, <1>2, <1>3

LEMMA AddToTotalStep ==
  ASSUME IInv, NEW c \in Conns, AddToTotal(c) PROVE IInv'
<1> USE DEF AddToTotal, IInv, TypeOK
<1>1. \A r \in Redirects : totals'[r] \in Nat /\ totals[r] <= totals'[r]
  BY LimitAssumption
<1>2. TypeOK'
  <2>1. totals' \in [Redirects -> Nat]
    BY <1>1
  <2>2. growth' \in [Conns -> 0..MaxBytes]
    BY LimitAssumption
  <2> QED
    BY <2>1, <2>2 DEF locks, published
<1>3. LocksAreHeld' /\ ChangesArePublished'
  BY DEF LocksAreHeld, ChangesArePublished, Pending, locks, published
<1>4. FilesArePaired'
  BY DEF FilesArePaired, FilesAgree, locks, published
<1>5. TotalsGrow'
  <2> SUFFICES ASSUME NEW r \in Redirects
               PROVE  /\ statsFile[r].total <= totals'[r]
                      /\ \A t \in Tasks : pc[t] \in {"state", "stats"} =>
                           /\ statsFile[r].total <= snap.totals[r]
                           /\ snap.totals[r] <= totals'[r]
    BY DEF TotalsGrow, published
  <2>1. statsFile[r].total \in Nat /\ snap.totals[r] \in Nat /\ totals[r] \in Nat
    OBVIOUS
  <2> QED
    BY <1>1, <2>1 DEF TotalsGrow
<1> QED
  BY <1>2, <1>3, <1>4, <1>5

LEMMA DropGuardStep ==
  ASSUME IInv, NEW c \in Conns, DropGuard(c) PROVE IInv'
<1> USE DEF DropGuard, Goto, IInv, TypeOK, Tasks
<1>1. TypeOK'
  BY ConnAssumption DEF locks, traffic, published
<1>2. LocksAreHeld'
  BY DEF LocksAreHeld, Writing, locks
<1>3. ChangesArePublished'
  BY DEF ChangesArePublished, Pending
<1>4. FilesArePaired' /\ TotalsGrow'
  BY DEF FilesArePaired, FilesAgree, TotalsGrow, locks, traffic, published
<1> QED
  BY <1>1, <1>2, <1>3, <1>4

LEMMA BuildStatusStep ==
  ASSUME IInv, NEW c \in Conns, BuildStatus(c) PROVE IInv'
<1> USE DEF BuildStatus, Goto, IInv, TypeOK, Tasks
<1>1. text' \in [Conns -> Status]
  BY CountsAreNumbers DEF Status
<1>2. TypeOK'
  BY <1>1, ConnAssumption DEF locks, traffic, published
<1>3. LocksAreHeld'
  BY DEF LocksAreHeld, Writing, locks
<1>4. ChangesArePublished'
  BY DEF ChangesArePublished, Pending, published
<1>5. FilesArePaired' /\ TotalsGrow'
  BY DEF FilesArePaired, FilesAgree, TotalsGrow, locks, traffic, published
<1> QED
  BY <1>2, <1>3, <1>4, <1>5

LEMMA NotifyStep == ASSUME IInv, NEW c \in Conns, Notify(c) PROVE IInv'
<1> USE DEF Notify, Goto, IInv, TypeOK, Tasks
<1>1. TypeOK'
  BY ConnAssumption DEF locks, traffic, Online, Status
<1>2. LocksAreHeld'
  BY DEF LocksAreHeld, Writing, locks
<1>3. ChangesArePublished'
  BY DEF ChangesArePublished, Pending, locks
<1>4. FilesArePaired' /\ TotalsGrow'
  BY DEF FilesArePaired, FilesAgree, TotalsGrow, locks, traffic
<1> QED
  BY <1>1, <1>2, <1>3, <1>4

LEMMA TickStep == ASSUME IInv, Tick PROVE IInv'
<1> USE DEF Tick, Goto, IInv, TypeOK, Tasks
<1>1. TypeOK'
  BY DEF locks, traffic, published
<1>2. LocksAreHeld'
  BY DEF LocksAreHeld, Writing, locks
<1>3. ChangesArePublished'
  BY ConnAssumption DEF ChangesArePublished, Pending, locks, published
<1>4. FilesArePaired' /\ TotalsGrow'
  BY DEF FilesArePaired, FilesAgree, TotalsGrow, locks, traffic, published
<1> QED
  BY <1>1, <1>2, <1>3, <1>4

\* Only its holder is past the lock of the writers.
LEMMA OneWriter ==
  ASSUME IInv, NEW t \in Tasks, pc[t] \in Writing
  PROVE  /\ writeLock = t /\ writeLock # Nobody
         /\ \A u \in Tasks : pc[u] \in Writing => u = t
BY ConnAssumption DEF IInv, LocksAreHeld

LEMMA LockWriteStep == ASSUME IInv, NEW t \in Tasks, LockWrite(t) PROVE IInv'
<1> USE ConnAssumption DEF LockWrite, Goto, IInv, TypeOK
<1>1. TypeOK'
  BY DEF locks, traffic, published, Writing, Tasks
<1>2. \A u \in Tasks : pc[u] \notin Writing
  BY DEF LocksAreHeld
<1>3. LocksAreHeld'
  BY <1>2 DEF LocksAreHeld, Writing
<1>4. ChangesArePublished'
  BY <1>2 DEF ChangesArePublished, Writing
<1>5. FilesArePaired' /\ TotalsGrow'
  BY <1>2 DEF FilesArePaired, FilesAgree, TotalsGrow, traffic, published, Writing
<1> QED
  BY <1>1, <1>3, <1>4, <1>5

LEMMA SnapConnectionsStep ==
  ASSUME IInv, NEW t \in Tasks, SnapConnections(t) PROVE IInv'
<1> USE DEF SnapConnections, Goto, IInv, TypeOK
<1>1. \A u \in Tasks : pc[u] \in Writing => u = t
  BY OneWriter DEF Writing
<1>2. snap' \in [conns : Shown, totals : [Redirects -> Nat]]
  <2>1. [c \in entries |-> counter[c]] \in Shown
    BY SnapshotsAreShown
  <2> QED
    BY <2>1
<1>3. TypeOK'
  BY <1>2, ConnAssumption DEF locks, traffic, published, Writing, Tasks
<1>4. LocksAreHeld'
  BY <1>1, ConnAssumption DEF LocksAreHeld, Writing
<1>5. ChangesArePublished'
  <2>1. DOMAIN snap'.conns = entries
    OBVIOUS
  <2>2. writeLock # Nobody
    BY OneWriter DEF Writing
  <2> QED
    BY <2>1, <2>2 DEF ChangesArePublished
<1>6. FilesArePaired' /\ TotalsGrow'
  BY <1>1, OneWriter
  DEF FilesArePaired, FilesAgree, TotalsGrow, traffic, published, Writing
<1> QED
  BY <1>3, <1>4, <1>5, <1>6

LEMMA SnapTotalsStep ==
  ASSUME IInv, NEW t \in Tasks, SnapTotals(t) PROVE IInv'
<1> USE DEF SnapTotals, Goto, IInv, TypeOK
<1>1. \A u \in Tasks : pc[u] \in Writing => u = t
  BY OneWriter DEF Writing
<1>2. writeLock = t /\ writeLock # Nobody
  BY OneWriter DEF Writing
<1>3. snap' \in [conns : Shown, totals : [Redirects -> Nat]]
  OBVIOUS
<1>4. TypeOK'
  BY <1>3, ConnAssumption DEF traffic, published, Writing, Tasks
<1>5. LocksAreHeld'
  BY <1>1, ConnAssumption DEF LocksAreHeld, Writing
<1>6. ChangesArePublished'
  <2>1. DOMAIN snap.conns = entries \/ Pending
    BY DEF ChangesArePublished
  <2>2. Pending => Pending'
    BY DEF Pending, Tasks
  <2> QED
    BY <1>2, <2>1, <2>2 DEF ChangesArePublished
<1>7. FilesArePaired'
  BY <1>1, <1>2 DEF FilesArePaired, FilesAgree, published, Writing
<1>8. TotalsGrow'
  BY DEF TotalsGrow, traffic, published
<1> QED
  BY <1>4, <1>5, <1>6, <1>7, <1>8

LEMMA WriteStateStep ==
  ASSUME IInv, NEW t \in Tasks, WriteState(t) PROVE IInv'
<1> USE DEF WriteState, Goto, IInv, TypeOK
<1>1. \A u \in Tasks : pc[u] \in Writing => u = t
  BY OneWriter DEF Writing
<1>2. writeLock = t /\ writeLock # Nobody
  BY OneWriter DEF Writing
<1>3. TypeOK'
  BY ConnAssumption DEF locks, traffic, published, Writing, Tasks
<1>4. LocksAreHeld'
  BY <1>1 DEF LocksAreHeld, locks, Writing
<1>5. ChangesArePublished'
  <2>1. DOMAIN snap.conns = entries \/ Pending
    BY DEF ChangesArePublished
  <2>2. Pending => Pending'
    BY DEF Pending, Tasks
  <2> QED
    BY <1>2, <2>1, <2>2 DEF ChangesArePublished, locks
<1>6. FilesArePaired'
  BY <1>1, <1>2 DEF FilesArePaired, FilesAgree, locks, Writing
<1>7. TotalsGrow'
  BY DEF TotalsGrow, traffic
<1> QED
  BY <1>3, <1>4, <1>5, <1>6, <1>7

LEMMA WriteStatsStep ==
  ASSUME IInv, NEW t \in Tasks, WriteStats(t) PROVE IInv'
<1> DEFINE goes == IF t = Timer THEN "idle"
                   ELSE IF t \in entries THEN "open" ELSE "gone"
<1> USE DEF WriteStats, Goto, IInv, TypeOK
<1>1. \A u \in Tasks : pc[u] \in Writing => u = t
  BY OneWriter DEF Writing
<1>2. stateFile = snap.conns
  BY DEF FilesArePaired
<1>3. pc' = [pc EXCEPT ![t] = goes] /\ goes \notin Writing
  BY DEF Writing
<1>4. TypeOK'
  <2>1. NoSnapshot \in [conns : Shown, totals : [Redirects -> Nat]]
    BY NothingIsShown DEF NoSnapshot
  <2>2. \A r : Cardinality(Open(DOMAIN snap.conns, r)) \in Nat
    BY CountsAreNumbers, SnapshotsAreShown
  <2>3. statsFile' \in [Redirects -> [total : Nat, connections : Nat]]
    BY <2>2
  <2> QED
    BY <1>3, <2>1, <2>3, ConnAssumption DEF traffic, Writing, Tasks
<1>5. LocksAreHeld'
  BY <1>1, <1>3, ConnAssumption DEF LocksAreHeld, Writing, Tasks
<1>6. ChangesArePublished'
  <2>1. DOMAIN stateFile = entries \/ Pending
    BY <1>2 DEF ChangesArePublished
  <2>2. Pending => Pending'
    BY <1>3 DEF Pending, Tasks
  <2>3. \A u \in Tasks : pc'[u] \notin Writing
    BY <1>1, <1>3
  <2> QED
    BY <2>1, <2>2, <2>3 DEF ChangesArePublished, Writing
<1>7. FilesArePaired'
  BY <1>1, <1>2, <1>3 DEF FilesArePaired, FilesAgree, Writing
<1>8. TotalsGrow'
  <2>1. \A u \in Tasks : pc'[u] \notin Writing
    BY <1>1, <1>3
  <2> QED
    BY <2>1 DEF TotalsGrow, traffic, Writing
<1> QED
  BY <1>4, <1>5, <1>6, <1>7, <1>8

LEMMA NextHolds == ASSUME IInv, [Next]_vars PROVE IInv'
<1>1. CASE UNCHANGED vars
  BY <1>1 DEF vars, traffic, locks, published, IInv, TypeOK, LocksAreHeld,
              ChangesArePublished, Pending, FilesArePaired, FilesAgree, TotalsGrow
<1>2. ASSUME NEW c \in Conns, Connection(c) PROVE IInv'
  BY <1>2, TrackStep, ReportStep, AddToTotalStep, DropGuardStep, BuildStatusStep,
     NotifyStep DEF Connection
<1>3. ASSUME NEW t \in Tasks, Write(t) PROVE IInv'
  BY <1>3, LockWriteStep, SnapConnectionsStep, SnapTotalsStep, WriteStateStep,
     WriteStatsStep DEF Write
<1> QED
  BY <1>1, <1>2, <1>3, TickStep DEF Next

LEMMA Inductive == Spec => []IInv
BY InitHolds, NextHolds, PTL DEF Spec

-----------------------------------------------------------------------------
(* What holds of every execution                                             *)

\* The entries, the counters and what is published keep their types.
THEOREM TypeCorrect == Spec => []TypeOK
<1>1. IInv => TypeOK
  BY DEF IInv
<1> QED
  BY <1>1, Inductive, PTL

\* "Keep each pair of writes together" (connections.rs): whoever reads the two
\* files while nobody writes finds them of one snapshot.
THEOREM PairIsNeverTorn == Spec => []FilesAgree
<1>1. IInv => FilesAgree
  BY DEF IInv, FilesArePaired
<1> QED
  BY <1>1, Inductive, PTL

\* "The registry is snapshotted to a JSON file on every change": however the
\* tasks overtake each other, no older snapshot is what stays.
THEOREM LastChangeIsPublished == Spec => []FilesSettle
<1>1. ASSUME IInv, Settled PROVE DOMAIN stateFile = entries
  BY <1>1 DEF IInv, ChangesArePublished, Pending, Settled
<1>2. IInv => FilesSettle
  BY <1>1 DEF FilesSettle, Settled, IInv, FilesArePaired, FilesAgree
<1> QED
  BY <1>2, Inductive, PTL

\* The published lifetime totals never go back, although they are taken from
\* the counters in one step and written in another.
THEOREM PublishedTotalsGrow == Spec => TotalsNeverDip
<1> DEFINE Grow == \A r \in Redirects : statsFile'[r].total >= statsFile[r].total
<1>1. ASSUME IInv, [Next]_vars PROVE [Grow]_vars
  <2>1. CASE statsFile' = statsFile
    BY <1>1, <2>1 DEF IInv, TypeOK
  <2>2. ASSUME NEW t \in Tasks, WriteStats(t) PROVE Grow
    BY <1>1, <2>2 DEF WriteStats, IInv, TypeOK, TotalsGrow
  <2>3. CASE Next
    BY <2>1, <2>2, <2>3
    DEF Next, Connection, Write, Track, Report, AddToTotal, DropGuard,
        BuildStatus, Notify, Tick, LockWrite, SnapConnections, SnapTotals,
        WriteState, published
  <2> QED
    BY <1>1, <2>3
<1> QED
  BY <1>1, Inductive, PTL DEF Spec, TotalsNeverDip

-----------------------------------------------------------------------------
(* The lifetime totals                                                       *)

\* What each connection has contributed to the total of its redirect.
Contributed == [c \in Conns |-> counter[c] - growth[c]]

LEMMA ContributionsAreNumbers ==
  ASSUME TypeOK
  PROVE  \A c \in Conns : Contributed[c] \in Int
BY LimitAssumption DEF TypeOK, Contributed

LEMMA RedirectsAreFinite == \A r : IsFiniteSet(Open(Conns, r))
<1>1. \A r : Open(Conns, r) \in SUBSET Conns
  BY DEF Open
<1> QED
  BY <1>1, ConnAssumption, FS_Subset

LEMMA InitTotals == Init => TotalsComplete
<1> SUFFICES ASSUME Init, NEW r \in Redirects
             PROVE  SumFunctionOnSet(Contributed, Open(Conns, r)) = 0
  BY DEF Init, TotalsComplete, Contributed
<1>1. \A c \in Conns : Contributed[c] = 0
  BY DEF Init, Contributed
<1> QED
  BY <1>1, RedirectsAreFinite, SumOfZeros DEF Open

\* The counter is raised by as much as is noted to be added.
LEMMA ReportKeepsTotals ==
  ASSUME TypeOK, TotalsComplete,
         NEW c \in Conns, NEW bytes \in 0..MaxBytes, Report(c, bytes)
  PROVE  TotalsComplete'
<1>1. Contributed' = Contributed
  <2>1. \A d \in Conns : /\ counter[d] \in Int /\ growth[d] \in Int
                         /\ counter'[d] - growth'[d] = counter[d] - growth[d]
    BY LimitAssumption DEF TypeOK, Report
  <2> QED
    BY <2>1 DEF Contributed
<1>2. totals' = totals
  BY DEF Report
<1> QED
  BY <1>1, <1>2 DEF TotalsComplete, Contributed

\* What was noted goes to the one redirect of the connection.
LEMMA AddToTotalKeepsTotals ==
  ASSUME TypeOK, TotalsComplete, NEW c \in Conns, AddToTotal(c)
  PROVE  TotalsComplete'
<1> DEFINE before == Contributed  after == Contributed'
           own == RedirectOf[c]
<1>1. /\ counter[c] \in Int /\ growth[c] \in Int
      /\ before[c] = counter[c] - growth[c] /\ after[c] = counter[c]
  BY LimitAssumption DEF TypeOK, AddToTotal, Contributed
<1>2. \A d \in Conns : /\ before[d] \in Int /\ after[d] \in Int
                       /\ d # c => after[d] = before[d]
  BY LimitAssumption DEF TypeOK, AddToTotal, Contributed
<1>3. own \in Redirects /\ totals[own] \in Int
  BY ConnAssumption DEF TypeOK
<1>4. \A r \in Redirects :
        totals'[r] = IF r = own THEN totals[r] + growth[c] ELSE totals[r]
  BY <1>3 DEF TypeOK, AddToTotal
<1> HIDE DEF before, after, own
<1> SUFFICES ASSUME NEW r \in Redirects
             PROVE  totals'[r] = SumFunctionOnSet(after, Open(Conns, r))
  BY DEF TotalsComplete, Contributed, after
<1>5. totals[r] = SumFunctionOnSet(before, Open(Conns, r))
  BY DEF TotalsComplete, Contributed, before
<1>6. CASE r = own
  <2>1. c \in Open(Conns, r) /\ Open(Conns, r) \subseteq Conns
    BY <1>6 DEF Open, own
  <2>2. SumFunctionOnSet(after, Open(Conns, r))
          = SumFunctionOnSet(before, Open(Conns, r)) - before[c] + after[c]
    BY <1>2, <2>1, RedirectsAreFinite, SumUpdates
  <2> QED
    BY <1>1, <1>3, <1>4, <1>5, <1>6, <2>2
<1>7. CASE r # own
  <2>1. \A d \in Open(Conns, r) : after[d] = before[d]
    BY <1>2, <1>7 DEF Open, own
  <2>2. SumFunctionOnSet(after, Open(Conns, r))
          = SumFunctionOnSet(before, Open(Conns, r))
    BY <2>1, RedirectsAreFinite, SumAgrees
  <2> QED
    BY <1>4, <1>5, <1>7, <2>2
<1> QED
  BY <1>6, <1>7

LEMMA TotalsStep ==
  ASSUME TypeOK, TotalsComplete, [Next]_vars PROVE TotalsComplete'
<1>1. CASE UNCHANGED traffic
  BY <1>1 DEF traffic, TotalsComplete
<1>2. CASE ~UNCHANGED traffic
  <2>1. \E c \in Conns : \/ AddToTotal(c)
                        \/ \E bytes \in 0..MaxBytes : Report(c, bytes)
    BY <1>2 DEF Next, Connection, Write, Track, DropGuard, BuildStatus, Notify,
                Tick, LockWrite, SnapConnections, SnapTotals, WriteState,
                WriteStats, vars
  <2> QED
    BY <2>1, ReportKeepsTotals, AddToTotalKeepsTotals
<1> QED
  BY <1>1, <1>2

\* The lifetime total of a redirect never loses or doubles a byte, although
\* any number of its connections add to it, each in two steps, and the
\* connections that are gone stay in it.
THEOREM NothingIsLost == Spec => []TotalsComplete
<1>1. Spec => [](TypeOK /\ TotalsComplete)
  BY InitTotals, TotalsStep, TypeCorrect, PTL DEF Spec
<1> QED
  BY <1>1, PTL
=============================================================================
