--------------------------- MODULE ConnectionProofs ---------------------------
(***************************************************************************)
(* What one connection of a redirect is owed: a TCP connection delivers    *)
(* and counts what was sent, for every number of plugins, targets, bytes   *)
(* and reports; with its offline plugin it implements the connection that  *)
(* leaves the plugin open, and tells a client what it has asked for; and   *)
(* the clocks are kept, those of a UDP session for every idle timeout and  *)
(* the pace of a shaped TCP copy for every window, chunk size and jitter.  *)
(***************************************************************************)
EXTENDS Redirect, SequenceTheorems, TLAPS

-----------------------------------------------------------------------------
(* The inductive invariant of a TCP connection                               *)

\* Before the worker is spawned nothing of it exists; the parent stops waiting
\* only when it is gone, and the reporter lives as long as the parent waits.
Phases ==
  /\ stage \in {"probing", "admitting", "connecting", "failing", "spawning"} =>
       worker = "none" /\ reports = <<>>
  /\ worker = "none" => \A d \in Dirs : copy[d] = "none"
  /\ stage = "draining" => worker \in {"exited", "killed"}
  /\ stage = "waiting" /\ worker = "running" => reporter
  /\ result # "none" => stage = "ended"
  /\ result \in {"served", "failed"} => worker # "running"
  /\ worker # "exited" => Len(reports) <= MaxReports

\* A thread that reads holds no bytes; one that passed on the end of its
\* stream has written everything, and its source cannot send again.
Bytes ==
  \A d \in Dirs :
    /\ written[d] + chunk[d] <= sent[d]
    /\ copy[d] \in {"none", "read", "done"} => chunk[d] = 0
    /\ shut[d] => /\ copy[d] = "done" /\ written[d] = sent[d]
                  /\ peer[Source[d]] \in Leaving

\* No count exceeds what was written, and the last report of a worker that
\* has exited, while it is awaited, is what it has written.
Counts ==
  /\ \A d \in Dirs : counted[d] <= written[d]
  /\ \A i \in 1..Len(reports), d \in Dirs : reports[i][d] <= written[d]
  /\ worker = "exited" /\ stage \in {"waiting", "draining"} =>
       IF reports = <<>> THEN counted = written
                         ELSE reports[Len(reports)] = written
  /\ CountsAreFinal

IInv == TypeOK /\ Phases /\ Bytes /\ Counts

LEMMA InitHolds == Init => IInv
<1> SUFFICES ASSUME Init PROVE IInv
  OBVIOUS
<1> USE SizeAssumption DEF Init, Dirs, Sides, None, Leaving
<1>0. tracked \in BOOLEAN /\ reporter \in BOOLEAN
  OBVIOUS
<1>1. TypeOK
  BY <1>0 DEF TypeOK
<1>2. Phases
  BY DEF Phases
<1>3. Bytes
  BY DEF Bytes
<1>4. Counts
  BY DEF Counts, CountsAreFinal
<1> QED BY <1>1, <1>2, <1>3, <1>4 DEF IInv

-----------------------------------------------------------------------------
(* Steps that leave the copies and the reports alone                         *)

LEMMA PeersStep == IInv /\ Peers => IInv'
<1> SUFFICES ASSUME IInv, Peers PROVE IInv'
  OBVIOUS
<1> USE SizeAssumption DEF IInv, TypeOK, Dirs, Sides, Leaving, PeerOnly,
        handlerVars, copyVars, reportVars
<1>1. CASE \E d \in Dirs : PeerSends(d)
  <2>1. PICK d \in Dirs : PeerSends(d)
    BY <1>1
  <2>2. TypeOK'
    BY <2>1 DEF PeerSends
  <2>3. Phases'
    BY <2>1 DEF PeerSends, Phases
  <2>4. Bytes'
    BY SMTT(30), <2>1 DEF PeerSends, Bytes, Source
  <2>5. Counts'
    BY <2>1 DEF PeerSends, Counts, CountsAreFinal
  <2> QED BY <2>2, <2>3, <2>4, <2>5
<1>2. CASE \E side \in Sides, how \in Leaving : PeerLeaves(side, how)
  <2>1. PICK side \in Sides, how \in Leaving : PeerLeaves(side, how)
    BY <1>2
  <2>2. TypeOK'
    BY <2>1 DEF PeerLeaves
  <2>3. Phases'
    BY <2>1 DEF PeerLeaves, Phases
  <2>4. Bytes'
    BY <2>1 DEF PeerLeaves, Bytes, Source
  <2>5. Counts'
    BY <2>1 DEF PeerLeaves, Counts, CountsAreFinal
  <2> QED BY <2>2, <2>3, <2>4, <2>5
<1> QED BY <1>1, <1>2 DEF Peers

LEMMA HandlerStep ==
  ASSUME IInv,
         Probe \/ OnConnect \/ Connected \/ ConnectFailed
           \/ OnTargetFailure \/ SpawnFailed
  PROVE  IInv'
<1> USE SizeAssumption DEF IInv, Dirs, Sides, Leaving,
        HandlerOnly, Enter, NextOne, End
<1> DEFINE Step == \/ Probe \/ OnConnect \/ Connected \/ ConnectFailed
                   \/ OnTargetFailure \/ SpawnFailed
<1>1. UNCHANGED <<worker, copyVars, reportVars, sent>>
  BY DEF Probe, OnConnect, Connected, ConnectFailed, OnTargetFailure,
         SpawnFailed, peerVars
<1>2. UNCHANGED <<worker, copy, chunk, written, shut, reporter, reports,
                  counted, sent>>
  BY <1>1 DEF copyVars, reportVars
<1>3. /\ stage \in {"probing", "admitting", "connecting", "failing", "spawning"}
      /\ stage' \in {"probing", "admitting", "connecting", "failing",
                     "spawning", "ended"}
      /\ next' \in 1..(Plugins + Targets + 1)
      /\ stage' = "connecting" => next' <= Targets
      /\ result' \in {"none", "rejected", "handled", "closed", "failed"}
      /\ result' # "none" => stage' = "ended"
  <2> USE DEF TypeOK, Phases
  <2>1. CASE Probe
    BY <2>1 DEF Probe
  <2>2. CASE OnConnect
    BY SMTT(30), <2>2 DEF OnConnect
  <2>3. CASE Connected
    BY <2>3 DEF Connected
  <2>4. CASE ConnectFailed
    BY SMTT(30), <2>4 DEF ConnectFailed
  <2>5. CASE OnTargetFailure
    BY SMTT(30), <2>5 DEF OnTargetFailure
  <2>6. CASE SpawnFailed
    BY <2>6 DEF SpawnFailed
  <2> QED BY <2>1, <2>2, <2>3, <2>4, <2>5, <2>6
<1>4. tracked' \in BOOLEAN
  BY DEF TypeOK, Probe, OnConnect, Connected, ConnectFailed,
         OnTargetFailure, SpawnFailed
<1>5. /\ peer' \in [Sides -> {"none", "open"} \cup Leaving]
      /\ peer' = peer \/ stage = "connecting"
  BY DEF TypeOK, Probe, OnConnect, Connected, ConnectFailed,
         OnTargetFailure, SpawnFailed, peerVars
<1>6. worker = "none" /\ reports = <<>> /\ \A d \in Dirs : copy[d] = "none"
  BY <1>3 DEF Phases
<1>7. TypeOK'
  BY <1>2, <1>3, <1>4, <1>5 DEF TypeOK
<1>8. Phases'
  BY <1>2, <1>3, <1>6 DEF Phases, TypeOK
<1>9. Bytes'
  BY <1>2, <1>5, <1>6 DEF Bytes
<1>10. Counts'
  BY <1>2, <1>3, <1>6 DEF Counts, CountsAreFinal
<1> QED BY <1>7, <1>8, <1>9, <1>10

\* The worker starts with nothing read; the parent waits for it or has ended.
LEMMA SpawnStep == ASSUME IInv, Spawn PROVE IInv'
<1> USE SizeAssumption DEF IInv, Dirs, End
<1>1. /\ UNCHANGED <<peer, sent, chunk, written, shut, reports, counted>>
      /\ stage = "spawning" /\ worker' = "running"
      /\ copy' = [d \in Dirs |-> "read"]
  BY DEF Spawn, peerVars
<1>2. \/ stage' = "waiting" /\ UNCHANGED <<next, result>>
      \/ stage' = "ended" /\ result' = "orphaned" /\ UNCHANGED next
  BY DEF Spawn
<1>3. reporter' = TRUE
  BY DEF Spawn
<1>4. tracked' \in BOOLEAN
  BY DEF Spawn, TypeOK
<1>5. worker = "none" /\ reports = <<>> /\ result = "none"
  BY <1>1 DEF Phases
<1>6. TypeOK'
  <2>1. reporter' \in BOOLEAN
    BY <1>3
  <2> QED BY <1>1, <1>2, <1>4, <2>1 DEF TypeOK
<1>7. Phases'
  BY <1>1, <1>2, <1>3, <1>5 DEF Phases, TypeOK
<1>8. Bytes'
  BY <1>1, <1>5 DEF Bytes, Phases
<1>9. Counts'
  BY <1>1, <1>2, <1>5 DEF Counts, CountsAreFinal
<1> QED BY <1>6, <1>7, <1>8, <1>9

LEMMA ReapStep == ASSUME IInv, Reap PROVE IInv'
<1> USE SizeAssumption DEF IInv, Dirs, Reap, HandlerOnly, Enter,
        peerVars, copyVars, reportVars
<1>1. TypeOK'
  BY DEF TypeOK
<1>2. Phases'
  BY DEF Phases
<1>3. Bytes'
  BY DEF Bytes
<1>4. Counts'
  BY DEF Counts, CountsAreFinal, Phases
<1> QED BY <1>1, <1>2, <1>3, <1>4

\* Everything the worker reported has been read: its last report is counted.
LEMMA DrainedStep == ASSUME IInv, Drained PROVE IInv'
<1> USE SizeAssumption DEF IInv, Dirs, HandlerOnly, End
<1>1. /\ UNCHANGED <<next, peer, sent, worker, copy, chunk, written, shut,
                     reports, counted>>
      /\ stage = "draining" /\ reports = <<>> /\ stage' = "ended"
      /\ result' \in {"served", "failed"}
  BY DEF Drained, peerVars, copyVars, reportVars
<1>2. tracked' = FALSE /\ UNCHANGED reporter
  BY DEF Drained, reportVars
<1>3. TypeOK'
  <2>1. tracked' \in BOOLEAN /\ reporter' \in BOOLEAN
    BY <1>2 DEF TypeOK
  <2> QED BY <1>1, <2>1 DEF TypeOK
<1>4. Phases'
  BY <1>1, <1>2 DEF Phases
<1>5. Bytes'
  BY <1>1 DEF Bytes
<1>6. Counts'
  BY <1>1 DEF Counts, CountsAreFinal
<1> QED BY <1>3, <1>4, <1>5, <1>6

-----------------------------------------------------------------------------
(* The copies                                                                *)

LEMMA CopyStep ==
  ASSUME IInv, NEW d \in Dirs, Copy(d)
  PROVE  IInv'
<1> USE SizeAssumption DEF IInv, Dirs
<1>0. /\ sent \in [Dirs -> Nat] /\ chunk \in [Dirs -> Nat]
      /\ written \in [Dirs -> Nat] /\ counted \in [Dirs -> Nat]
      /\ copy \in [Dirs -> {"none", "read", "write", "done", "failed"}]
      /\ shut \in [Dirs -> BOOLEAN]
      /\ reports \in Seq([Dirs -> Nat])
  BY DEF TypeOK
<1>1. /\ UNCHANGED <<stage, next, result, tracked, peer, sent, worker,
                     reporter, reports, counted>>
      /\ worker = "running"
  BY DEF Copy, Read, ReadEof, ReadError, Write, WriteError, Copying,
         CopyOnly, handlerVars, peerVars, reportVars
<1>2. /\ chunk' \in [Dirs -> Nat] /\ written' \in [Dirs -> Nat]
      /\ copy' \in [Dirs -> {"read", "write", "done", "failed", "none"}]
      /\ shut' \in [Dirs -> BOOLEAN]
      /\ \A e \in Dirs : written[e] <= written'[e]
  <2>1. CASE Read(d)
    BY SMTT(30), <2>1 DEF TypeOK, Read, InFlight
  <2>2. CASE ReadEof(d)
    BY <2>2 DEF TypeOK, ReadEof
  <2>3. CASE ReadError(d)
    BY <2>3 DEF TypeOK, ReadError
  <2>4. CASE Write(d)
    <3>1. PICK n \in 1..chunk[d] :
            /\ written' = [written EXCEPT ![d] = @ + n]
            /\ chunk' = [chunk EXCEPT ![d] = @ - n]
            /\ copy' = [copy EXCEPT ![d] = IF n = chunk[d] THEN "read" ELSE @]
      BY <2>4 DEF Write
    <3>2. shut' = shut
      BY <2>4 DEF Write
    <3> QED BY SMTT(30), <1>0, <3>1, <3>2
  <2>5. CASE WriteError(d)
    BY <2>5 DEF TypeOK, WriteError
  <2> QED BY <2>1, <2>2, <2>3, <2>4, <2>5 DEF Copy
<1>3. TypeOK'
  BY <1>1, <1>2 DEF TypeOK
<1>4. Phases'
  BY <1>1 DEF Phases
<1>5. Bytes'
  <2> SUFFICES ASSUME NEW e \in Dirs
               PROVE  /\ written'[e] + chunk'[e] <= sent[e]
                      /\ copy'[e] \in {"none", "read", "done"} => chunk'[e] = 0
                      /\ shut'[e] => /\ copy'[e] = "done" /\ written'[e] = sent[e]
                                     /\ peer[Source[e]] \in Leaving
    BY <1>1 DEF Bytes
  <2>0. /\ written[e] + chunk[e] <= sent[e]
        /\ copy[e] \in {"none", "read", "done"} => chunk[e] = 0
        /\ shut[e] => /\ copy[e] = "done" /\ written[e] = sent[e]
                      /\ peer[Source[e]] \in Leaving
    BY DEF Bytes
  <2>1. CASE Read(d)
    <3>1. PICK n \in 1..(sent[d] - written[d] - chunk[d]) :
            chunk' = [chunk EXCEPT ![d] = n]
      BY <2>1 DEF Read, InFlight
    <3>2. /\ copy[d] = "read" /\ copy' = [copy EXCEPT ![d] = "write"]
          /\ UNCHANGED <<written, shut>>
      BY <2>1 DEF Read, Copying
    <3> QED BY <1>0, <2>0, <3>1, <3>2
  <2>2. CASE ReadEof(d)
    <3>1. /\ copy[d] = "read" /\ sent[d] - written[d] - chunk[d] = 0
          /\ peer[Source[d]] \in Leaving
          /\ shut' = [shut EXCEPT ![d] = TRUE]
          /\ copy' = [copy EXCEPT ![d] = "done"] /\ UNCHANGED <<chunk, written>>
      BY <2>2 DEF ReadEof, Copying, InFlight, Leaving
    <3>2. CASE e = d
      <4>1. written'[d] = written[d] /\ chunk'[d] = chunk[d] /\ copy'[d] = "done"
        BY <1>0, <3>1
      <4>2. chunk[d] = 0 /\ written[d] = sent[d]
        BY <1>0, <2>0, <3>1, <3>2
      <4> QED BY <1>0, <3>1, <3>2, <4>1, <4>2
    <3>3. CASE e # d
      BY <1>0, <2>0, <3>1, <3>3
    <3> QED BY <3>2, <3>3
  <2>3. CASE ReadError(d) \/ WriteError(d)
    <3>1. /\ copy[d] \in {"read", "write"} /\ copy' = [copy EXCEPT ![d] = "failed"]
          /\ UNCHANGED <<chunk, written, shut>>
      BY <2>3 DEF ReadError, WriteError, Copying
    <3> QED BY <1>0, <2>0, <3>1
  <2>4. CASE Write(d)
    <3>1. PICK n \in 1..chunk[d] :
            /\ written' = [written EXCEPT ![d] = @ + n]
            /\ chunk' = [chunk EXCEPT ![d] = @ - n]
            /\ copy' = [copy EXCEPT ![d] = IF n = chunk[d] THEN "read" ELSE @]
      BY <2>4 DEF Write
    <3>2. copy[d] = "write" /\ shut' = shut
      BY <2>4 DEF Write, Copying
    <3>3. CASE e = d
      BY <1>0, <2>0, <3>1, <3>2, <3>3
    <3>4. CASE e # d
      BY <1>0, <2>0, <3>1, <3>2, <3>4
    <3> QED BY <3>3, <3>4
  <2> QED BY <2>1, <2>2, <2>3, <2>4 DEF Copy
<1>6. Counts'
  <2>1. \A e \in Dirs : counted'[e] <= written'[e]
    BY SMTT(30), <1>1, <1>2 DEF Counts, TypeOK
  <2>2. \A i \in 1..Len(reports'), e \in Dirs : reports'[i][e] <= written'[e]
    <3> TAKE i \in 1..Len(reports'), e \in Dirs
    <3>1. i \in 1..Len(reports) /\ reports'[i] = reports[i]
      BY <1>1
    <3>2. reports[i] \in [Dirs -> Nat]
      BY <1>0, <3>1
    <3>3. reports[i][e] <= written[e]
      BY <3>1 DEF Counts
    <3>4. reports[i][e] \in Nat /\ written[e] \in Nat /\ written'[e] \in Nat
      BY <1>0, <1>2, <3>2
    <3> QED BY SMTT(30), <1>2, <3>1, <3>3, <3>4
  <2>3. ~(worker = "exited") /\ CountsAreFinal'
    BY <1>1 DEF CountsAreFinal
  <2> QED BY <1>1, <2>1, <2>2, <2>3 DEF Counts
<1> QED BY <1>3, <1>4, <1>5, <1>6

-----------------------------------------------------------------------------
(* The reports                                                               *)

\* A report is what has been written by now.
LEMMA SendsWritten ==
  ASSUME IInv, SendReport, UNCHANGED written
  PROVE  /\ reports' \in Seq([Dirs -> Nat])
         /\ Len(reports') <= Len(reports) + 1
         /\ \A i \in 1..Len(reports'), d \in Dirs : reports'[i][d] <= written'[d]
         /\ stage = "waiting" =>
              reports' # <<>> /\ reports'[Len(reports')] = written'
<1> USE DEF IInv, Dirs
<1>1. CASE stage = "waiting"
  <2>1. reports' = Append(reports, written)
    BY <1>1 DEF SendReport
  <2>2. reports \in Seq([Dirs -> Nat]) /\ written \in [Dirs -> Nat]
    BY DEF TypeOK
  <2>3. /\ reports' \in Seq([Dirs -> Nat]) /\ Len(reports') = Len(reports) + 1
        /\ \A i \in 1..Len(reports) : reports'[i] = reports[i]
        /\ reports'[Len(reports')] = written
    BY <2>1, <2>2, AppendProperties
  <2>4. \A i \in 1..Len(reports'), d \in Dirs : reports'[i][d] <= written'[d]
    <3> TAKE i \in 1..Len(reports'), d \in Dirs
    <3>1. CASE i \in 1..Len(reports)
      BY <2>3, <3>1 DEF Counts
    <3>2. CASE i = Len(reports')
      BY <2>2, <2>3, <3>2
    <3> QED BY <2>2, <2>3, <3>1, <3>2
  <2>5. reports' # <<>>
    BY <2>2, <2>3
  <2> QED BY <2>2, <2>3, <2>4, <2>5
<1>2. CASE stage # "waiting"
  BY <1>2 DEF SendReport, TypeOK, Counts
<1> QED BY <1>1, <1>2

LEMMA ReportStep == ASSUME IInv, Report PROVE IInv'
<1> USE SizeAssumption DEF IInv, Dirs
<1>1. /\ UNCHANGED <<stage, next, result, tracked, peer, sent, worker,
                     copy, chunk, written, shut, counted>>
      /\ worker = "running" /\ reporter /\ Len(reports) < MaxReports
      /\ SendReport
  BY DEF Report, handlerVars, peerVars, copyVars
<1>2. /\ reports' \in Seq([Dirs -> Nat])
      /\ Len(reports') <= Len(reports) + 1
      /\ \A i \in 1..Len(reports'), d \in Dirs : reports'[i][d] <= written'[d]
  BY <1>1, SendsWritten
<1>3. reporter' \in BOOLEAN /\ (stage = "waiting" => reporter')
  BY <1>1 DEF SendReport
<1>4. TypeOK'
  BY <1>1, <1>2, <1>3 DEF TypeOK
<1>5. Phases'
  <2>1. Len(reports') <= MaxReports
    BY <1>1, <1>2 DEF TypeOK
  <2>2. stage \notin {"probing", "admitting", "connecting", "failing", "spawning"}
    BY <1>1 DEF Phases
  <2> QED BY <1>1, <1>3, <2>1, <2>2 DEF Phases
<1>6. Bytes'
  BY <1>1 DEF Bytes
<1>7. Counts'
  BY <1>1, <1>2 DEF Counts, CountsAreFinal
<1> QED BY <1>4, <1>5, <1>6, <1>7

\* A worker the parent waits for sends its last report before it exits.
LEMMA ExitStep == ASSUME IInv, WorkerExits PROVE IInv'
<1> USE SizeAssumption DEF IInv, Dirs
<1>1. /\ UNCHANGED <<stage, next, result, tracked, peer, sent,
                     copy, chunk, written, shut, counted>>
      /\ worker = "running" /\ worker' = "exited"
      /\ IF reporter THEN SendReport ELSE UNCHANGED <<reporter, reports>>
  BY DEF WorkerExits, handlerVars, peerVars, copyVars
<1>2. /\ reports' \in Seq([Dirs -> Nat])
      /\ Len(reports') <= Len(reports) + 1
      /\ \A i \in 1..Len(reports'), d \in Dirs : reports'[i][d] <= written'[d]
      /\ stage = "waiting" => reports' # <<>> /\ reports'[Len(reports')] = written'
  <2>1. CASE reporter
    BY <1>1, <2>1, SendsWritten
  <2>2. CASE ~reporter
    BY <1>1, <2>2 DEF Phases, TypeOK, Counts
  <2> QED BY <2>1, <2>2
<1>3. reporter' \in BOOLEAN
  BY <1>1 DEF SendReport, TypeOK
<1>4. TypeOK'
  <2>1. Len(reports') <= MaxReports + 1
    BY <1>1, <1>2 DEF Phases, TypeOK
  <2> QED BY <1>1, <1>2, <1>3, <2>1 DEF TypeOK
<1>5. Phases'
  BY <1>1 DEF Phases
<1>6. Bytes'
  BY <1>1 DEF Bytes
<1>7. Counts'
  BY <1>1, <1>2 DEF Counts, CountsAreFinal, Phases
<1> QED BY <1>4, <1>5, <1>6, <1>7

LEMMA KilledStep == ASSUME IInv, WorkerKilled PROVE IInv'
<1> USE SizeAssumption DEF IInv, Dirs, WorkerKilled,
        handlerVars, peerVars, copyVars, reportVars
<1>1. TypeOK'
  BY DEF TypeOK
<1>2. Phases'
  BY DEF Phases
<1>3. Bytes'
  BY DEF Bytes
<1>4. Counts'
  BY DEF Counts, CountsAreFinal
<1> QED BY <1>1, <1>2, <1>3, <1>4

\* Reading the oldest report: the newest of what is left stays the last one,
\* or it is the one that has been read.
LEMMA ReadReportStep == ASSUME IInv, ReadReport PROVE IInv'
<1> USE SizeAssumption DEF IInv
<1>0. /\ written \in [Dirs -> Nat] /\ counted \in [Dirs -> Nat]
      /\ reports \in Seq([Dirs -> Nat])
  BY DEF TypeOK
<1>1. /\ UNCHANGED <<stage, next, result, tracked, peer, sent, worker,
                     copy, chunk, written, shut, reporter>>
      /\ stage \in {"waiting", "draining"} /\ reports # <<>>
      /\ reports' = Tail(reports)
  BY DEF ReadReport, handlerVars, peerVars, copyVars
<1>2. counted' = [d \in Dirs |->
       IF Head(reports)[d] > counted[d] THEN Head(reports)[d] ELSE counted[d]]
  BY DEF ReadReport
<1>3. /\ reports' \in Seq([Dirs -> Nat])
      /\ Len(reports') = Len(reports) - 1
      /\ \A i \in 1..Len(reports') : reports'[i] = reports[i+1]
      /\ Head(reports) = reports[1] /\ Len(reports) \in Nat \ {0}
  BY <1>0, <1>1, HeadTailProperties, EmptySeq
<1>4. \A d \in Dirs : /\ Head(reports)[d] \in Nat
                       /\ Head(reports)[d] <= written[d]
  BY SMTT(30), <1>0, <1>3 DEF Counts
<1>5. /\ counted' \in [Dirs -> Nat]
      /\ \A d \in Dirs : counted'[d] <= written[d]
  BY <1>0, <1>2, <1>4 DEF Counts
<1>6. TypeOK'
  <2>1. reports' \in Seq([Dirs -> Nat]) /\ Len(reports') <= MaxReports + 1
    <3>1. Len(reports) <= MaxReports + 1
      BY DEF TypeOK
    <3> QED BY <3>1, <1>3
  <2>2. counted' \in [Dirs -> Nat]
    BY <1>5
  <2> QED BY <2>1, <2>2, <1>1 DEF TypeOK
<1>7. Phases'
  BY <1>1, <1>3 DEF Phases, TypeOK
<1>8. Bytes'
  BY <1>1 DEF Bytes
<1>9. Counts'
  <2>1. \A i \in 1..Len(reports'), d \in Dirs : reports'[i][d] <= written'[d]
    <3> TAKE i \in 1..Len(reports'), d \in Dirs
    <3>1. i + 1 \in 1..Len(reports) /\ reports'[i] = reports[i+1]
      BY <1>3
    <3> QED BY <1>1, <3>1 DEF Counts
  <2>2. ASSUME worker = "exited"
        PROVE  IF reports' = <<>> THEN counted' = written'
                                  ELSE reports'[Len(reports')] = written'
    <3>1. reports[Len(reports)] = written
      BY <1>1, <2>2 DEF Counts
    <3>2. CASE Len(reports) = 1
      <4>1. Head(reports) = written
        BY <1>3, <3>1, <3>2
      <4>2. reports' = <<>>
        BY <1>3, <3>2, EmptySeq
      <4>3. \A d \in Dirs : counted'[d] = written[d]
        BY <1>0, <1>2, <1>5, <4>1
      <4>4. counted' = written
        <5>1. /\ counted' = [d \in Dirs |-> counted'[d]]
              /\ written = [d \in Dirs |-> written[d]]
          BY <1>0, <1>5
        <5> QED BY <4>3, <5>1
      <4> QED BY <1>1, <4>2, <4>4
    <3>3. CASE Len(reports) # 1
      <4>1. Len(reports') \in 1..Len(reports') /\ Len(reports') + 1 = Len(reports)
        BY <1>3, <3>3
      <4>2. reports'[Len(reports')] = reports[Len(reports)]
        BY <1>3, <4>1
      <4>3. reports' # <<>>
        BY <4>1, EmptySeq
      <4> QED BY <1>1, <3>1, <4>2, <4>3
    <3> QED BY <3>2, <3>3
  <2>3. CountsAreFinal'
    BY <1>1 DEF CountsAreFinal, Phases
  <2> QED BY <1>1, <1>5, <2>1, <2>2, <2>3 DEF Counts
<1> QED BY <1>6, <1>7, <1>8, <1>9

-----------------------------------------------------------------------------
(* What the connection delivers and counts                                   *)

LEMMA NextHolds == IInv /\ [Next]_vars => IInv'
<1> SUFFICES ASSUME IInv, [Next]_vars PROVE IInv'
  OBVIOUS
<1>1. CASE Peers
  BY <1>1, PeersStep
<1>2. CASE Handler
  BY <1>2, HandlerStep, SpawnStep, ReapStep, DrainedStep, ReadReportStep
     DEF Handler
<1>3. CASE \E d \in Dirs : Copy(d)
  BY <1>3, CopyStep
<1>4. CASE Report \/ WorkerExits \/ WorkerKilled
  BY <1>4, ReportStep, ExitStep, KilledStep
<1>5. CASE UNCHANGED vars
  BY SMTT(30), <1>5 DEF IInv, TypeOK, Phases, Bytes, Counts, CountsAreFinal, vars,
     handlerVars, peerVars, copyVars, reportVars
<1> QED BY <1>1, <1>2, <1>3, <1>4, <1>5 DEF Next

LEMMA Inductive == Spec => []IInv
BY InitHolds, NextHolds, PTL DEF Spec

\* The handler, the threads and their counters keep their types.
THEOREM TypeCorrect == Spec => []TypeOK
<1>1. IInv => TypeOK
  BY DEF IInv
<1> QED BY Inductive, <1>1, PTL

\* shaped_copy_blocking and CountingWriter: no more is written than was sent,
\* and no more is counted in the registry than was written.
THEOREM InventsNothing == Spec => []NothingInvented
<1>1. IInv => NothingInvented
  BY DEF IInv, Bytes, Counts, NothingInvented
<1> QED BY Inductive, <1>1, PTL

\* The shutdown of a copy thread is reached only at the end of its stream.
THEOREM EofIsHonest == Spec => []EofMeansWhole
<1>1. IInv => EofMeansWhole
  BY DEF IInv, Bytes, EofMeansWhole, Leaving
<1> QED BY Inductive, <1>1, PTL

\* The reader is awaited after the child, so the last report is applied before
\* the guard is dropped.
THEOREM CountsEndComplete == Spec => []CountsAreFinal
<1>1. IInv => CountsAreFinal
  BY DEF IInv, Counts
<1> QED BY Inductive, <1>1, PTL

-----------------------------------------------------------------------------
(* A connection that both peers have left                                    *)

\* A connection in the registry is one whose worker is being started, works or
\* is drained; a thread of a running worker has begun, and one that writes has
\* something to write.
Working ==
  /\ tracked => stage \in {"spawning", "waiting", "draining"}
  /\ stage \in {"spawning", "waiting", "draining"} => peer["target"] # "none"
  /\ stage = "waiting" => worker # "none"
  /\ worker = "running" => \A d \in Dirs : copy[d] # "none"
  /\ \A d \in Dirs : copy[d] = "write" => chunk[d] > 0
  /\ peer["client"] # "none"

LEMMA WorkingStarts == Init => Working
  BY DEF Init, Working, Dirs, Sides, None

LEMMA WorkingStep == TypeOK /\ Working /\ [Next]_vars => Working'
<1> SUFFICES ASSUME TypeOK, Working, [Next]_vars PROVE Working'
  OBVIOUS
<1> USE DEF handlerVars, peerVars, copyVars, reportVars
<1>a. /\ peer \in [Sides -> {"none", "open"} \cup Leaving]
      /\ chunk \in [Dirs -> Nat]
      /\ copy \in [Dirs -> {"none", "read", "write", "done", "failed"}]
  BY DEF TypeOK
<1>1. CASE Peers
  <2>1. UNCHANGED <<handlerVars, worker, copyVars>>
    BY <1>1 DEF Peers, PeerSends, PeerLeaves, PeerOnly
  <2>2. \A side \in Sides : peer[side] # "none" => peer'[side] # "none"
    BY <1>1, <1>a DEF Peers, PeerSends, PeerLeaves, Leaving
  <2>3. QED
    BY <2>1, <2>2 DEF Working, Sides
<1>2. CASE Probe \/ OnConnect \/ ConnectFailed \/ OnTargetFailure
  BY <1>2 DEF Working, Probe, OnConnect, ConnectFailed, OnTargetFailure, Enter,
     NextOne, End, HandlerOnly
<1>3. CASE Connected
  BY <1>3, <1>a DEF Working, Connected, Sides
<1>4. CASE SpawnFailed \/ ReadReport \/ Reap \/ Drained
  BY <1>4 DEF Working, SpawnFailed, ReadReport, Reap, Drained, Enter, End,
     HandlerOnly
<1>5. CASE Spawn
  <2>1. \A d \in Dirs : copy'[d] = "read"
    BY <1>5 DEF Spawn
  <2>2. QED
    BY <1>5, <2>1 DEF Working, Spawn, End
<1>6. ASSUME NEW d \in Dirs, Copy(d) PROVE Working'
  <2>1. UNCHANGED <<handlerVars, peerVars, worker, reportVars>>
    BY <1>6 DEF Copy, Read, ReadEof, ReadError, Write, WriteError, CopyOnly
  <2>2. \A e \in Dirs \ {d} : copy'[e] = copy[e] /\ chunk'[e] = chunk[e]
    BY <1>6, <1>a DEF Copy, Read, ReadEof, ReadError, Write, WriteError
  <2>3. copy'[d] # "none" /\ (copy'[d] = "write" => chunk'[d] > 0)
    <3>1. CASE Read(d)
      <4>1. PICK n \in 1..InFlight(d) : chunk' = [chunk EXCEPT ![d] = n]
        BY <3>1 DEF Read
      <4>2. chunk'[d] = n /\ n > 0
        BY <1>a, <4>1
      <4>3. QED
        BY <1>a, <3>1, <4>2 DEF Read
    <3>2. CASE Write(d)
      <4>1. PICK n \in 1..chunk[d] :
               /\ chunk' = [chunk EXCEPT ![d] = @ - n]
               /\ copy' = [copy EXCEPT ![d] = IF n = chunk[d] THEN "read" ELSE @]
        BY <3>2 DEF Write
      <4>2. chunk'[d] = chunk[d] - n /\ chunk[d] \in Nat
        BY <1>a, <4>1
      <4>3. copy[d] = "write" /\ copy'[d] = IF n = chunk[d] THEN "read" ELSE "write"
        BY <1>a, <3>2, <4>1 DEF Write, Copying
      <4>4. QED
        BY <4>1, <4>2, <4>3
    <3>3. CASE ReadEof(d) \/ ReadError(d) \/ WriteError(d)
      BY <1>a, <3>3 DEF ReadEof, ReadError, WriteError
    <3>4. QED
      BY <1>6, <3>1, <3>2, <3>3 DEF Copy
  <2>4. \A e \in Dirs : /\ worker = "running" => copy'[e] # "none"
                        /\ copy'[e] = "write" => chunk'[e] > 0
    BY <2>2, <2>3 DEF Working
  <2>5. QED
    BY <2>1, <2>4 DEF Working
<1>7. CASE Report \/ WorkerExits \/ WorkerKilled
  BY <1>7 DEF Working, Report, WorkerExits, WorkerKilled, SendReport
<1>8. CASE UNCHANGED vars
  BY <1>8 DEF Working, vars
<1> QED
  BY <1>1, <1>2, <1>3, <1>4, <1>5, <1>6, <1>7, <1>8 DEF Next, Handler

\* The copy thread has a read or a write that returns.
CopyGoesOn(d) ==
  \/ copy[d] = "read" /\ (InFlight(d) > 0 \/ peer[Source[d]] \in Leaving)
  \/ copy[d] = "write" /\ chunk[d] > 0

\* A connection both peers have left waits for nothing that never comes: for
\* the start of its worker, a thread that can go on, the exit of a worker
\* whose threads are done, reports that are there, or the worker's reaping.
LeftGoesOn ==
  tracked /\ (\A side \in Sides : peer[side] # "open") =>
    \/ stage = "spawning"
    \/ stage \in {"waiting", "draining"} /\ reports # <<>>
    \/ stage = "draining" /\ worker # "running"
    \/ stage = "waiting" /\ worker \in {"exited", "killed"}
    \/ stage = "waiting" /\ worker = "running" /\
         \/ \A d \in Dirs : copy[d] \in {"done", "failed"}
         \/ \E d \in Dirs : CopyGoesOn(d)

\* shaped_copy_blocking, run_worker and the parent that reads its reports: once
\* both peers have left there is no state in which each of them waits for the
\* others.
THEOREM LeftIsNeverStuck == Spec => []LeftGoesOn
<1>1. ASSUME IInv, Working PROVE LeftGoesOn
  <2> SUFFICES ASSUME tracked, \A side \in Sides : peer[side] # "open",
                      stage = "waiting", worker = "running",
                      NEW d \in Dirs, copy[d] \notin {"done", "failed"}
               PROVE  CopyGoesOn(d)
    BY <1>1 DEF LeftGoesOn, Working, IInv, TypeOK, Phases
  <2>1. Source[d] \in Sides /\ peer[Source[d]] \notin {"none", "open"}
    BY <1>1 DEF Working, Sides, Dirs, Source
  <2>2. peer[Source[d]] \in Leaving
    BY <1>1, <2>1 DEF IInv, TypeOK
  <2>3. copy[d] \in {"read", "write"}
    BY <1>1 DEF IInv, TypeOK, Working
  <2> QED
    BY <1>1, <2>2, <2>3 DEF CopyGoesOn, Working
<1>2. TypeOK /\ Working /\ [Next]_vars => Working'
  BY WorkingStep
<1> QED
  BY Inductive, TypeCorrect, WorkingStarts, <1>1, <1>2, PTL DEF Spec
-----------------------------------------------------------------------------
(* The Java plugin: refinement                                               *)

\* Whatever the dialogue does is one of the ends that handle_target_failure
\* allows, or no step of the connection.
THEOREM JavaRefines == JavaSpec => Spec
<1>1. JavaInit => Init
  BY DEF JavaInit
<1>2. [JavaNext]_javaState => [Next]_vars
  <2> SUFFICES ASSUME [JavaNext]_javaState PROVE [Next]_vars
    OBVIOUS
  <2>1. CASE Dialogue
    <3>1. OnTargetFailure \/ UNCHANGED vars
      BY <2>1 DEF Dialogue, ReadHandshake, ReadRequest, ReadPing,
         ReadLoginStart, ReadFails, TimesOut, NobodyHandles, GoOn, Handled,
         PassThrough
    <3> QED
      BY <3>1 DEF Next, Handler
  <2>2. CASE Established
    BY <2>2 DEF Established, Next, Handler
  <2>3. CASE Others
    BY <2>3 DEF Others, Next, Handler
  <2>4. CASE \E packet \in Packets : ClientSends(packet)
    BY <2>4 DEF ClientSends, Next, Peers, Dirs
  <2>5. CASE TargetSends
    BY <2>5 DEF TargetSends, Next, Peers, Dirs
  <2>6. CASE \E side \in Sides, how \in Leaving : PeerLeaves(side, how)
    BY <2>6 DEF Next, Peers
  <2>7. CASE \E d \in Dirs : Copy(d)
    BY <2>7 DEF Next
  <2>8. CASE Report \/ WorkerExits \/ WorkerKilled
    BY <2>8 DEF Next
  <2>9. CASE UNCHANGED javaState
    BY <2>9 DEF javaState
  <2> QED
    BY <2>1, <2>2, <2>3, <2>4, <2>5, <2>6, <2>7, <2>8, <2>9
       DEF JavaNext, JavaHandler
<1> QED
  BY <1>1, <1>2, PTL DEF JavaSpec, Spec

\* The streams and counts of a redirect with the plugin are those of any
\* connection: nothing invented, ends only after the whole, counts complete.
THEOREM JavaServesWhole ==
  JavaSpec => [](NothingInvented /\ EofMeansWhole /\ CountsAreFinal)
BY JavaRefines, InventsNothing, EofIsHonest, CountsEndComplete, PTL

-----------------------------------------------------------------------------
(* The dialogue                                                              *)

\* What the plugin has read and said, by what it waits for.
Progress ==
  /\ awaiting = "handshake" => taken = 0 /\ answers = <<>>
  /\ awaiting \in {"request", "loginStart"} =>
       /\ taken = 1 /\ answers = <<>>
       /\ packets[1] = IF awaiting = "request" THEN "status" ELSE "login"
  /\ awaiting = "ping" => /\ taken = 2 /\ answers = <<"status">>
                         /\ packets[1] = "status" /\ packets[2] \in WithId0

JInv ==
  /\ packets \in Seq(Packets) /\ taken \in 0..Len(packets)
  /\ awaiting \in {"handshake", "request", "loginStart", "ping"}
  /\ next \in Nat /\ next >= 1
  /\ stage \notin {"failing", "ended"} => awaiting = "handshake"
  /\ stage \in {"probing", "admitting", "connecting"}
       \/ (stage = "failing" /\ next = 1) => Progress
  /\ stage \in {"spawning", "waiting", "draining"} => answers = <<>>
  /\ AnswersFit
  /\ stage # "ended" => result = "none"

LEMMA JInitHolds == JavaInit => JInv
BY DEF JavaInit, Init, JInv, Progress, AnswersFit

\* A step of the client or of the connection to a target.
LEMMA OthersStep ==
  ASSUME JInv, JavaNext, ~Dialogue
  PROVE  JInv'
<1> USE DEF JInv
<1>1. CASE Established
  BY <1>1 DEF Established, Connected, Progress, AnswersFit, dialogueVars
<1>2. CASE Others /\ UNCHANGED javaVars
  BY <1>2 DEF Others, Probe, OnConnect, ConnectFailed, SpawnFailed, Spawn,
     ReadReport, Reap, Drained, Enter, NextOne, End, HandlerOnly, handlerVars,
     javaVars, Progress, AnswersFit
<1>3. CASE \E packet \in Packets : ClientSends(packet)
  <2>1. PICK packet \in Packets : ClientSends(packet)
    BY <1>3
  <2>2. UNCHANGED <<handlerVars, dialogueVars>>
    BY <2>1 DEF ClientSends, PeerSends, PeerOnly
  <2>3. /\ packets' \in Seq(Packets) /\ Len(packets') >= Len(packets)
        /\ \A i \in 1..Len(packets) : packets'[i] = packets[i]
    BY <2>1 DEF ClientSends
  <2> QED
    BY <2>2, <2>3 DEF handlerVars, dialogueVars, Progress, AnswersFit
<1>4. CASE UNCHANGED <<handlerVars, javaVars>>
  BY <1>4 DEF handlerVars, javaVars, Progress, AnswersFit
<1>5. CASE \/ TargetSends
           \/ \E side \in Sides, how \in Leaving :
                PeerLeaves(side, how) /\ UNCHANGED javaVars
           \/ \E d \in Dirs : Copy(d) /\ UNCHANGED javaVars
           \/ (Report \/ WorkerExits \/ WorkerKilled) /\ UNCHANGED javaVars
  <2>1. UNCHANGED <<handlerVars, javaVars>>
    BY <1>5 DEF TargetSends, PeerSends, PeerLeaves, PeerOnly, Copy, Read,
       ReadEof, ReadError, Write, WriteError, CopyOnly, Report, WorkerExits,
       WorkerKilled
  <2> QED
    BY <2>1, <1>4
<1> QED
  BY <1>1, <1>2, <1>3, <1>5 DEF JavaNext, JavaHandler

LEMMA AppendToOne ==
  ASSUME NEW S, NEW x \in S, NEW y \in S
  PROVE  Append(<<x>>, y) = <<x, y>>
<1> DEFINE one == [i \in 1..1 |-> x]
           two == [i \in 1..2 |-> IF i = 1 THEN x ELSE y]
<1>1. one \in Seq(S) /\ <<x>> = one
  OBVIOUS
<1>2. two \in Seq(S) /\ <<x, y>> = two
  OBVIOUS
<1>3. /\ Append(<<x>>, y) \in Seq(S) /\ Len(Append(<<x>>, y)) = 2
      /\ Append(<<x>>, y)[1] = x /\ Append(<<x>>, y)[2] = y
  BY <1>1
<1>4. \A i \in 1..2 : two[i] = Append(<<x>>, y)[i]
  BY <1>3
<1> QED
  BY <1>2, <1>3, <1>4, SeqEqual

LEMMA DialogueStep == ASSUME JInv, Dialogue PROVE JInv'
<1> USE PluginAssumption DEF JInv
<1>1. CASE NobodyHandles
  BY <1>1 DEF NobodyHandles, OnTargetFailure, NextOne, End, javaVars,
     Progress, AnswersFit
\* The steps of the one plugin: it goes on, handles the client or gives up.
<1>2. CASE ~NobodyHandles
  <2>1. /\ stage = "failing" /\ next = 1 /\ Progress
        /\ packets' = packets /\ result = "none"
    BY <1>2 DEF Dialogue, ReadHandshake, ReadRequest, ReadPing,
       ReadLoginStart, ReadFails, TimesOut, Talking, Take, TakeNone
  <2>2. ASSUME answers = <<>>, NEW what, Says(what)
        PROVE  answers' = <<what>>
    BY <2>2 DEF Says
  <2>3. ASSUME answers = <<"status">>, Says("pong")
        PROVE  answers' = <<"status", "pong">>
    <3>1. "status" \in {"status", "pong"} /\ "pong" \in {"status", "pong"}
      OBVIOUS
    <3> QED
      BY <2>3, <3>1, AppendToOne DEF Says
\* An error or the timeout: what has been said stays said.
  <2>4. CASE PassThrough /\ Silent /\ ((Take /\ Arrived) \/ TakeNone)
    <3>1. UNCHANGED <<stage, result, answers>> /\ next' = 2
      BY <2>1, <2>4 DEF PassThrough, OnTargetFailure, NextOne, End, Silent
    <3>2. taken' \in 0..Len(packets') /\ awaiting' = "handshake"
      BY <2>1, <2>4 DEF PassThrough, Arrived, Take, TakeNone
    <3> QED
      BY <2>1, <3>1, <3>2 DEF AnswersFit
  <2>5. CASE ReadHandshake /\ UNCHANGED vars
    <3>1. /\ taken = 0 /\ taken' = 1 /\ Arrived /\ answers' = <<>>
          /\ \/ packets[1] = "status" /\ awaiting' = "request"
             \/ packets[1] = "login" /\ awaiting' = "loginStart"
      BY <2>1, <2>5 DEF ReadHandshake, GoOn, Talking, Take, Silent, Packet,
         Progress, PassThrough, OnTargetFailure, NextOne, End, vars, handlerVars
    <3> QED
      BY <2>1, <2>5, <3>1 DEF Arrived, vars, handlerVars, Progress, AnswersFit
  <2>6. CASE ReadRequest /\ UNCHANGED vars
    <3>1. /\ answers = <<>> /\ Says("status") /\ taken = 1 /\ Arrived
          /\ Packet \in WithId0 /\ awaiting' = "ping" /\ taken' = 2
      BY <2>1, <2>6 DEF ReadRequest, GoOn, Talking, Take, Progress,
         PassThrough, OnTargetFailure, NextOne, End, vars, handlerVars
    <3>2. answers' = <<"status">>
      BY <2>2, <3>1
    <3> QED
      BY <2>1, <2>6, <3>1, <3>2 DEF ReadRequest, Talking, Arrived, Packet,
         vars, handlerVars, Progress, AnswersFit
  <2>7. CASE Handled
    <3>1. /\ stage' = "ended" /\ UNCHANGED <<next, awaiting>>
          /\ awaiting # "handshake"
      BY <2>1, <2>7 DEF Handled, OnTargetFailure, NextOne, End, Dialogue,
         ReadHandshake, ReadRequest, ReadPing, ReadLoginStart, ReadFails,
         TimesOut, NobodyHandles, Talking, GoOn, PassThrough, vars, handlerVars
    <3>2. CASE ReadPing
      <4>1. /\ answers = <<"status">> /\ taken = 2 /\ Take /\ Arrived
            /\ \/ Packet = "ping" /\ Says("pong")
               \/ answers' = answers
        BY <2>1, <3>2 DEF ReadPing, Talking, Silent, Progress
      <4>2. \/ answers' = <<"status">>
            \/ packets[3] = "ping" /\ answers' = <<"status", "pong">>
        <5>1. CASE Packet = "ping" /\ Says("pong")
          <6>1. packets[3] = "ping"
            BY <4>1, <5>1 DEF Packet
          <6>2. answers' = <<"status", "pong">>
            BY <2>3, <4>1, <5>1
          <6> QED
            BY <6>1, <6>2
        <5> QED
          BY <4>1, <5>1
      <4>3. /\ taken' = 3 /\ Len(packets) >= 3 /\ packets[1] = "status"
            /\ packets[2] \in WithId0
        BY <2>1, <3>2, <4>1 DEF ReadPing, Talking, Arrived, Take, Progress
      <4>4. /\ answers' # <<>> /\ answers' # <<"disconnect">>
            /\ answers' = <<"status", "pong">> => packets[3] = "ping"
        <5>1. <<"status">>[1] # <<"disconnect">>[1]
          OBVIOUS
        <5>2. <<"status", "pong">>[1] # <<"disconnect">>[1]
          OBVIOUS
        <5>3. Len(<<"status">>) = 1 /\ Len(<<"status", "pong">>) = 2 /\ Len(<<>>) = 0
          OBVIOUS
        <5>4. /\ <<"status">> # <<"status", "pong">> /\ <<"status">> # <<>>
              /\ <<"status", "pong">> # <<>>
          BY <5>3
        <5>5. /\ <<"status">> # <<"disconnect">>
              /\ <<"status", "pong">> # <<"disconnect">>
          BY <5>1, <5>2
        <5> QED
          BY Zenon, <4>2, <5>4, <5>5
      <4>5. AnswersFit'
        BY <2>1, <4>2, <4>3, <4>4 DEF AnswersFit
      <4> QED
        BY <2>1, <3>1, <4>3, <4>5
    <3>3. CASE ReadLoginStart
      <4>1. /\ answers = <<>> /\ Says("disconnect") /\ taken = 1 /\ Arrived
            /\ Take /\ Packet \in WithId0 /\ packets[1] = "login"
        BY <2>1, <2>7, <3>3 DEF ReadLoginStart, Talking, Progress, PassThrough, Handled,
           OnTargetFailure, NextOne, End
      <4>2. answers' = <<"disconnect">>
        BY <2>2, <4>1
      <4> QED
        BY <2>1, <3>1, <4>1, <4>2 DEF Arrived, Packet, Take, AnswersFit
    <3>4. CASE ReadFails
      <4>1. /\ answers = <<"status">> /\ UNCHANGED <<taken, answers>>
        BY <2>1, <3>1, <3>4 DEF ReadFails, Talking, TakeNone, Silent,
           PassThrough, Progress
      <4>2. answers # <<>>
        <5>1. Len(<<"status">>) = 1 /\ Len(<<>>) = 0
          OBVIOUS
        <5> QED
          BY <4>1, <5>1
      <4> QED
        BY <2>1, <3>1, <4>1, <4>2 DEF AnswersFit
    <3>5. ~ReadHandshake /\ ~ReadRequest /\ ~TimesOut
      BY <2>1, <3>1 DEF ReadHandshake, ReadRequest, TimesOut, GoOn,
         PassThrough, Talking, vars, handlerVars
    <3> QED
      BY <1>2, <3>2, <3>3, <3>4, <3>5 DEF Dialogue
  <2> QED
    BY <1>2, <2>4, <2>5, <2>6, <2>7
       DEF Dialogue, ReadHandshake, ReadRequest, ReadPing, ReadLoginStart,
           ReadFails, TimesOut, GoOn
<1> QED
  BY <1>1, <1>2

\* The plugin never tells a client what it has not asked for, and never takes a
\* connection for handled without a word.
THEOREM AnswersAreFit == JavaSpec => []AnswersFit
<1>1. JInv /\ [JavaNext]_javaState => JInv'
  <2>1. JInv /\ JavaNext => JInv'
    BY OthersStep, DialogueStep
  <2>2. JInv /\ UNCHANGED javaState => JInv'
    BY DEF JInv, javaState, vars, handlerVars, javaVars, Progress, AnswersFit
  <2> QED
    BY <2>1, <2>2
<1>2. JInv => AnswersFit
  BY DEF JInv
<1> QED
  BY JInitHolds, <1>1, <1>2, PTL DEF JavaSpec

-----------------------------------------------------------------------------
(* The timer of a UDP session                                                *)

\* What makes the bound inductive: the silence is not longer than last_seen's
\* age, and a timer that began with traffic younger than the idle timeout has
\* added only its own age to it.
TimerInv ==
  /\ IdleTypeOK
  /\ quiet = seen
  /\ seen <= IdleTimeout + waited

LEMMA TimerStarts == IdleInit => TimerInv
<1> SUFFICES ASSUME IdleInit PROVE TimerInv
  OBVIOUS
<1>1. present \in BOOLEAN
  BY DEF IdleInit
<1>2. /\ seen \in 0..(2 * IdleTimeout + Late)
      /\ quiet \in Nat
      /\ waited \in 0..(IdleTimeout + Late)
      /\ quiet = seen /\ seen <= IdleTimeout + waited
  BY TimeoutAssumption, LateAssumption DEF IdleInit
<1> QED BY <1>1, <1>2 DEF TimerInv, IdleTypeOK

LEMMA TimerGoesOn == TimerInv /\ [IdleNext]_idleVars => TimerInv'
<1> SUFFICES ASSUME TimerInv, [IdleNext]_idleVars PROVE TimerInv'
  OBVIOUS
<1>0. Gone => TimerInv'
  <2> SUFFICES ASSUME Gone PROVE TimerInv'
    OBVIOUS
  <2>1. present' = FALSE /\ seen' = 0 /\ waited' = 0 /\ quiet' = 0
    BY DEF Gone
  <2>2. (present \in BOOLEAN)'
    BY <2>1
  <2>3. (/\ seen \in 0..(2 * IdleTimeout + Late)
         /\ quiet \in Nat
         /\ waited \in 0..(IdleTimeout + Late)
         /\ quiet = seen /\ seen <= IdleTimeout + waited)'
    BY <2>1, TimeoutAssumption, LateAssumption
  <2> QED BY <2>2, <2>3 DEF TimerInv, IdleTypeOK
<1> USE TimeoutAssumption, LateAssumption DEF TimerInv, IdleTypeOK
<1>1. CASE Create           BY <1>1 DEF Create
<1>2. CASE ClientDatagram   BY <1>2 DEF ClientDatagram
<1>3. CASE TargetDatagram   BY <1>3 DEF TargetDatagram
<1>4. CASE PathFails        BY <1>4, <1>0 DEF PathFails
<1>5. CASE TimerFires
  <2>1. CASE seen >= IdleTimeout /\ Gone
    BY <2>1, <1>0
  <2>2. CASE seen < IdleTimeout /\ waited' = 0 /\ UNCHANGED <<present, seen, quiet>>
    BY <2>2
  <2> QED BY <1>5, <2>1, <2>2 DEF TimerFires
<1>6. CASE Tick             BY <1>6 DEF Tick
<1>7. CASE UNCHANGED idleVars   BY <1>7 DEF idleVars
<1> QED BY <1>1, <1>2, <1>3, <1>4, <1>5, <1>6, <1>7 DEF IdleNext

LEMMA TimerInductive == IdleSpec => []TimerInv
BY TimerStarts, TimerGoesOn, PTL DEF IdleSpec

\* The clocks stay in their ranges; in particular the return path never waits
\* longer than the idle timeout without looking at last_seen.
THEOREM TimerTypeCorrect == IdleSpec => []IdleTypeOK
<1>1. TimerInv => IdleTypeOK
  BY DEF TimerInv
<1> QED BY TimerInductive, <1>1, PTL

\* remove_current_session and the restarted timer: a session is gone at the
\* latest when twice the idle timeout passed without traffic.
THEOREM GoneWithinTwice == IdleSpec => []EndsWithinTwice
<1>1. TimerInv => EndsWithinTwice
  BY TimeoutAssumption, LateAssumption DEF TimerInv, IdleTypeOK, EndsWithinTwice
<1> QED BY TimerInductive, <1>1, PTL

\* The timer ends only sessions that were silent for the whole idle timeout.
THEOREM NotGoneEarly == IdleSpec => NeverEndsEarly
<1>1. TimerInv /\ [IdleNext]_idleVars => [TimerFires /\ ~present' => quiet >= IdleTimeout]_idleVars
  BY TimeoutAssumption, LateAssumption
     DEF TimerInv, IdleTypeOK, TimerFires, IdleNext
<1> QED BY TimerInductive, <1>1, PTL DEF IdleSpec, NeverEndsEarly

-----------------------------------------------------------------------------
(* The pace of a shaped copy                                                 *)

\* Bytes of closed windows: at most the time up to this window, and once more
\* that time or, while the last sleep goes on, its end.
ClosedCovered ==
  IF inWindow = 0 THEN passed <= start + wake \/ passed <= start + now
                  ELSE passed - inWindow <= start + now

\* Bytes of this window have been slept for when the sleep is over.
OpenCovered == inWindow > 0 => wake >= start + inWindow

PaceInv == /\ PaceTypeOK
        /\ ClosedCovered /\ OpenCovered
        /\ UnderTwiceTheCap /\ SleepIsShort

LEMMA PaceStarts == PaceInit => PaceInv
BY WindowAssumption, ChunkAssumption
   DEF PaceInit, PaceInv, PaceTypeOK, ClosedCovered, OpenCovered,
       UnderTwiceTheCap, SleepIsShort

LEMMA PassKeepsPace == PaceInv /\ Pass => PaceInv'
<1> SUFFICES ASSUME PaceInv, Pass PROVE PaceInv'
  OBVIOUS
<1> USE WindowAssumption, ChunkAssumption
<1>1. PICK n \in 1..BufSize : /\ now >= wake /\ passed' = passed + n
                              /\ WaitFor(n) /\ now' = now
  BY DEF Pass
<1> DEFINE elapsed == now - start
           wait == Remaining(inWindow + n, elapsed)
<1>2. PICK jitter \in 0..RandomWait : wake' = now + wait + jitter
  BY <1>1 DEF WaitFor
<1>3. /\ n \in Nat /\ n <= BufSize /\ n > 0
      /\ {now, passed, start, inWindow, wake, elapsed, jitter} \subseteq Nat
      /\ jitter <= RandomWait
  BY <1>1, <1>2 DEF PaceInv, PaceTypeOK
\* The window's bytes were slept for, so that the wait is for the new chunk.
<1>4. inWindow <= elapsed
  BY <1>1, <1>3 DEF PaceInv, OpenCovered
<1>5. passed - inWindow <= start + now
  BY <1>1, <1>3 DEF PaceInv, ClosedCovered
<1>6. wait \in Nat /\ wait <= n /\ wait >= inWindow + n - elapsed
  BY <1>3, <1>4 DEF Remaining
<1>7. CASE elapsed > Window
  <2>1. inWindow' = 0 /\ start' = now
    BY <1>1, <1>7 DEF WaitFor
  <2>2. passed' <= start' + wake'
    BY <2>1, <1>1, <1>2, <1>3, <1>5, <1>6
  <2> QED
    BY <2>1, <2>2, <1>1, <1>2, <1>3, <1>4, <1>5, <1>6
       DEF PaceInv, PaceTypeOK, ClosedCovered, OpenCovered, UnderTwiceTheCap,
           SleepIsShort
<1>8. CASE ~(elapsed > Window)
  <2>1. inWindow' = inWindow + n /\ start' = start
    BY <1>1, <1>8 DEF WaitFor
  <2>2. wake' >= start' + inWindow'
    BY <2>1, <1>2, <1>3, <1>6
  <2> QED
    BY <2>1, <2>2, <1>1, <1>2, <1>3, <1>4, <1>5, <1>6
       DEF PaceInv, PaceTypeOK, ClosedCovered, OpenCovered, UnderTwiceTheCap,
           SleepIsShort
<1> QED
  BY <1>7, <1>8

LEMMA PaceGoesOn == PaceInv /\ [PaceNext]_shapingVars => PaceInv'
<1> SUFFICES ASSUME PaceInv, [PaceNext]_shapingVars PROVE PaceInv'
  OBVIOUS
<1>1. CASE Pass
  BY <1>1, PassKeepsPace
<1>2. CASE Elapse
  BY <1>2, ChunkAssumption
     DEF PaceInv, Elapse, PaceTypeOK, ClosedCovered, OpenCovered,
         UnderTwiceTheCap, SleepIsShort
<1>3. CASE UNCHANGED shapingVars
  BY <1>3 DEF PaceInv, shapingVars, PaceTypeOK, ClosedCovered, OpenCovered,
              UnderTwiceTheCap, SleepIsShort
<1> QED
  BY <1>1, <1>2, <1>3 DEF PaceNext

LEMMA PaceInductive == Pace => []PaceInv
BY PaceStarts, PaceGoesOn, PTL DEF Pace

\* settings: whatever a redirect is set up for, it is a connection with the
\* dialogue, an idle timer and a paced copy as each is specified alone, of which
\* two never move: what is proved of each holds of every redirect.
THEOREM RedirectRefines == RedirectSpec => JavaSpec /\ IdleSpec /\ Pace
<1>1. RedirectInit => JavaInit /\ IdleInit /\ PaceInit
  BY DEF RedirectInit
<1> USE DEF RedirectNext, InSession, InConnection, InPacedCopy, redirectVars
<1>2. [RedirectNext]_redirectVars => [JavaNext]_javaState
  OBVIOUS
<1>3. [RedirectNext]_redirectVars => [IdleNext]_idleVars
  OBVIOUS
<1>4. [RedirectNext]_redirectVars => [PaceNext]_shapingVars
  OBVIOUS
<1> QED
  BY <1>1, <1>2, <1>3, <1>4, PTL DEF RedirectSpec, JavaSpec, IdleSpec, Pace

\* However chunks, pauses and resets fall, a shaped copy stays under twice its
\* cap: wait_for never gives a sleep to more than one further window.
THEOREM PaceIsBounded == RedirectSpec => []UnderTwiceTheCap
<1>1. PaceInv => UnderTwiceTheCap
  BY DEF PaceInv
<1> QED
  BY <1>1, PaceInductive, RedirectRefines, PTL

\* No sleep of a shaped copy is longer than its last chunk is worth.
THEOREM SleepsAreShort == RedirectSpec => []SleepIsShort
<1>1. PaceInv => SleepIsShort
  BY DEF PaceInv
<1> QED
  BY <1>1, PaceInductive, RedirectRefines, PTL
=============================================================================
