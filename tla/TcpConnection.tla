---------------------------- MODULE TcpConnection ----------------------------
(***************************************************************************)
(* One TCP connection, from the accept to its end: handle_connection of    *)
(* proxy.rs, which asks the plugins and tries the targets in order, and    *)
(* conn_worker.rs, where a child process copies the bytes of an            *)
(* established connection with one thread per direction, reports what it   *)
(* has copied, and is awaited by the parent.  Bytes are counted, not named;*)
(* what a socket buffers is bounded by MaxBytes, so that a write never     *)
(* waits for its peer.  How shaping delays a copy is in Shaping.           *)
(***************************************************************************)
EXTENDS Integers, Sequences

CONSTANTS
  Plugins,     \* number of plugins of the listener
  Targets,     \* number of targets
  MaxBytes,    \* bound of the model: bytes a peer sends
  MaxReports   \* bound of the model: reports in the stats socket

\* validate_config: a proxy has at least one target.
ASSUME SizeAssumption ==
  Plugins \in Nat /\ Targets \in Nat \ {0} /\ {MaxBytes, MaxReports} \subseteq Nat \ {0}

Dirs == {"up", "down"}
Sides == {"client", "target"}
Source == [d \in Dirs |-> IF d = "up" THEN "client" ELSE "target"]
Dest   == [d \in Dirs |-> IF d = "up" THEN "target" ELSE "client"]
Leaving == {"fin", "closed", "reset"}

VARIABLES
  stage,    \* where handle_connection is
  next,     \* the plugin or target that comes next in that stage
  result,   \* how handle_connection ended
  tracked,  \* the ConnectionGuard is alive
  peer,     \* [side -> its end of the connection with us]
  sent,     \* [direction -> bytes its source has sent]
  worker,   \* the child process
  copy,     \* [direction -> where its copy thread is]
  chunk,    \* [direction -> bytes read and not yet written]
  written,  \* [direction -> bytes counted by CountingWriter]
  shut,     \* [direction -> its end of stream was passed on]
  reporter, \* the worker's reporter thread runs
  reports,  \* the stats socket
  counted   \* [direction -> the connection's counter in the registry]

handlerVars == <<stage, next, result, tracked>>
peerVars    == <<peer, sent>>
copyVars    == <<copy, chunk, written, shut>>
reportVars  == <<reporter, reports, counted>>
vars == <<handlerVars, peerVars, worker, copyVars, reportVars>>

None == [d \in Dirs |-> 0]

Init ==
  /\ stage = "probing" /\ next = 1 /\ result = "none" /\ tracked = FALSE
  /\ peer = [side \in Sides |-> IF side = "client" THEN "open" ELSE "none"]
  /\ sent = None /\ chunk = None /\ written = None /\ counted = None
  /\ worker = "none"
  /\ copy = [d \in Dirs |-> "none"]
  /\ shut = [d \in Dirs |-> FALSE]
  /\ reporter = FALSE /\ reports = <<>>

-----------------------------------------------------------------------------
(* The peers.  "fin": it sends no more but reads; "closed": it does neither, *)
(* and answers what still comes with a reset; "reset": the connection is     *)
(* gone, with what was in flight.                                            *)

Alive == stage # "ended" \/ worker = "running"
PeerOnly == UNCHANGED <<handlerVars, worker, copyVars, reportVars>>

PeerSends(d) ==
  /\ Alive /\ peer[Source[d]] = "open" /\ sent[d] < MaxBytes
  /\ sent' = [sent EXCEPT ![d] = @ + 1]
  /\ UNCHANGED peer /\ PeerOnly

PeerLeaves(side, how) ==
  /\ Alive
  /\ how = "fin"    => peer[side] = "open"
  /\ how = "closed" => peer[side] \in {"open", "fin"}
  /\ how = "reset"  => peer[side] \in {"open", "fin", "closed"}
  /\ peer' = [peer EXCEPT ![side] = how]
  /\ UNCHANGED sent /\ PeerOnly

-----------------------------------------------------------------------------
(* handle_connection *)

HandlerOnly == UNCHANGED <<peerVars, worker, copyVars, reportVars>>

End(how) ==
  /\ stage' = "ended" /\ result' = how /\ tracked' = FALSE
  /\ UNCHANGED next

Enter(where) == stage' = where /\ next' = 1 /\ UNCHANGED <<result, tracked>>
NextOne == next' = next + 1 /\ UNCHANGED <<stage, result, tracked>>

\* probe_first_packet only peeks, within its timeouts, and for the log.
Probe == stage = "probing" /\ Enter("admitting") /\ HandlerOnly

\* on_connect of each plugin, any of which may reject the client.
OnConnect ==
  /\ stage = "admitting"
  /\ \/ next <= Plugins /\ NextOne
     \/ next <= Plugins /\ End("rejected")
     \/ next > Plugins /\ Enter("connecting")
  /\ HandlerOnly

\* The first target that accepts within connect_timeout is used and tracked.
Connected ==
  /\ stage = "connecting"
  /\ stage' = "spawning" /\ tracked' = TRUE
  /\ peer' = [peer EXCEPT !["target"] = "open"]
  /\ UNCHANGED <<next, result, sent, worker, copyVars, reportVars>>

ConnectFailed ==
  /\ stage = "connecting"
  /\ IF next < Targets THEN NextOne ELSE Enter("failing")
  /\ HandlerOnly

\* handle_target_failure: the plugins in order until one handles it.
OnTargetFailure ==
  /\ stage = "failing"
  /\ \/ next <= Plugins /\ NextOne
     \/ next <= Plugins /\ End("handled")
     \/ next > Plugins /\ End("closed")
  /\ HandlerOnly

\* conn_worker::run: the child cannot be started, or it runs and the parent
\* cannot read its reports, which ends the connection for the parent only.
SpawnFailed ==
  /\ stage = "spawning"
  /\ End("failed") /\ HandlerOnly

Spawn ==
  /\ stage = "spawning"
  /\ worker' = "running" /\ reporter' = TRUE
  /\ copy' = [d \in Dirs |-> "read"]
  /\ \/ stage' = "waiting" /\ UNCHANGED <<next, result, tracked>>
     \/ End("orphaned")
  /\ UNCHANGED <<peerVars, chunk, written, shut, reports, counted>>

-----------------------------------------------------------------------------
(* The worker's copy threads *)

Copying(d, where) == worker = "running" /\ copy[d] = where
InFlight(d) == sent[d] - written[d] - chunk[d]
CopyOnly == UNCHANGED <<handlerVars, peerVars, worker, reportVars>>

\* Mutant: the whole buffer is written, not the part that was read.
Read_WholeBuffer(d) ==
  /\ Copying(d, "read") /\ peer[Source[d]] # "reset" /\ InFlight(d) > 0
  /\ chunk' = [chunk EXCEPT ![d] = MaxBytes]
  /\ copy' = [copy EXCEPT ![d] = "write"]
  /\ UNCHANGED <<written, shut>> /\ CopyOnly
Read(d) ==
  /\ Copying(d, "read") /\ peer[Source[d]] # "reset"
  /\ \E n \in 1..InFlight(d) : chunk' = [chunk EXCEPT ![d] = n]
  /\ copy' = [copy EXCEPT ![d] = "write"]
  /\ UNCHANGED <<written, shut>> /\ CopyOnly

\* End of stream: it is passed on, for this direction.
\* Mutant: Shutdown::Both, which ends the other direction's reading too.
ReadEof_ShutsBoth(d) ==
  /\ Copying(d, "read") /\ peer[Source[d]] \in {"fin", "closed"}
  /\ InFlight(d) = 0
  /\ shut' = [e \in Dirs |-> TRUE] /\ copy' = [e \in Dirs |-> "done"]
  /\ UNCHANGED <<chunk, written>> /\ CopyOnly
ReadEof(d) ==
  /\ Copying(d, "read") /\ peer[Source[d]] \in {"fin", "closed"}
  /\ InFlight(d) = 0
  /\ shut' = [shut EXCEPT ![d] = TRUE]
  /\ copy' = [copy EXCEPT ![d] = "done"]
  /\ UNCHANGED <<chunk, written>> /\ CopyOnly

\* An error leaves the thread by `?`: nothing is passed on.
\* Mutants: the stream is ended as if it were complete; the error is retried.
ReadError_Shuts(d) ==
  /\ Copying(d, "read") /\ peer[Source[d]] = "reset"
  /\ shut' = [shut EXCEPT ![d] = TRUE]
  /\ copy' = [copy EXCEPT ![d] = "failed"]
  /\ UNCHANGED <<chunk, written>> /\ CopyOnly
ReadError_Retries(d) ==
  /\ Copying(d, "read") /\ peer[Source[d]] = "reset"
  /\ UNCHANGED vars
ReadError(d) ==
  /\ Copying(d, "read") /\ peer[Source[d]] = "reset"
  /\ copy' = [copy EXCEPT ![d] = "failed"]
  /\ UNCHANGED <<chunk, written, shut>> /\ CopyOnly

\* One write of write_all, counted when it has succeeded.
Write(d) ==
  /\ Copying(d, "write") /\ peer[Dest[d]] # "reset"
  /\ \E n \in 1..chunk[d] :
       /\ written' = [written EXCEPT ![d] = @ + n]
       /\ chunk' = [chunk EXCEPT ![d] = @ - n]
       /\ copy' = [copy EXCEPT ![d] = IF n = chunk[d] THEN "read" ELSE @]
  /\ UNCHANGED shut /\ CopyOnly

WriteError(d) ==
  /\ Copying(d, "write") /\ peer[Dest[d]] \in {"closed", "reset"}
  /\ copy' = [copy EXCEPT ![d] = "failed"]
  /\ UNCHANGED <<chunk, written, shut>> /\ CopyOnly

-----------------------------------------------------------------------------
(* Reports and the end *)

\* The reporter thread, once a second and when it is stopped; its socket is
\* broken once the parent has given up reading.  Both counters are loaded in
\* one step, as set_absolute treats them apart.
SendReport ==
  IF stage = "waiting"
    THEN reports' = Append(reports, written) /\ UNCHANGED reporter
    ELSE reporter' = FALSE /\ UNCHANGED reports

Report ==
  /\ worker = "running" /\ reporter /\ Len(reports) < MaxReports
  /\ SendReport
  /\ UNCHANGED <<handlerVars, peerVars, worker, copyVars, counted>>

\* run_worker joins both threads, then the reporter with its last report.
WorkerExits ==
  /\ worker = "running" /\ \A d \in Dirs : copy[d] \in {"done", "failed"}
  /\ worker' = "exited"
  /\ IF reporter THEN SendReport ELSE UNCHANGED <<reporter, reports>>
  /\ UNCHANGED <<handlerVars, peerVars, copyVars, counted>>

\* The worker is killed from outside, in the middle of anything.
WorkerKilled ==
  /\ worker = "running" /\ worker' = "killed"
  /\ UNCHANGED <<handlerVars, peerVars, copyVars, reportVars>>

\* read_reports and set_absolute
ReadReport ==
  /\ stage \in {"waiting", "draining"} /\ reports # <<>>
  /\ reports' = Tail(reports)
  /\ counted' = [d \in Dirs |->
       IF Head(reports)[d] > counted[d] THEN Head(reports)[d] ELSE counted[d]]
  /\ UNCHANGED <<handlerVars, peerVars, worker, copyVars, reporter>>

\* child.wait
Reap == /\ stage = "waiting" /\ worker \in {"exited", "killed"}
        /\ Enter("draining") /\ HandlerOnly

\* reader.await: the socket is at its end once the worker's copy is closed.
\* Mutant: the reports are not awaited.
Drained_AtOnce ==
  /\ stage = "draining"
  /\ End(IF worker = "exited" /\ \A d \in Dirs : copy[d] = "done"
           THEN "served" ELSE "failed")
  /\ HandlerOnly
Drained ==
  /\ stage = "draining" /\ reports = <<>>
  /\ End(IF worker = "exited" /\ \A d \in Dirs : copy[d] = "done"
           THEN "served" ELSE "failed")
  /\ HandlerOnly

-----------------------------------------------------------------------------
Peers == \/ \E d \in Dirs : PeerSends(d)
         \/ \E side \in Sides, how \in Leaving : PeerLeaves(side, how)

Handler == \/ Probe \/ OnConnect \/ Connected \/ ConnectFailed
           \/ OnTargetFailure \/ SpawnFailed \/ Spawn
           \/ ReadReport \/ Reap \/ Drained

Copy(d) == \/ Read(d) \/ ReadEof(d) \/ ReadError(d)
           \/ Write(d) \/ WriteError(d)

Next == \/ Peers \/ Handler
        \/ \E d \in Dirs : Copy(d)
        \/ Report \/ WorkerExits \/ WorkerKilled

Spec == Init /\ [][Next]_vars

\* The tasks and threads run; a peer need not do anything.
FairSpec ==
  /\ Spec
  /\ WF_vars(Handler) /\ WF_vars(WorkerExits)
  /\ \A d \in Dirs : WF_vars(Copy(d))
-----------------------------------------------------------------------------
(* What a connection promises *)

TypeOK ==
  /\ stage \in {"probing", "admitting", "connecting", "failing", "spawning",
                "waiting", "draining", "ended"}
  /\ next \in 1..(Plugins + Targets + 1)
  /\ stage = "connecting" => next <= Targets
  /\ result \in {"none", "rejected", "handled", "closed", "served", "failed",
                 "orphaned"}
  /\ tracked \in BOOLEAN /\ reporter \in BOOLEAN
  /\ peer \in [Sides -> {"none", "open"} \cup Leaving]
  /\ sent \in [Dirs -> 0..MaxBytes]
  /\ {chunk, written, counted} \subseteq [Dirs -> Nat]
  /\ worker \in {"none", "running", "exited", "killed"}
  /\ copy \in [Dirs -> {"none", "read", "write", "done", "failed"}]
  /\ shut \in [Dirs -> BOOLEAN]
  /\ reports \in Seq([Dirs -> Nat]) /\ Len(reports) <= MaxReports + 1

\* Nothing is delivered that was not sent, and the counters run behind what
\* was delivered: no report is applied twice or out of nothing.
NothingInvented ==
  \A d \in Dirs : counted[d] <= written[d] /\ written[d] + chunk[d] <= sent[d]

\* A receiver that sees the end of a stream has got all of it: a stream that
\* broke is never passed on as one that is complete.
EofMeansWhole ==
  \A d \in Dirs : shut[d] => written[d] = sent[d] /\ peer[Source[d]] # "open"

\* "The worker's final report is already in the socket buffer": a connection
\* whose worker ran to its end has counted every byte it delivered when it
\* leaves the registry, failed copies included.
CountsAreFinal ==
  result \in {"served", "failed"} /\ worker = "exited" => counted = written

\* A client that has finished sending still gets the whole answer.
AnswerArrives ==
  (worker = "running" /\ peer["target"] = "fin") ~>
    \/ written["down"] = sent["down"] /\ shut["down"]
    \/ peer["target"] = "reset" \/ peer["client"] \in {"closed", "reset"}
    \/ worker = "killed"

\* A connection that both peers have left does not stay.
BothLeftEnds ==
  (tracked /\ \A side \in Sides : peer[side] # "open") ~> ~tracked
=============================================================================
