# redir-rust in TLA+

Models of redir-rust's concurrent parts, checked by TLC on small instances, and
theorems about them, proved by TLAPS for every value of the constants. Paths
below are relative to the crate: `udp_proxy.rs` is `src/udp_proxy.rs` of the
repository. PROJECT.json maps every definition to the lines it translates.

redir-rust forwards TCP connections and UDP sessions from listening addresses
to ordered lists of targets. When no target answers, an offline plugin can
answer instead, in the protocol of Minecraft Java (TCP) or Bedrock (UDP).
Configuration is reloaded while everything runs: nobody who is connected may
notice, and nobody new may be served under what is no longer configured.

## 1. The system

### Parts that run concurrently

**UDP relay** (`udp_proxy.rs`). One task per UDP listener runs a biased
`select!` over the updates of its configuration, results of backend
selections, a maintenance tick and its socket; it starts a return-path task
per session, a selection task per waiting client, and a prober.
*State:* the session map (shared with the return paths under a lock), the
queues of waiting clients with a byte count kept beside them, the offline
sessions, a generation number, the draining flag.
*Operations:* receive, handle a result, handle an update, maintenance; relay a
reply, time out, remove a session; probe the targets in order.
*Hard:* results and updates that cross, a client that is in one of three maps
by the order of lookups only, idle timers against traffic, limits kept in
counters, a retired relay that must end only when it serves nobody.
*Correct if:* one role per client, no stale result taken, sessions pinned to
their target and configuration, order kept across queue, flush and direct
forwarding, limits respected, nobody admitted while draining, the task ends.

**Offline Bedrock handshake** (`plugins/bedrock_offline.rs`, called by the
relay). *State:* per client a stage and the fragments seen of one split
packet. *Hard:* it resends and reassembles nothing, over a network that loses,
repeats and reorders. *Correct if:* the message reaches a client that waits for
it, only a complete Login is answered, nonsense holds no session.

**Supervisor** (`runtime.rs`, accept loop in `proxy.rs`). One task owns the
listeners: `apply` prepares every redirect (assets, sockets), commits, and
sends settings through watch channels. *Hard:* failures half way, listeners
that are still draining while their key comes back, accept loops that were
polled before a change. *Correct if:* a failed reload changes nothing and
leaks nothing, an accepted one holds for every later client, removed sockets
are released in the end, rows of the statistics follow names and clients.

**Reload endpoint** (`reload.rs`, loop of `runtime::run`). A process publishes
a port and token in a file next to its config; `--reload`, the menu, the
browser manager and a starting process use it. *State:* two files shared by
processes, at most 32 connections being authenticated. *Hard:* crashes, stale
files, reused ports, edits between request and reload, silent connections.
*Correct if:* an acknowledgement means what it says and comes from the right
process, a stale file is replaced, the file leads to the process it names.

**TCP connection** (`proxy.rs`, `conn_worker.rs`, copy loop of `shaping.rs`).
A task per connection probes and asks the plugins, tries the targets in order,
then hands both sockets to a child process; two threads copy, a third reports
counts, the parent applies them and reaps the child. *Hard:* half-closes and
resets in every order, one direction failing alone, a killed worker, the last
report against the reaping. *Correct if:* streams end only when whole, counts
end complete, everything ends once both peers left.

**Connection registry** (`connections.rs`). Locks over the open connections,
lifetime totals per redirect, snapshots to `connections.json` and
`stats.json` by connection tasks and a timer, and the systemd status line.
*Hard:* several writers with fixed temporary names, totals read while counted,
reports repeated. *Correct if:* both files agree and settle on the truth,
totals are complete and never go back.

**Java offline plugin** (`plugins/minecraft_offline.rs`). When no target
accepts, the task of the connection reads the client's packets and answers a
status request, a ping or a login, under one timeout. *Hard:* what a packet
means depends on the packets before it, the client may leave any of them out,
pause, close or reset, and what it sent before the targets failed is already
waiting. *Correct if:* it is told what it asked for and nothing else, "handled"
is only said of a client that was told, and the connection ends.

**Bandwidth shaping** (`shaping.rs`). *State:* per copy the start of a window
and the bytes since. *Operations:* pass a chunk on, then sleep as long as the
limiter demands and a random time. *Hard:* the window is reset while the copy
still sleeps for the old one. *Correct if:* the cap is one, up to what a reset
gives away, and the copy is never asleep for longer than its last chunk costs.

**Config store** (`config_manager.rs`, `edit_config.rs`, and the dialogs in
`setup.rs`, `gui.rs`, `main.rs` that call it). Every command, dialog, editor
and browser manager is a process of its own that reads the TOML file, replaces
one `[[redirect]]` block of its text, parses the result and renames it over the
file. *State:* the file, and what each process remembers of it: a text, a
position, a block it has shown. *Hard:* nothing is locked, an editor stays open
for minutes, a position is not a name. *Correct if:* a file that parses stays
one that parses; a process alone on the file changes what it was asked to change
and nothing else.

### Parts that do not

| Part | State and operations | Status |
|---|---|---|
| Plugin interface, first-packet probe (`plugin.rs`) | the chain of plugins; a peek loop over one packet | the chain is in TcpConnection; of the probe only that it ends, since what it recognises goes to the log |
| Configuration (`config.rs`) | pure parsing and validation | names and emptiness in ConfigStore, which protocol gets which settings in Redirect; the checks within one redirect are left out |
| Command line (`main.rs`), menu, setup (`setup.rs`), browser manager (`gui.rs`) | dialogues, one request at a time | what they do to the config is in ConfigStore; the questions, the HTTP parsing and the service control are left out |
| Live monitor (`monitor.rs`) | two samples, histories, selection | not modelled: reads the published files and draws |
| Windows background process (`windows_process.rs`) | a pid file; start, stop | not modelled: `tasklist` and `taskkill`; that it ends its process without notice is `Stop` in ReloadControl |
| Service control, systemd notification, installer, prompts, Tailscale, version, process title | calls of the system, no state | not modelled |
| Packaging, scripts, workflows | no part of the running program | not modelled |

### How they interact

The supervisor sends a listener its settings through a watch channel, which
keeps only the latest value; a listener returns its result to the supervisor
once. A TCP connection whose targets fail is handed to the plugin by its own
task; a copy asks the limiter after each chunk. Relay, return paths and selections share a locked map and one channel.
Connection tasks and return paths call the registry directly. Everything
outside the process reaches it through files: the config, the endpoint, the
two snapshots. The config store writes the config and asks for a reload
afterwards: ConfigStore says what the file may become, ReloadControl when a
process takes it up, Supervisor what that does to the listeners.

Hazards are listed in PROJECT.json at the lines where they bite, with the
properties that watch them, or why none does.

## 2. The modules

| Module | Models | State and actions |
|---|---|---|
| UdpRelay | the relay's loop and its tasks | one variable per map, counter and channel; one action per branch of `select!` and per outcome of a task. `due` is what the biased poll found ready; `work` the datagrams a branch still awaits sends for, so that other tasks run between two sends |
| RelayContract | what a redirect promises a client | a role per client; abstract specification that UdpRelay implements (`KeepsContract`) |
| IdleTimer | one session's clocks | `last_seen`, the timed receive, a discrete clock that may run ahead of a late task by `Late` |
| FakeSession | the offline handshake | `Effect` is `handle_datagram`; client and network are external |
| Supervisor | reloads and listeners | `Prepare`/`Reject`/`RetireRemoved`/`Commit` are apply's steps, one redirect at a time; the accept loop is split at its await (`Poll`, `TcpAccept`, `TcpServe`); a UDP relay appears as what UdpRelay abstracts to: it admits, drains, returns |
| ReloadControl | processes on one config | startup, endpoint, requests with client's and server's view of a connection, the loop of `run`; a process ends by returning from `run` (`Interrupt`, `Drop`, `Remove`), by the stop of the service (`Stop`) or a crash (`Kill`) |
| TcpConnection | one connection | handler, worker, a copy thread per direction, reports in flight; a plugin's outcome is a free choice |
| JavaRedirect | TcpConnection with the Java plugin inside | `packets` the client sent before a target was found, `taken` by the plugin, the packet it is `awaiting`, its `answers`; one action per read of `handle_slp` and per way it ends |
| Shaping | one shaped copy | `Pass` is a round of the copy loop with `wait_for`; time is discrete and bytes are measured by the time they are worth |
| Redirect | JavaRedirect, IdleTimer and Shaping as one redirect | `protocol` and `shaped` say what it is set up as (`runtime.rs`, settings): a UDP redirect has the timer, a TCP redirect connections, or with shaping the pace of one copy |
| ConfigStore | the config file and the processes that change it | one record per process with what it is doing and remembers; read, editor and rename are separate actions; `fresh` remembers whether somebody else has changed the file since |
| Registry | registry and snapshots | one action per locked section and per file rename |
| *X*Proofs | theorems about X | |
| ConnectionProofs | theorems about TcpConnection, JavaRedirect, IdleTimer, Shaping and Redirect | |
| FiniteSums | lemmas about sums over finite sets, for the counters the code keeps beside its maps | |
| MC*X* | instances for TLC | |

UdpRelay takes the handshake as "goes on, is finished, or is not refreshed";
FakeSession is what is behind that, and its `Effect` is proved to be one of the
three (`HandshakeIsAbstracted`). IdleTimer is what is behind `SessionIdles`
and `TimerFires`; JavaRedirect what is behind TcpConnection's `OnTargetFailure`,
and it is proved to implement it. Supervisor's view of a relay is that of RelayContract.

Operators ending in `_Name` after a definition's name (`Deny_NoTimeout`) are
faulty variants, with the change in the comment above. Put in the place of the
definition, the property named with them in PROJECT.json fails; that shows
what each property depends on.

### What is abstracted

- Bytes, addresses and messages are members of small sets. Datagrams have a
  number and a kind (ping, start of a handshake, data).
- UdpRelay: the number of datagrams per client (`MaxReceived`) and of published
  values (`MaxUpdates`) is bounded. The relay acts on a datagram or result that
  became ready before an update did: at most one poll late, as in the code.
- Supervisor: a UDP relay uses its own copy of the settings and may be one poll
  behind, which is why `ServedUnderCurrent` is about TCP.
- Registry: writes of the snapshot files do not fail.
- TcpConnection: socket buffers never fill (`MaxBytes` is the length of a
  stream); both counters are loaded in one step; delays of the shaping are
  Shaping's; left out are the pipes used on Windows, and what an orphaned worker does
  after its report stream could not be registered.
- IdleTimer: a task polls its timer at most `Late` ticks late. The idle timeout
  may be zero.
- JavaRedirect: a packet is one of five kinds and stands for one byte of the
  client's stream; one that cannot be parsed is `bad`. Texts, favicon and MOTD
  are left out. Bytes of a stream to a target are bounded by `MaxServed`.
- Shaping: the cap is 1, as bytes are measured in the time they are worth; the
  copy is watched up to `Horizon`. Without a cap there is no limiter.
- ConfigStore: a text is the sequence of its blocks, a block a name and one
  value for all else; a text that is not TOML is `Broken`. `MaxRedirects` bounds
  the blocks. Several redirects may have no name. A service is only removed or
  opened by its name, as the commands do.
- Supervisor: the config is edited only while the task is idle, since only a
  reload reads it.
- FakeSession: fragments of other packets than the Login are a constant; their
  metadata may be anything a header can say (a count of 0 or above the limit, an
  index out of range). Datagrams of earlier steps may arrive any number of times, one
  stale fragment of an earlier connection once; replies to datagrams arrive in
  order, as RakNet numbers them. Truncated headers, acknowledgements and
  sequence numbers are left out, and the target stays unreachable. The limit on
  sessions is UdpRelay's.
- ReloadControl: a process is denied or times out in one step; malformed
  requests count as denied; draining sockets are Supervisor's. The
  remove-then-rename of Windows is left out. Processes are numbered in the
  order they start.

## 3. What is checked

| Run | Instance | Question |
|---|---|---|
| relay_multi | 2 clients, 2 sockets, 2 targets, one configuration with offline message, queues of 2, 1 waiting client, 1 offline session, 2 updates | Do roles, selections, sessions, order and limits hold in every interleaving of the loop and its tasks? |
| relay_live | 1 client, two configurations, 3 updates | Does the relay implement RelayContract; is every waiting client resolved; does a retired relay end? |
| supervisor | 1 client; a TCP and a UDP key; files that rename, remove and bring back listeners, or fail | Does a failed reload change and leak nothing; is a client served under current settings; are removed sockets released; is a rejected reload applied when repeated? |
| registry | 2 redirects, of which one has 2 connections with any reports up to 2 bytes, the timer | Do files and totals agree and settle, also when a report is repeated or comes late? |
| registry_status | the same | *(finding)* Does the status line settle? |
| redirect | one redirect of each kind. TCP: the Java plugin, 2 targets, up to 3 packets before a target is found, streams of 2 bytes, 1 report. TCP with shaping: window 2, chunks of up to 6, jitter 1, 20 ticks. UDP: idle timeout 12 ticks, lateness 2 | Are streams and counts whole; is a client of an offline server told what it asked for; does every connection end? How far above its cap can a copy get, and how long can it sleep? Between which times does a silent session end? |
| fake_session | Login in 2 fragments, at most 3 tracked, timeout 2 ticks, losses, expiry, restart, nonsense | Is only a complete Login answered, is a patient client told, does nonsense hold nothing? |
| fake_lost | one lost reply | *(finding)* Are repeated steps answered? |
| config_store | 2 processes, 2 names and redirects without one, 2 values, up to 2 blocks | Does a config that parses stay one that parses; is an undisturbed change exact? |
| config_lost | the same | *(finding)* Does a guided edit preserve the other services? |
| reload_control | 2 processes, 2 ports, 1 edit, 1 request, 1 slot | Are acknowledgements and the endpoint file right across crashes, stops, returns and reused ports? |
| reload_stop | the same | *(finding)* Does a stopped service remove its endpoint file? |

**Why these bounds.** Races in the relay need a client that leaves and comes
back while its old path lives (2 sockets), a second client competing for the
limits (2 clients, limits of 1), and a queue that is flushed while another
datagram comes (2 datagrams). That one client fills its own queue is not reached,
as a client sends no more than the queue holds; `LimitsHold` proves it. Two updates are a change or retirement and one
that overtakes it in the channel; relay_live takes three. A prepared listener,
one that fails after it, and one whose old listener still drains need the two
keys of the supervisor; one client is enough there, since clients of a
listener meet only in its counters, which Registry models. Two writers besides the timer suffice for every order
of two snapshots. Two bytes let a write be partial and one byte be in flight.
Two processes are a predecessor and its successor or two rivals; a starting
process is itself a client, so that one slot is contended. Both versions of the config are
valid and not empty: a reload is rejected because an address is taken, and that a
start refuses what a reload takes (`Startable`) is not reached. The clocks'
arguments are linear, and the theorems hold for every value. Three packets are
the longest dialogue, and the third target of a connection would only repeat
the second. Two blocks are one that is changed and one that must not be; two
processes are what disturbs and what is disturbed, and each of the two may run
any number of commands.

**Deadlock** is not checked where the system may stop: a process that exited,
a connection that ended, counters at their bound.

### Fairness

Every liveness property states what it needs:

- Ready tasks are polled again (tokio): weak fairness of each task's step.
  Nothing is assumed of clients, targets, editors and signals beyond what a
  property says (`TargetsFallSilent`, `ClientsLeave`), but that in
  `RetiredRelayEnds` the bound `MaxReceived` silences the clients as well.
- A selection ends: every probe has a 2 s timeout.
- Sessions and handshakes that get no traffic become idle, and the timer of an
  idle session fires.
- A copy thread runs while its socket is ready, and the worker exits after
  both threads; whether a peer sends or closes is open.
- JavaRedirect: the task that runs the plugin goes on, and its timeout fires;
  nothing is assumed of the client.
- FakeSession: the client repeats its step and what is repeated for ever
  arrives; that is the assumption the code itself states
  (`bedrock_offline.rs`, head comment).
- ReloadControl: strong fairness of accepting and of handling an authenticated
  or timed-out connection, since `run`'s `select!` is not biased: it picks at
  random among ready branches, so repeated SIGHUPs cannot shut one out.

### Findings

1. **Status line** (`registry_status`, connections.rs:243). The text is built
   under a lock and sent outside it: two connection tasks may send in the other
   order, and the older summary stays until the next change.
2. **Lost update** (`config_lost`, config_manager.rs:220). docs/usage.md says of
   the guided edit that "other service blocks are preserved". It publishes the
   text it has read: a service that another process has added meanwhile is
   gone, and after a removal the remembered position names another service.
3. **Lost reply** (`fake_lost`, bedrock_offline.rs:380). The head comment says
   the client repeats a step "and we handle it idempotently"; after the stage
   moved on, the repeated request is not answered, and a client that lost the
   reply is never told.
4. **Stopped service** (`reload_stop`, runtime.rs:231). docs/usage.md:195 says that
   "normal shutdown removes the process's own file". Only a return from `run`
   does, and `run` waits for Ctrl+C alone. The packaged unit names no
   `KillSignal`, so `systemctl stop` and `--stop` end the process by SIGTERM, on
   Windows by `taskkill /F`, and the file stays until the next start replaces it.

Observations without a run:

- A session may outlive its idle timeout by up to another one
  (`EndsWithinTwice`): the return path measures from its own last receive.
- Two processes that start together on one config may both publish an endpoint,
  since the look and the rename are two steps (`Check`, `Publish`), and the
  earlier one can then only be reloaded by SIGHUP. `Server::drop` looks and removes
  in two steps as well (`Drop`, `Remove`), and may remove the file that another
  process has put there in between.
- A shaped copy may exceed its cap, and stays under twice of it
  (`UnderTwiceTheCap`): a window is reset before the sleep it has earned
  (shaping.rs:120), which then counts as time of the next.
- A cap of 0 makes the limiter divide by zero (shaping.rs:114): the wait would
  be infinite, which `Duration::from_secs_f64` does not accept. The models
  assume a positive cap.
- A client that resets leaves the other copy blocked in a read as long as the
  target is silent (conn_worker.rs:415); worker and row stay until the target
  leaves. No document promises more, and no property watches it: `BothLeftEnds`
  begins when both have left.
- A client that has got its status and neither pings nor closes is passed on
  to the next plugin when the timeout fires, although it was answered
  (minecraft_offline.rs:104).
- A handshake in two segments is not recognised by the probe, since every peek
  counts from the start of the stream (plugin.rs:158).
- An empty config is kept by `save_text` and by the removal of the last
  redirect, and refused at start: `Parses` is weaker than `Valid`.
- `add`, `update`, `edit` and `save_text` parse what they write, and parsing does
  not look at listen addresses. A config with the same address and protocol twice is saved, and
  every reload rejects it ("duplicate listener", runtime.rs:70; docs/usage.md:170
  says that it fails validation). `StaysParsable` says no more than its name.
- The guided edit takes the service out of a list it has read anew by the
  position chosen before (setup.rs:339-340). The position may be out of range by
  then, which ends the process, or name another service, which is shown instead.

## 4. What is proved

Eight modules hold theorems, about the specification for all constants that
satisfy its ASSUMEs.

**UdpRelay.** `TypeCorrect` has one lemma per helper that builds state and one
case per action. The properties are not inductive one by
one: that a result is not stale rests on clients having one role, and a role
is lost or gained only through matched paths. The invariant of
`UdpRelayProofs` is their conjunction,

    Consistent == TypeOK /\ OneRole /\ OneSelectionEach /\ SessionsMatchPaths

with a step lemma for each part (`OneRoleStep`, `OneSelectionEachStep`,
`SessionsMatchPathsStep`) that may use all of the others before the step. From
it follow `ClientsHaveOneRole`, `SelectionsAreMatched`, `SessionsArePaired`,
and the action properties `SessionsSurvive` and `DrainIsClosed`. The second
needs that a draining relay's results belong to clients that wait
(`ResultIsCurrent`).

`LimitsHold` (`Spec => []WithinLimits`) is about numbers the code keeps beside
its maps. The byte counter is the sum of the sizes of all waiting queues, so the
proof follows what each step takes from or adds to one queue (`BudgetMoves`),
with the lemmas of FiniteSums about a sum that is updated at one place or loses
one; a queue that is flushed or dropped gives back what it had. The waiting
clients and the handshakes are counted by cardinalities (`QueuesFit`,
`FakesFit`): a datagram makes at most a handshake of its own client, and only
when there is room, and everything else can only make room.

`DatagramsStayInOrder` needs one more part, `InLine`: what a client has waiting
in its queue, and what is being flushed of it, has increasing numbers above all
that was forwarded and at most the last one received (`FollowsOn`). It needs
`Consistent` too, since a client with two roles would have two lines.

`RelayKeepsContract` (`Spec => KeepsContract`) shows that every step of the loop
and its tasks is a step of RelayContract or none. Its invariant `Faithful` adds
to `Consistent` that a return path and a selection's result carry a target of
the configuration they were admitted under, that handshakes are held only under
a configuration with an offline message, and that a relay that has not started
or has returned serves nobody. `RoleBefore` and `RoleAfter` read a client's role
from the three maps; each action then has a lemma that says what it does to the
role of every client: nothing (`OthersKeep`, `TrafficKeeps`, `ProbeKeeps`),
admission or expiry (`ReceiveMoves`, `TickMoves`), resolution (`ResultMoves`),
or its end (`PathMoves`, `FlushMoves`). `OneRole` and `OneSelectionEach` are what
makes the role of a client, and the configuration it waits under, unique.

`NoUpdateIsMissed` is about the watch channel, which keeps only the latest value:
a running relay has that value in force, drains as it was told, or its update
branch is ready (`KeepsUp`); it stops watching only when nothing can come. With
`SelectionsAreMatched` and `SessionsArePaired` this is the safety under
`RetiredRelayEnds`: all that a retired relay waits for is under way.

**Supervisor.** A commit is not one step, so the invariant says what is already
done at each of its steps: `ReadingSplits` (while a file is prepared, `prepared`
and `todo` make it up and no key is prepared twice), `CommitGoesOn` (each
redirect of the new file is still to come or its listener and row are as it
says, and a listener has the settings of the new file or still of the old one)
and `FirstApply` (nothing listens before). With `ActiveHaveValues` they give
`ReloadsAreAtomic`. `NoSocketIsLeaked` needs that a connection in a listener's
hand belongs there and that only a retired relay drains (`HandsMatch`);
`NoStaleService` that whoever waits may be served under what its listener was
last sent and is about to be sent (`DueCovers`); `RowsAreRight` that every
configuration in use has a row (`RowsExist`).
`RetiredAreReleasable` is the safety under `RetiredIsReleased`: while a removed
listener holds its socket, it has an update to see or a connection to settle, or
is a draining relay with nothing left but sessions it serves (`RetiredAreTold`,
`AcceptedAreHeld`). `GoodFilesWaitForDrainsOnly` is that under
`RetriedReloadApplies`: a consistent, unobstructed file is rejected only while
such a listener excludes one of its redirects. It needs that `prepared` and
`todo` are the file in its order (`ReadInOrder`), and that as many keys as
redirects means no key twice (`DistinctKeys`).

**ReloadControl.** `AckInv`: what a process loads and applies never goes back and
is at most what was edited (`VersionsGrow`), a connection carries the token of
the endpoint its requester found (`RequestsMatch`), and a reload under way is
of the config as it was at the request or later (`JobsMatch`). A token is a
process, so that an answer is of the process that was asked. For
`EndpointAlwaysServed`, `OwnersLive` says that the endpoint is that of a process with
its control socket still open or of one that a signal or a crash ended; for `AloneIsFound`,
`AloneStays` says what a process that nobody disturbs has reached.
`NobodyIsForgotten` is the safety under `RequestsAreAnswered`: a client that waits
has a connection that is queued, being authenticated or the reload under way at a
process that still has its socket (`ConnectionsAreServed`; that a job is never
overwritten comes from `JobsMatch`). `SlotsAreKept` bounds what is authenticated.

**IdleTimer.** `TimerInv` says that `quiet` and the code's `last_seen` agree
and that `last_seen` is at most the timeout plus what the timer has waited;
`GoneWithinTwice` adds the lateness, `NotGoneEarly` reads off the guard of the
timer from it.

**Shaping and Redirect.** `PaceIsBounded` rests on `PaceInv`: what was sent is bounded in
closed windows by the time before the current one and once more the time until
now or the end of the last sleep (`ClosedCovered`), and the bytes of the current
window have been slept for when the sleep is over (`OpenCovered`).
`SleepsAreShort` comes from the same invariant. `RedirectRefines` shows that the
composed redirect implements the connection, the timer and the pace alone, so the
theorems about each hold of it.

**TcpConnection.** `IInv` is four parts: types, the phases in which each
variable may have moved (`Phases`), bytes ordered from sent to counted along
the pipeline (`Bytes`), and that what is in flight plus what was applied
reaches what was written once the worker ended (`Counts`). It gives
`InventsNothing`, `EofIsHonest` and `CountsEndComplete`, for any number of
plugins, targets and bytes. `LeftIsNeverStuck` is the safety under `BothLeftEnds`:
handler, threads and worker of a connection that both peers have left never all
wait for each other (`Working`: a thread that writes has something to write, a
registered connection has a worker to come, at work or to be drained).

**JavaRedirect.** `JavaRefines`: every step of the dialogue is a stutter of
TcpConnection or the outcome `OnTargetFailure` allows, so that the three
theorems about streams and counters hold of the redirect (`JavaServesWhole`). `AnswersAreFit` needs
an invariant (`JInv`) that ties what the plugin awaits to the packets it has
taken and the answers it has given (`Progress`): in each stage of the dialogue,
the first packets are those that led there.

**Registry.** The invariant says who holds which lock where
(`LocksAreHeld`), that the entries are what the file shows or some task is on
its way to write (`ChangesArePublished`), that the second file is written from
the snapshot of the first (`FilesArePaired`) and that a total only grows from
the counter to the snapshot to the file (`TotalsGrow`). From it follow
`LastChangeIsPublished`, `PairIsNeverTorn` and `PublishedTotalsGrow` for any
number of connections. `NothingIsLost` (`Spec => []TotalsComplete`): the total of
a redirect is the sum over its connections, those that are gone included, of
what each has reported, less what its task is just adding; the two steps of a
report keep it, each by the lemma on a sum updated at one place.

**FakeSession.** `OnlyWholePacketsKick` rests on `SplitInv`: what a session has
seen of a split packet is a subset of what has come of it, and never more than
its count. That a complete set is the whole packet is then one of counting
(`CompleteHasAll`). `NonsenseIsInert` is the same for every malformed fragment:
no stage moves, no age is reset. `NobodyIsStranded` is the safety that
`TellsClient` is built on: as long as no reply is lost and nobody starts over,
the session's stage and the client's step go together (`Together`), with what
may still be delivered bounded by how far the client has come (`Past`, `Due`), so
that one of the datagrams the client repeats is always answered. It is false
without its hypothesis, which is finding 3. A datagram is a sequence of frames
that is run through by a recursive function; that this function exists and what
it yields for one and two frames is proved by counting up (`CountUp`).

**ConfigStore.** Every text that waits to be written parses, and an
open block is one of the text remembered with it (`Candidates`): then
`NothingElseBreaksIt`, since a rename writes only such texts. Lemmas say what
adding, replacing and removing a block make of a text. `AloneIsExact` rests on
a third part, `FreshFits`: what a process remembers of the file fits the file
for as long as nobody else has renamed over it (`fresh`).

Type invariants are proved for every module and therefore not part of a run
(JavaRedirect's and Redirect's are those of their parts).

**Induction.** Where an argument goes over the size of a set or a length, it is
made by a smallest counterexample (`LeastExists`, from the well-foundedness of <
on the naturals; `SubsetInduction` in FiniteSums): the claim is a set, which the
provers can instantiate, and not an operator.

**Only model-checked.** Every invariant and every action property of a passing
run is a theorem. What is left is temporal with fairness (`SelectionResolves`,
`RetiredRelayEnds`, `RetiredIsReleased`, `RetriedReloadApplies`,
`AnswerArrives`, `BothLeftEnds`, `FailureEnds`, `TellsClient`,
`GarbageHoldsNothing`, `RequestsAreAnswered`): it speaks of enabled actions,
which the prover cannot expand. The
safety part of `TellsClient`, `GarbageHoldsNothing`, `RequestsAreAnswered`,
`BothLeftEnds`, `RetiredRelayEnds`, `RetiredIsReleased` and
`RetriedReloadApplies` is proved (`NobodyIsStranded`, `NonsenseIsInert`,
`NobodyIsForgotten`, `LeftIsNeverStuck`, `NoUpdateIsMissed`,
`RetiredAreReleasable`, `GoodFilesWaitForDrainsOnly`).

## 5. Plan

Done, in this order, the most important behaviour first: UdpRelay with its
contract, Supervisor, Registry, IdleTimer, TcpConnection, FakeSession,
ReloadControl, Shaping, JavaRedirect, Redirect, ConfigStore; proofs
about all of them.

Next modules:

1. WindowsProcess: start and stop over the pid file, crashes, two starts.
2. Monitor: rates over successive samples and histories.
3. The ping and pong caches of the Bedrock plugin.
4. ConfigStore composed with ReloadControl: an acknowledged reload of what was
   saved.

Next proof: that UdpRelay's flag is IdleTimer's clock.
