----------------------------- MODULE FakeSession -----------------------------
(***************************************************************************)
(* The offline handshake of one Bedrock client (plugins/bedrock_offline.rs *)
(* and handle_offline_datagram of udp_proxy.rs): just enough of RakNet and *)
(* of the login to be allowed to send a Disconnect with the message.  The  *)
(* redirector resends nothing and reassembles nothing; it counts on the    *)
(* client, which is not part of the repository, to repeat the step it is   *)
(* stuck on or to start over.  Datagrams of the client are lost, delayed   *)
(* and repeated, replies may be lost.  Bytes, acknowledgements and the     *)
(* numbering of replies, which no step depends on, are left out.           *)
(***************************************************************************)
EXTENDS Naturals, Sequences, FiniteSets, SequencesExt

CONSTANTS
  LoginFragments,              \* datagrams the client's Login is split into
  MAX_TRACKED_LOGIN_FRAGMENTS,
  FAKE_SESSION_IDLE_TIMEOUT,   \* in ticks
  Delayed,                     \* fragments of an earlier connection
  Malformed,                   \* fragments that make no sense
  Hitches                      \* what may go wrong, see hitches

ASSUME LimitAssumption ==
  /\ LoginFragments \in 1..MAX_TRACKED_LOGIN_FRAGMENTS
  /\ MAX_TRACKED_LOGIN_FRAGMENTS \in Nat
  /\ FAKE_SESSION_IDLE_TIMEOUT \in Nat \ {0}
ASSUME HitchAssumption == Hitches \subseteq {"loss", "expiry", "restart", "nonsense"}

\* What the tracker reads of a fragment; it makes no sense if its packet has no
\* fragments or more than are tracked, or if it is none of them.
Fragments == [kind : {"fragment"}, id : Nat, count : Nat, index : Nat]
ASSUME FragmentAssumption ==
  /\ Delayed \subseteq Fragments /\ Malformed \subseteq Fragments
  /\ \A f \in Malformed :
       f.count \notin 1..MAX_TRACKED_LOGIN_FRAGMENTS \/ f.index >= f.count

VARIABLES
  session,  \* the client's entry of fake_sessions
  step,     \* the reply the client works towards, or "told", or "gone"
  sent,     \* the steps whose datagrams the network may deliver: in any order,
            \* any number of times or never; a "stale" one comes once
  down,     \* replies on their way to the client
  got,      \* history: fragments this session has seen while it waits for Login
  hitches   \* history: a reply was lost, a session expired on a client that is
            \* still there, the client started over (each at most once), or it
            \* sent nonsense

vars == <<session, step, sent, down, got, hitches>>

NoSession == [stage |-> "none"]
NoSplit == [seen |-> {}]
New == [stage |-> "request", split |-> NoSplit, age |-> 0]

\* The frames of a datagram.  A fragment carries the header the tracker reads,
\* of any other frame only the kind of its payload matters.
Payload(k) == [kind |-> k]
Fragment(s, n, i) == [kind |-> "fragment", id |-> s, count |-> n, index |-> i]
Open(k) == [open |-> k, frames |-> <<>>]
Datagram(frames) == [open |-> "no", frames |-> frames]
Single(f) == Datagram(<<f>>)

\* What the client sends while it waits for a reply; it may bundle frames and
\* repeats itself at will.  Its keep-alives begin when it is connected.
Sends == [
  open1    |-> {Open("open1")},
  open2    |-> {Open("open2")},
  request  |-> {Single(Payload("request"))},
  settings |-> {Single(Payload("incoming")), Single(Payload("settings")),
                Datagram(<<Payload("incoming"), Payload("settings")>>)},
  login    |-> {Single(Fragment(0, LoginFragments, i)) :
                  i \in 0..(LoginFragments - 1)} \cup
               {Datagram(<<Payload("ping"), Fragment(0, LoginFragments, 0)>>)},
  told     |-> {},
  gone     |-> {},
  stale    |-> {Single(f) : f \in Delayed}]
Datagrams == UNION {Sends[s] : s \in DOMAIN Sends}
Inputs == Datagrams \cup {Single(f) : f \in Malformed}
Stages == {"request", "incoming", "settings", "login"}

Awaits == [open1 |-> "reply1", open2 |-> "reply2", request |-> "accepted",
           settings |-> "network", login |-> "disconnect"]
\* A client ignores a reply to a step it has finished.
Wanted == [open1    |-> {"reply1", "reply2", "accepted", "network", "disconnect"},
           open2    |-> {"reply2", "accepted", "network", "disconnect"},
           request  |-> {"accepted", "network", "disconnect"},
           settings |-> {"network", "disconnect"},
           login    |-> {"disconnect"}, told |-> {}, gone |-> {}]
After == [open1 |-> "open2", open2 |-> "request", request |-> "settings",
          settings |-> "login", login |-> "told"]
-----------------------------------------------------------------------------
(* handle_datagram *)

\* parse_frame_payloads gives up at the first fragmented frame.
Payloads(d) ==
  LET cut == {i \in DOMAIN d.frames : d.frames[i].kind = "fragment"}
  IN  SubSeq(d.frames, 1, IF cut = {} THEN Len(d.frames)
                          ELSE (CHOOSE i \in cut : \A j \in cut : i <= j) - 1)

\* One payload: the stage it leads to; what is not expected is passed over,
\* and anything but a keep-alive is taken for the Login.
Advance(stage, f) ==
  CASE stage = "request" /\ f.kind = "request" -> "incoming"
    [] stage = "incoming" /\ f.kind = "incoming" -> "settings"
    [] stage = "settings" /\ f.kind = "settings" -> "login"
    [] stage = "login" /\ f.kind # "ping" -> "done"
    [] OTHER -> stage

\* The reply sent on entering a stage.
Replies == [incoming |-> {"accepted"}, settings |-> {}, login |-> {"network"},
            done |-> {"disconnect"}]

\* The loop over the payloads: the stage before the first and after each.
Run(stage, payloads) ==
  LET after[i \in 0..Len(payloads)] ==
        IF i = 0 THEN stage ELSE Advance(after[i - 1], payloads[i])
  IN  after

Handled == [stage \in Stages |-> [d \in Inputs |->
  LET payloads == Payloads(d)
      after == Run(stage, payloads)
      moves == {i \in 1..Len(payloads) : after[i] # after[i - 1]}
  IN  [stage |-> after[Len(payloads)],
       out |-> UNION {Replies[after[i]] : i \in moves}]]]

\* record_fragment
SameSplit(split, f) == split # NoSplit /\ split.id = f.id
Consistent(split, f) ==
  /\ f.count \in 1..MAX_TRACKED_LOGIN_FRAGMENTS
  /\ SameSplit(split, f) => split.count = f.count
Valid(split, f) == Consistent(split, f) /\ f.index < f.count
\* Mutant: a new split inherits what was seen.
Track_KeepsSeen(split, f) ==
  IF Valid(split, f)
  THEN [id |-> f.id, count |-> f.count, seen |-> split.seen \cup {f.index}]
  ELSE IF Consistent(split, f) THEN split ELSE NoSplit
Track(split, f) ==
  IF Valid(split, f)
  THEN [id |-> f.id, count |-> f.count,
        seen |-> {f.index} \cup IF SameSplit(split, f) THEN split.seen ELSE {}]
  ELSE IF Consistent(split, f) THEN split ELSE NoSplit
\* Mutant: one fragment more than there are.
Complete_OneMore(split) == Cardinality(split.seen) > split.count
Complete(split) == Cardinality(split.seen) >= split.count

\* Nonsense does not refresh the session.  Mutant: everything does.
AgeAfter_Always(s, f) == 0
AgeAfter(s, f) == IF Valid(s.split, f) THEN 0 ELSE s.age

\* A datagram without a payload while Login is awaited: a fragment.
AtFragment(s, d) == s.stage = "login" /\ Payloads(d) = <<>>
FragmentEffect(s, f) ==
  LET split == Track(s.split, f)
      ready == Valid(s.split, f) /\ Complete(split)
  IN  [stage |-> IF ready THEN "done" ELSE s.stage, split |-> split,
       age |-> AgeAfter(s, f), out |-> IF ready THEN Replies.done ELSE {}]

\* A datagram that leaves the tracked split alone refreshes the session.
Refreshed(s, stage, out) ==
  [stage |-> stage, split |-> s.split, age |-> 0, out |-> out]

\* What a datagram makes of a session, and the replies to it.
Effect(s, d) ==
  CASE d.open = "open1" -> Refreshed(s, s.stage, {"reply1"})
    [] d.open = "open2" -> Refreshed(s, s.stage, {"reply2"})
    [] d.open = "no" /\ AtFragment(s, d) -> FragmentEffect(s, d.frames[1])
    [] d.open = "no" /\ ~AtFragment(s, d) ->
         LET h == Handled[s.stage][d] IN Refreshed(s, h.stage, h.out)
-----------------------------------------------------------------------------
Init ==
  /\ session = NoSession
  /\ step = "open1"
  /\ sent = {"open1", "stale"}
  /\ down = {} /\ got = {} /\ hitches = {}

\* The receive branch: retain drops a session that is too old, only the start
\* of a handshake makes a new one, a finished one is removed.
Live == IF session # NoSession /\ session.age >= FAKE_SESSION_IDLE_TIMEOUT
        THEN NoSession ELSE session
Known(d) == Live # NoSession \/ d.open # "no"
Current == IF Live = NoSession THEN New ELSE Live
Handle(d) ==
  LET e == Effect(Current, d)
      done == e.stage = "done"
      news == IF Current.stage = "login" /\ d \in Datagrams
              THEN {f \in ToSet(d.frames) : f.kind = "fragment"} ELSE {}
  IN  /\ session' = IF done THEN NoSession
                    ELSE [stage |-> e.stage, split |-> e.split, age |-> e.age]
      /\ down' = down \cup (e.out \cap Wanted[step])
      /\ got' = IF done THEN {} ELSE IF Live = NoSession THEN news
                ELSE got \cup news

\* A datagram of an unknown client is none of the handshake's business.
Ignore == session' = Live /\ got' = {} /\ UNCHANGED down

Receive(d) ==
  /\ IF Known(d) THEN Handle(d) ELSE Ignore
  /\ sent' = IF d \in Sends.stale THEN sent \ {"stale"} ELSE sent
  /\ UNCHANGED <<step, hitches>>

\* A client may send nonsense as long as it likes.
ReceiveMalformed(f) ==
  /\ Current.stage = "login"
  /\ step # "gone" => "nonsense" \in Hitches
  /\ Handle(Single(f))
  /\ hitches' = IF step = "gone" THEN hitches ELSE hitches \cup {"nonsense"}
  /\ UNCHANGED <<step, sent>>

\* The listener's clock, and the retain of the maintenance tick.
Tick ==
  /\ session # NoSession
  /\ session.age < FAKE_SESSION_IDLE_TIMEOUT
  /\ LET aged == [session EXCEPT !.age = @ + 1]
         missed == aged.age = FAKE_SESSION_IDLE_TIMEOUT /\ step # "gone"
     IN  /\ missed => "expiry" \in Hitches \ hitches
         /\ session' = aged
         /\ hitches' = IF missed THEN hitches \cup {"expiry"} ELSE hitches
  /\ UNCHANGED <<step, sent, down, got>>
Expire ==
  /\ session # NoSession
  /\ session.age >= FAKE_SESSION_IDLE_TIMEOUT
  /\ session' = NoSession /\ got' = {}
  /\ UNCHANGED <<step, sent, down, hitches>>
-----------------------------------------------------------------------------
(* The client and the network *)

\* The next reply is taken; the replies to datagrams are numbered, and one that
\* comes before its predecessor waits.
Take ==
  /\ step \in DOMAIN Awaits /\ Awaits[step] \in down
  /\ step' = After[step] /\ sent' = sent \cup {After[step]}
  /\ down' = down \ {Awaits[step]}
  /\ UNCHANGED <<session, got, hitches>>

\* A new connection from the same address: it knows nothing of the old one.
StartOver ==
  /\ "restart" \in Hitches \ hitches
  /\ step \in DOMAIN Awaits \ {"open1"}
  /\ step' = "open1" /\ down' = {} /\ hitches' = hitches \cup {"restart"}
  /\ UNCHANGED <<session, sent, got>>

Leave ==
  /\ step \notin {"told", "gone"}
  /\ step' = "gone" /\ down' = {}
  /\ UNCHANGED <<session, sent, got, hitches>>

\* What a client sent before it left is delivered or lost in the end.
Drain ==
  /\ step = "gone" /\ sent' = {}
  /\ UNCHANGED <<session, step, down, got, hitches>>

LoseReply(r) ==
  /\ "loss" \in Hitches \ hitches
  /\ r \in down /\ down' = down \ {r}
  /\ hitches' = hitches \cup {"loss"}
  /\ UNCHANGED <<session, step, sent, got>>

Next ==
  \/ \E s \in sent : \E d \in Sends[s] : Receive(d)
  \/ \E f \in Malformed : ReceiveMalformed(f)
  \/ \E r \in down : LoseReply(r)
  \/ Tick \/ Expire \/ Take \/ StartOver \/ Leave \/ Drain

Spec == Init /\ [][Next]_vars

\* The client repeats all of its step until it is answered, and what is sent
\* again and again arrives; a reply that is not lost arrives; the clock ticks
\* and the maintenance branch runs.
FairSpec ==
  /\ Spec
  /\ \A d \in Datagrams \ Sends.stale : WF_vars(d \in Sends[step] /\ Receive(d))
  /\ WF_vars(Take) /\ WF_vars(Tick) /\ WF_vars(Expire) /\ WF_vars(Drain)
-----------------------------------------------------------------------------
TypeOK ==
  /\ session \in {NoSession} \cup
       [stage : Stages, age : 0..FAKE_SESSION_IDLE_TIMEOUT,
        split : {NoSplit} \cup [id : Nat, count : 1..MAX_TRACKED_LOGIN_FRAGMENTS,
                                 seen : SUBSET Nat]]
  /\ step \in DOMAIN Wanted
  /\ sent \subseteq DOMAIN Sends
  /\ down \subseteq Wanted.open1
  /\ got \subseteq Fragments
  /\ hitches \subseteq Hitches

\* "We do need to wait for every fragment to arrive before disconnecting"
\* (handle_datagram): a fragment only leads to the Disconnect if all of its
\* packet has come to this session, whatever else was delayed or repeated.
KickNeedsAll ==
  [][\A d \in Datagrams :
       /\ Receive(d) /\ Live # NoSession /\ session' = NoSession
       /\ Payloads(d) = <<>>
       => \A i \in 0..(d.frames[1].count - 1) :
            [d.frames[1] EXCEPT !.index = i] \in got \cup {d.frames[1]}]_vars

\* Fragments that make no sense keep nobody's session alive: when the client is
\* gone, its place among the MAX_FAKE_SESSIONS becomes free.
GarbageHoldsNothing ==
  (step = "gone" /\ session # NoSession /\ session.stage = "login")
     ~> session = NoSession

\* A client that stays is told, however often its own datagrams are lost,
\* delayed or repeated, unless a reply is lost, its session expires, it starts
\* over or it sends nonsense.
TellsClient == <>(step \in {"told", "gone"} \/ hitches # {})

\* "If a datagram is lost, the real client simply retries the step it's stuck
\* on and we handle it idempotently" (bedrock_offline.rs): it is told, too.
RetriesAreAnswered == <>(step \in {"told", "gone"})
=============================================================================
