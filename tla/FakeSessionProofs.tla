--------------------------- MODULE FakeSessionProofs ---------------------------
(***************************************************************************)
(* A Disconnect that answers fragments answers a whole packet, for every   *)
(* number of fragments, limit, timeout and whatever else is delayed,       *)
(* repeated or malformed; a client that loses no reply is never at a step  *)
(* that nobody answers; and what UdpRelay takes a handshake for is what it *)
(* is.                                                                     *)
(***************************************************************************)
EXTENDS FakeSession, FiniteSetTheorems, SequenceTheorems, TLAPS

-----------------------------------------------------------------------------
(* Counting                                                                  *)

LEMMA LeastExists ==
  ASSUME NEW T \in SUBSET Nat, T # {}
  PROVE  \E x \in T : \A y \in T : x <= y
<1>1. PICK x \in T : \A y \in T : ~ (<<y, x>> \in OpToRel(<, Nat))
  BY WFMin, NatLessThanWellFounded
<1>2. \A y \in T : ~ (y < x)
  BY <1>1 DEF OpToRel
<1> QED
  BY <1>2

\* What holds of 0 and is handed on up to n holds up to n.
LEMMA CountUp ==
  ASSUME NEW n \in Nat, NEW Claim, 0 \in Claim,
         \A i \in 1..n : i - 1 \in Claim => i \in Claim
  PROVE  \A i \in 0..n : i \in Claim
<1> DEFINE Bad == {i \in 0..n : i \notin Claim}
<1> SUFFICES ASSUME Bad # {} PROVE FALSE
  OBVIOUS
<1>1. Bad \in SUBSET Nat
  OBVIOUS
<1>2. PICK x \in Bad : \A y \in Bad : x <= y
  <2> HIDE DEF Bad
  <2> QED
    BY <1>1, LeastExists
<1>3. x \in 1..n /\ x - 1 \in 0..n /\ ~ (x <= x - 1)
  BY <1>2
<1>4. x - 1 \in Claim
  BY <1>2, <1>3
<1> QED
  BY <1>2, <1>3, <1>4

-----------------------------------------------------------------------------
(* The frames of a datagram                                                  *)

Kinds == {"request", "incoming", "settings", "ping"}
Frames == Fragments \cup [kind : Kinds]

LEMMA FrameKinds ==
  /\ \A f \in Fragments : f.kind = "fragment"
  /\ \A f \in Frames : f.kind = "fragment" => f \in Fragments
  /\ \A k \in Kinds : Payload(k) \in Frames
  /\ Fragments \subseteq Frames
BY DEF Frames, Fragments, Kinds, Payload

LEMMA LoginIsFragments ==
  \A i \in 0..(LoginFragments - 1) : Fragment(0, LoginFragments, i) \in Fragments
BY LimitAssumption DEF Fragment, Fragments

\* Every datagram is a start of the handshake or has frames.
LEMMA InputTypes ==
  ASSUME NEW d \in Inputs
  PROVE  /\ d.open \in {"open1", "open2", "no"}
         /\ d.frames \in Seq(Frames)
         /\ d.open = "no" => d.frames # <<>>
<1> DEFINE Good(e) == /\ e.open \in {"open1", "open2", "no"}
                      /\ e.frames \in Seq(Frames)
                      /\ e.open = "no" => e.frames # <<>>
<1>1. Good(Open("open1")) /\ Good(Open("open2"))
  BY DEF Open
<1>2. \A f \in Frames : Good(Single(f))
  BY DEF Single, Datagram
<1>3. \A f, g \in Frames : Good(Datagram(<<f, g>>))
  BY DEF Datagram
<1> HIDE DEF Good
<1>4. \A s \in DOMAIN Sends : \A e \in Sends[s] : Good(e)
  <2> SUFFICES ASSUME NEW s \in DOMAIN Sends, NEW e \in Sends[s] PROVE Good(e)
    OBVIOUS
  <2>1. 0 \in 0..(LoginFragments - 1)
    BY LimitAssumption
  <2> USE FrameKinds DEF Kinds
  <2>2. CASE s \in {"open1", "open2", "told", "gone"}
    BY <2>2, <1>1 DEF Sends
  <2>3. CASE s = "request"
    BY <2>3, <1>2 DEF Sends
  <2>4. CASE s = "settings"
    BY <2>4, <1>2, <1>3 DEF Sends
  <2>5. CASE s = "login"
    BY <2>5, <2>1, <1>2, <1>3, LoginIsFragments DEF Sends
  <2>6. CASE s = "stale"
    BY <2>6, <1>2, FragmentAssumption DEF Sends
  <2> QED
    BY <2>2, <2>3, <2>4, <2>5, <2>6 DEF Sends
<1>5. \A f \in Malformed : Good(Single(f))
  BY <1>2, FrameKinds, FragmentAssumption
<1>6. Good(d)
  BY <1>4, <1>5 DEF Inputs, Datagrams
<1> QED
  BY <1>6 DEF Good

\* parse_frame_payloads: what it returns, and when that is nothing.
LEMMA PayloadTypes ==
  ASSUME NEW d \in Inputs
  PROVE  /\ Payloads(d) \in Seq(Frames)
         /\ d.open = "no" /\ Payloads(d) = <<>> => d.frames[1] \in Fragments
<1> DEFINE n == Len(d.frames)
           cut == {i \in DOMAIN d.frames : d.frames[i].kind = "fragment"}
           least == CHOOSE i \in cut : \A j \in cut : i <= j
<1>0. d.frames \in Seq(Frames) /\ n \in Nat /\ DOMAIN d.frames = 1..n
  BY InputTypes
<1>1. CASE cut = {}
  <2>1. Payloads(d) = SubSeq(d.frames, 1, n)
    BY <1>1 DEF Payloads
  <2>2. SubSeq(d.frames, 1, n) = d.frames
    BY <1>0
  <2> QED
    BY <2>1, <2>2, <1>0, InputTypes
<1>2. CASE cut # {}
  <2>1. cut \in SUBSET Nat
    BY <1>0
  <2>2. least \in cut
    <3> HIDE DEF cut
    <3>1. \E i \in cut : \A j \in cut : i <= j
      BY <1>2, <2>1, LeastExists
    <3> QED
      BY <3>1
  <2>3. Payloads(d) = SubSeq(d.frames, 1, least - 1)
    BY <1>2 DEF Payloads
  <2> HIDE DEF least
  <2>4. least \in 1..n
    BY <2>2, <1>0
  <2>5. SubSeq(d.frames, 1, least - 1) \in Seq(Frames)
        /\ Len(SubSeq(d.frames, 1, least - 1)) = least - 1
    BY <2>4, <1>0
  <2>6. Payloads(d) = <<>> => least = 1
    BY <2>3, <2>4, <2>5
  <2>7. d.frames[least] \in Frames /\ d.frames[least].kind = "fragment"
    BY <2>2, <2>4, <1>0
  <2> QED
    BY <2>3, <2>5, <2>6, <2>7, FrameKinds
<1> QED
  BY <1>1, <1>2

\* A fragment hides what comes after it, and has no payload itself.
LEMMA PayloadsOfOne ==
  ASSUME NEW f \in Frames
  PROVE  Payloads(Single(f)) = IF f.kind = "fragment" THEN <<>> ELSE <<f>>
<1> DEFINE d == Single(f)
           cut == {i \in DOMAIN d.frames : d.frames[i].kind = "fragment"}
           least == CHOOSE i \in cut : \A j \in cut : i <= j
<1>1. d.frames = <<f>>
  BY DEF Single, Datagram
<1>2. Payloads(d) = SubSeq(d.frames, 1, IF cut = {} THEN Len(d.frames) ELSE least - 1)
  BY DEF Payloads
<1> HIDE DEF d
<1>3. CASE f.kind = "fragment"
  <2>1. cut = {1}
    BY <1>1, <1>3
  <2>2. least = 1
    BY <2>1
  <2> QED
    BY <1>1, <1>2, <1>3, <2>1, <2>2 DEF d
<1>4. CASE f.kind # "fragment"
  <2>1. cut = {}
    BY <1>1, <1>4
  <2>2. Payloads(d) = SubSeq(d.frames, 1, Len(d.frames)) /\ d.frames \in Seq(Frames)
    BY <1>1, <1>2, <2>1
  <2>3. SubSeq(d.frames, 1, Len(d.frames)) = d.frames
    BY <2>2
  <2> QED
    BY <1>1, <1>4, <2>2, <2>3 DEF d
<1> QED
  BY <1>3, <1>4

LEMMA PayloadsOfTwo ==
  ASSUME NEW f \in Frames, NEW g \in Frames, f.kind # "fragment"
  PROVE  Payloads(Datagram(<<f, g>>)) = IF g.kind = "fragment" THEN <<f>> ELSE <<f, g>>
<1> DEFINE d == Datagram(<<f, g>>)
           cut == {i \in DOMAIN d.frames : d.frames[i].kind = "fragment"}
           least == CHOOSE i \in cut : \A j \in cut : i <= j
<1>1. d.frames = <<f, g>>
  BY DEF Datagram
<1>2. Payloads(d) = SubSeq(d.frames, 1, IF cut = {} THEN Len(d.frames) ELSE least - 1)
  BY DEF Payloads
<1> HIDE DEF d
<1>3. CASE g.kind = "fragment"
  <2>1. cut = {2}
    BY <1>1, <1>3
  <2>2. least = 2
    BY <2>1
  <2>3. Payloads(d) = SubSeq(<<f, g>>, 1, 1)
    BY <1>1, <1>2, <2>1, <2>2
  <2>4. SubSeq(<<f, g>>, 1, 1) = <<f>>
    <3> DEFINE pair == <<f, g>>
    <3>1. /\ pair \in Seq(Frames) /\ Len(pair) = 2 /\ pair[1] = f
          /\ 1 \in 1..2 /\ 1 \in Int
      OBVIOUS
    <3> HIDE DEF pair
    <3>2. SubSeq(pair, 1, 1) \in Seq(Frames) /\ Len(SubSeq(pair, 1, 1)) = 1
          /\ SubSeq(pair, 1, 1)[1] = f
      BY <3>1
    <3>3. SubSeq(pair, 1, 1) = <<f>>
      <4> DEFINE q == SubSeq(pair, 1, 1)
      <4>1. q \in Seq(Frames) /\ <<f>> \in Seq(Frames) /\ Len(<<f>>) = 1 /\ <<f>>[1] = f
        BY <3>2
      <4> HIDE DEF q
      <4>2. Len(q) = Len(<<f>>) /\ \A i \in 1..Len(q) : q[i] = <<f>>[i]
        BY <3>2, <4>1 DEF q
      <4>3. q = <<f>>
        BY <4>1, <4>2, SeqEqual
      <4> QED
        BY <4>3 DEF q
    <3> QED
      BY <3>3 DEF pair
  <2> QED
    BY <1>3, <2>3, <2>4 DEF d
<1>4. CASE g.kind # "fragment"
  <2>1. cut = {}
    BY <1>1, <1>4
  <2>2. Payloads(d) = SubSeq(d.frames, 1, Len(d.frames)) /\ d.frames \in Seq(Frames)
    BY <1>1, <1>2, <2>1
  <2>3. SubSeq(d.frames, 1, Len(d.frames)) = d.frames
    BY <2>2
  <2> QED
    BY <1>1, <1>4, <2>2, <2>3 DEF d
<1> QED
  BY <1>3, <1>4

-----------------------------------------------------------------------------
(* The loop over the payloads                                                *)

Reached == Stages \cup {"done"}

LEMMA AdvanceType ==
  ASSUME NEW stage \in Reached, NEW f
  PROVE  Advance(stage, f) \in Reached
BY DEF Advance, Reached, Stages

\* Run is well defined: there is a stage after every payload.
LEMMA RunIsDefined ==
  ASSUME NEW stage \in Stages, NEW payloads \in Seq(Frames)
  PROVE  /\ Run(stage, payloads) \in [0..Len(payloads) -> Reached]
         /\ Run(stage, payloads)[0] = stage
         /\ \A i \in 1..Len(payloads) :
              Run(stage, payloads)[i] =
                Advance(Run(stage, payloads)[i - 1], payloads[i])
<1> DEFINE n == Len(payloads)
           Step(g, i) == IF i = 0 THEN stage ELSE Advance(g[i - 1], payloads[i])
           IsRun(g, k) == g = [i \in 0..k |-> Step(g, i)]
           Claim == {k \in 0..n : \E g : IsRun(g, k)}
<1>0. n \in Nat
  OBVIOUS
<1>1. 0 \in Claim
  <2>1. IsRun([i \in 0..0 |-> stage], 0)
    OBVIOUS
  <2> HIDE DEF IsRun
  <2> QED
    BY <2>1, <1>0
<1>2. ASSUME NEW k \in 1..n, k - 1 \in Claim PROVE k \in Claim
  <2>1. PICK g : IsRun(g, k - 1)
    BY <1>2
  <2>2. g = [i \in 0..(k - 1) |-> g[i]] /\ \A i \in 0..(k - 1) : g[i] = Step(g, i)
    BY <2>1
  <2> DEFINE h == [i \in 0..k |-> IF i = k THEN Step(g, k) ELSE g[i]]
  <2>3. ASSUME NEW i \in 0..k PROVE h[i] = Step(h, i)
    <3>0. k \in Nat /\ 0 \in 0..(k - 1) /\ k # 0 /\ k - 1 \in 0..(k - 1)
      BY <1>2
    <3>1. CASE i = 0
      <4>1. h[i] = g[i] /\ g[i] = Step(g, i)
        BY <3>0, <3>1, <2>2
      <4> QED
        BY <3>1, <4>1
    <3>2. CASE i \in 1..(k - 1)
      <4>1. i # 0 /\ i # k /\ i \in 0..(k - 1) /\ i - 1 \in 0..(k - 1)
            /\ i - 1 \in 0..k /\ i - 1 # k
        BY <3>0, <3>2
      <4>2. h[i] = g[i] /\ h[i - 1] = g[i - 1] /\ g[i] = Step(g, i)
        BY <4>1, <2>2
      <4> QED
        BY <4>1, <4>2
    <3>3. CASE i = k
      <4>1. h[k - 1] = g[k - 1] /\ h[k] = Step(g, k)
        BY <3>0
      <4> QED
        BY <3>0, <3>3, <4>1
    <3> QED
      BY <3>1, <3>2, <3>3, <1>2
  <2>4. h = [i \in 0..k |-> h[i]]
    OBVIOUS
  <2> HIDE DEF h
  <2>5. IsRun(h, k)
    BY <2>3, <2>4
  <2> QED
    BY <2>5, <1>2
<1>3. \A k \in 0..n : k \in Claim
  <2> HIDE DEF Claim
  <2> QED
    BY <1>0, <1>1, <1>2, CountUp
<1>4. \E g : IsRun(g, n)
  BY <1>0, <1>3
<1>5. Run(stage, payloads) = CHOOSE g : IsRun(g, n)
  BY DEF Run
<1> DEFINE run == Run(stage, payloads)
<1>6. IsRun(run, n)
  BY <1>4, <1>5
<1> HIDE DEF run
<1>7. /\ run[0] = stage
      /\ \A i \in 1..n : run[i] = Advance(run[i - 1], payloads[i])
  BY <1>6, <1>0
<1> DEFINE Typed == {i \in 0..n : run[i] \in Reached}
<1>8. \A i \in 0..n : i \in Typed
  <2>1. 0 \in Typed
    BY <1>7, <1>0 DEF Reached
  <2>2. \A i \in 1..n : i - 1 \in Typed => i \in Typed
    BY <1>7, <1>0, AdvanceType
  <2> HIDE DEF Typed
  <2> QED
    BY <2>1, <2>2, <1>0, CountUp
<1>9. run \in [0..n -> Reached]
  BY <1>6, <1>8
<1> QED
  BY <1>7, <1>9 DEF run

LEMMA HandledTypes ==
  ASSUME NEW stage \in Stages, NEW d \in Inputs
  PROVE  /\ Handled[stage][d].stage \in Reached
         /\ Payloads(d) = <<>> => Handled[stage][d].stage = stage
<1> DEFINE payloads == Payloads(d)
           run == Run(stage, payloads)
<1>1. payloads \in Seq(Frames)
  BY PayloadTypes
<1>2. Handled[stage][d].stage = run[Len(payloads)]
  BY DEF Handled
<1>3. run \in [0..Len(payloads) -> Reached] /\ run[0] = stage
  BY <1>1, RunIsDefined
<1> HIDE DEF run, payloads
<1>4. Len(payloads) \in 0..Len(payloads)
  BY <1>1
<1>5. payloads = <<>> => Len(payloads) = 0
  OBVIOUS
<1> QED
  BY <1>2, <1>3, <1>4, <1>5 DEF payloads

\* What one payload, or two, make of a stage.
LEMMA HandledNone ==
  ASSUME NEW stage \in Stages, NEW d \in Inputs, Payloads(d) = <<>>
  PROVE  Handled[stage][d] = [stage |-> stage, out |-> {}]
<1> DEFINE after == Run(stage, Payloads(d))
           moves == {i \in 1..Len(Payloads(d)) : after[i] # after[i - 1]}
<1>1. after[0] = stage /\ Len(Payloads(d)) = 0
  BY RunIsDefined, PayloadTypes
<1>2. Handled[stage][d] = [stage |-> after[Len(Payloads(d))],
                           out |-> UNION {Replies[after[i]] : i \in moves}]
  BY DEF Handled
<1> HIDE DEF after
<1>3. moves = {}
  BY <1>1
<1> QED
  BY <1>1, <1>2, <1>3

LEMMA HandledOne ==
  ASSUME NEW stage \in Stages, NEW d \in Inputs, NEW f, Payloads(d) = <<f>>
  PROVE  /\ Handled[stage][d].stage = Advance(stage, f)
         /\ Handled[stage][d].out = IF Advance(stage, f) = stage THEN {}
                                    ELSE Replies[Advance(stage, f)]
<1> DEFINE after == Run(stage, Payloads(d))
           moves == {i \in 1..Len(Payloads(d)) : after[i] # after[i - 1]}
<1>1. Payloads(d) \in Seq(Frames) /\ Len(Payloads(d)) = 1 /\ Payloads(d)[1] = f
  BY PayloadTypes
<1>2. after[0] = stage /\ after[1] = Advance(stage, f)
  <2>1. /\ after[0] = stage
        /\ \A i \in 1..1 : after[i] = Advance(after[i - 1], Payloads(d)[i])
    BY <1>1, RunIsDefined
  <2> HIDE DEF after
  <2>2. after[1] = Advance(after[1 - 1], Payloads(d)[1])
    BY <2>1
  <2> QED
    BY <1>1, <2>1, <2>2
<1>3. Handled[stage][d] = [stage |-> after[Len(Payloads(d))],
                           out |-> UNION {Replies[after[i]] : i \in moves}]
  BY DEF Handled
<1> HIDE DEF after
<1>4. moves = IF Advance(stage, f) = stage THEN {} ELSE {1}
  BY <1>1, <1>2
<1>5. Handled[stage][d].stage = Advance(stage, f)
  BY <1>1, <1>2, <1>3
<1>6. Handled[stage][d].out = UNION {Replies[after[i]] : i \in moves}
  BY <1>3
<1> HIDE DEF moves
<1> QED
  BY <1>2, <1>4, <1>5, <1>6

LEMMA HandledTwo ==
  ASSUME NEW stage \in Stages, NEW d \in Inputs, NEW f, NEW g, Payloads(d) = <<f, g>>
  PROVE  LET one == Advance(stage, f)
             two == Advance(one, g)
         IN  /\ Handled[stage][d].stage = two
             /\ Handled[stage][d].out =
                  (IF one = stage THEN {} ELSE Replies[one]) \cup
                  (IF two = one THEN {} ELSE Replies[two])
<1> DEFINE one == Advance(stage, f)
           two == Advance(one, g)
           after == Run(stage, Payloads(d))
           moves == {i \in 1..Len(Payloads(d)) : after[i] # after[i - 1]}
<1>0. Payloads(d) \in Seq(Frames)
  BY PayloadTypes
<1>1. /\ Len(Payloads(d)) = 2
      /\ Payloads(d)[1] = f /\ Payloads(d)[2] = g
  OBVIOUS
<1>2. after[0] = stage /\ after[1] = one /\ after[2] = two
  <2>1. /\ after[0] = stage
        /\ \A i \in 1..2 : after[i] = Advance(after[i - 1], Payloads(d)[i])
    BY <1>0, <1>1, RunIsDefined
  <2> HIDE DEF after
  <2>2. /\ after[1] = Advance(after[1 - 1], Payloads(d)[1])
        /\ after[2] = Advance(after[2 - 1], Payloads(d)[2])
    BY <2>1
  <2>3. after[1] = one
    BY <1>1, <2>1, <2>2
  <2> QED
    BY <1>1, <2>1, <2>2, <2>3
<1>3. Handled[stage][d] = [stage |-> after[Len(Payloads(d))],
                           out |-> UNION {Replies[after[i]] : i \in moves}]
  BY DEF Handled
<1> HIDE DEF after, one, two
<1>4. moves = (IF one = stage THEN {} ELSE {1}) \cup (IF two = one THEN {} ELSE {2})
  BY <1>1, <1>2
<1>5. Handled[stage][d].stage = two
  BY <1>1, <1>2, <1>3
<1>6. Handled[stage][d].out = UNION {Replies[after[i]] : i \in moves}
  BY <1>3
<1> HIDE DEF moves
<1>7. Handled[stage][d].out = (IF one = stage THEN {} ELSE Replies[one]) \cup
                              (IF two = one THEN {} ELSE Replies[two])
  BY <1>2, <1>4, <1>6
<1> QED
  BY <1>5, <1>7 DEF one, two

-----------------------------------------------------------------------------
(* The tracker                                                               *)

Splits == {NoSplit} \cup [id : Nat, count : 1..MAX_TRACKED_LOGIN_FRAGMENTS,
                          seen : SUBSET Nat]
Sessions == [stage : Stages, age : 0..FAKE_SESSION_IDLE_TIMEOUT, split : Splits]

\* What is counted of a packet has come: each index is one of its fragments, and
\* no fragment of another packet is counted.
SeenCame(split, came) ==
  split # NoSplit =>
    /\ split.seen \subseteq 0..(split.count - 1)
    /\ \A i \in split.seen : Fragment(split.id, split.count, i) \in came

\* A record of a split packet has more fields than that of none.
LEMMA NoSplitIsNone ==
  ASSUME NEW id, NEW count, NEW seen
  PROVE  [id |-> id, count |-> count, seen |-> seen] # NoSplit
<1> DEFINE split == [id |-> id, count |-> count, seen |-> seen]
<1>1. "id" \in DOMAIN split /\ "id" \notin DOMAIN NoSplit
  BY DEF NoSplit
<1> QED
  BY <1>1

LEMMA NothingSeen ==
  ASSUME NEW came
  PROVE  NoSplit \in Splits /\ SeenCame(NoSplit, came)
BY DEF Splits, SeenCame

\* record_fragment: what it keeps, and what a fragment that counts makes of it.
LEMMA TrackFits ==
  ASSUME NEW split \in Splits, NEW f \in Fragments, NEW came, NEW more,
         SeenCame(split, came), came \subseteq more,
         Valid(split, f) => f \in more
  PROVE  /\ Track(split, f) \in Splits
         /\ SeenCame(Track(split, f), more)
         /\ Valid(split, f) => /\ Track(split, f) # NoSplit
                              /\ Track(split, f).id = f.id
                              /\ Track(split, f).count = f.count
<1> USE LimitAssumption
<1>0. f.id \in Nat /\ f.count \in Nat /\ f.index \in Nat
      /\ f = Fragment(f.id, f.count, f.index)
  BY DEF Fragments, Fragment
<1>1. CASE Valid(split, f)
  <2> DEFINE old == IF SameSplit(split, f) THEN split.seen ELSE {}
             new == [id |-> f.id, count |-> f.count, seen |-> {f.index} \cup old]
  <2>1. Track(split, f) = new
    BY <1>1 DEF Track
  <2>2. f.count \in 1..MAX_TRACKED_LOGIN_FRAGMENTS /\ f.index \in 0..(f.count - 1)
    BY <1>0, <1>1 DEF Valid, Consistent
  <2>3. SameSplit(split, f) =>
          /\ split.id = f.id /\ split.count = f.count
          /\ split.seen \subseteq 0..(f.count - 1)
          /\ \A i \in split.seen : Fragment(f.id, f.count, i) \in more
    BY <1>1 DEF Valid, Consistent, SameSplit, SeenCame
  <2>4. old \subseteq 0..(f.count - 1)
        /\ \A i \in old : Fragment(f.id, f.count, i) \in more
    BY <2>3
  <2>5. Fragment(f.id, f.count, f.index) \in more
    BY <1>0, <1>1
  <2>6. new # NoSplit
    BY NoSplitIsNone
  <2> HIDE DEF old
  <2>7. new \in Splits
    <3>1. {f.index} \cup old \in SUBSET Nat
      <4>1. f.index \in Nat /\ \A i \in old : i \in Nat
        BY <1>0, <2>4
      <4> QED
        BY <4>1
    <3> QED
      BY <1>0, <2>2, <3>1 DEF Splits
  <2>8. new.id = f.id /\ new.count = f.count /\ new.seen = {f.index} \cup old
    OBVIOUS
  <2> HIDE DEF new
  <2>9. SeenCame(new, more)
    <3>1. new.seen \subseteq 0..(new.count - 1)
      BY <2>2, <2>4, <2>8
    <3>2. \A i \in new.seen : Fragment(new.id, new.count, i) \in more
      BY <2>4, <2>5, <2>8
    <3> QED
      BY <3>1, <3>2 DEF SeenCame
  <2> QED
    BY <2>1, <2>6, <2>7, <2>8, <2>9
<1>2. CASE ~ Valid(split, f)
  <2>1. Track(split, f) \in {split, NoSplit}
    BY <1>2 DEF Track
  <2>2. SeenCame(split, more)
    BY DEF SeenCame
  <2> QED
    BY <1>2, <2>1, <2>2, NothingSeen
<1> QED
  BY <1>1, <1>2

\* Fragments that make no sense never count.
LEMMA MalformedIsInvalid ==
  ASSUME NEW f \in Malformed, NEW split
  PROVE  ~ Valid(split, f)
<1>1. f.count \in Nat /\ f.index \in Nat
  BY FragmentAssumption DEF Fragments
<1> QED
  BY <1>1, FragmentAssumption, LimitAssumption DEF Valid, Consistent

\* As many indices as there are fragments are all of them.
LEMMA CompleteHasAll ==
  ASSUME NEW split \in Splits, split # NoSplit, NEW came,
         SeenCame(split, came), Complete(split)
  PROVE  \A i \in 0..(split.count - 1) : Fragment(split.id, split.count, i) \in came
<1> DEFINE all == 0..(split.count - 1)
<1>1. split.count \in Nat \ {0}
  BY LimitAssumption DEF Splits
<1>2. IsFiniteSet(all) /\ Cardinality(all) = split.count
  <2> DEFINE last == split.count - 1
  <2>1. 0 \in Int /\ last \in Int
    BY <1>1
  <2> HIDE DEF last
  <2>2. /\ IsFiniteSet(0..last)
        /\ Cardinality(0..last) = IF 0 > last THEN 0 ELSE last - 0 + 1
    BY <2>1, FS_Interval
  <2> USE DEF last
  <2> QED
    BY <1>1, <2>2
<1>3. split.seen \in SUBSET all
  BY DEF SeenCame
<1> HIDE DEF all
<1>4. /\ IsFiniteSet(split.seen)
      /\ Cardinality(split.seen) <= Cardinality(all)
      /\ Cardinality(all) = Cardinality(split.seen) => all = split.seen
  BY <1>2, <1>3, FS_Subset
<1>5. Cardinality(split.seen) \in Nat /\ Cardinality(split.seen) >= split.count
  BY <1>4, FS_CardinalityType DEF Complete
<1>6. split.seen = all
  BY <1>1, <1>2, <1>4, <1>5
<1> QED
  BY <1>6 DEF SeenCame, all

-----------------------------------------------------------------------------
(* What a datagram makes of a session                                        *)

\* An effect leaves the split and refreshes the session, or is that of a
\* fragment.
LEMMA EffectCases ==
  ASSUME NEW s \in Sessions, NEW d \in Inputs
  PROVE  \/ /\ Effect(s, d).split = s.split /\ Effect(s, d).age = 0
            /\ Effect(s, d).stage \in Reached
            /\ Payloads(d) = <<>> => Effect(s, d).stage = s.stage
            /\ ~ (d.open = "no" /\ AtFragment(s, d))
         \/ /\ d.open = "no" /\ s.stage = "login"
            /\ Payloads(d) = <<>> /\ d.frames[1] \in Fragments
            /\ Effect(s, d) = FragmentEffect(s, d.frames[1])
<1>0. s.stage \in Stages /\ d.open \in {"open1", "open2", "no"}
  BY InputTypes DEF Sessions
<1>1. CASE d.open = "open1"
  <2>1. Effect(s, d) = Refreshed(s, s.stage, {"reply1"})
    BY <1>1 DEF Effect
  <2> QED
    BY <1>0, <1>1, <2>1 DEF Refreshed, Reached
<1>2. CASE d.open = "open2"
  <2>1. Effect(s, d) = Refreshed(s, s.stage, {"reply2"})
    BY <1>2 DEF Effect
  <2> QED
    BY <1>0, <1>2, <2>1 DEF Refreshed, Reached
<1>3. CASE d.open = "no" /\ AtFragment(s, d)
  <2>1. Effect(s, d) = FragmentEffect(s, d.frames[1])
    BY <1>3 DEF Effect
  <2> QED
    BY <1>3, <2>1, PayloadTypes DEF AtFragment
<1>4. CASE d.open = "no" /\ ~ AtFragment(s, d)
  <2> DEFINE h == Handled[s.stage][d]
  <2>1. Effect(s, d) = Refreshed(s, h.stage, h.out)
    BY <1>4 DEF Effect
  <2>2. h.stage \in Reached /\ (Payloads(d) = <<>> => h.stage = s.stage)
    BY <1>0, HandledTypes
  <2> HIDE DEF h
  <2>3. /\ Effect(s, d).split = s.split /\ Effect(s, d).age = 0
        /\ Effect(s, d).stage = h.stage
    BY <2>1 DEF Refreshed
  <2> QED
    BY <1>4, <2>2, <2>3
<1> QED
  BY <1>0, <1>1, <1>2, <1>3, <1>4

LEMMA FragmentEffectTypes ==
  ASSUME NEW s \in Sessions, NEW f \in Fragments
  PROVE  /\ FragmentEffect(s, f).stage \in {s.stage, "done"}
         /\ FragmentEffect(s, f).split = Track(s.split, f)
         /\ FragmentEffect(s, f).age = IF Valid(s.split, f) THEN 0 ELSE s.age
         /\ FragmentEffect(s, f).stage = "done" /\ s.stage # "done" =>
              Valid(s.split, f) /\ Complete(Track(s.split, f))
BY DEF FragmentEffect, AgeAfter

-----------------------------------------------------------------------------
(* The invariant                                                             *)

SplitInv ==
  /\ TypeOK
  /\ session # NoSession => SeenCame(session.split, got)

\* A session is never taken for none.
LEMMA SessionsExist ==
  ASSUME NEW s \in Sessions
  PROVE  s # NoSession
<1>1. "age" \in DOMAIN s /\ "age" \notin DOMAIN NoSession
  BY DEF Sessions, NoSession
<1> QED
  BY <1>1

LEMMA SessionTypes == TypeOK => session \in {NoSession} \cup Sessions
BY DEF TypeOK, Sessions, Splits

LEMMA SessionStays == session' \in {NoSession} \cup Sessions /\ got' \subseteq Fragments
                     /\ TypeOK /\ step' = step /\ sent' \subseteq sent
                     /\ down' \subseteq down \cup Wanted[step]
                     /\ hitches' \subseteq Hitches => TypeOK'
<1> SUFFICES ASSUME session' \in {NoSession} \cup Sessions, got' \subseteq Fragments,
                    TypeOK, step' = step, sent' \subseteq sent,
                    down' \subseteq down \cup Wanted[step], hitches' \subseteq Hitches
             PROVE  TypeOK'
  OBVIOUS
<1>1. Wanted[step] \subseteq Wanted.open1
  BY DEF TypeOK, Wanted
<1>2. down' \subseteq Wanted.open1 /\ sent' \subseteq DOMAIN Sends /\ step' \in DOMAIN Wanted
  BY <1>1 DEF TypeOK
<1> QED
  BY <1>2 DEF TypeOK, Sessions, Splits

\* The session a datagram meets, and what came to it.
LEMMA CurrentFits ==
  ASSUME SplitInv
  PROVE  /\ Current \in Sessions
         /\ Live # NoSession => Live = session /\ Current = session
         /\ Live = NoSession => Current.stage = "request" /\ Current.split = NoSplit
         /\ SeenCame(Current.split, IF Live = NoSession THEN {} ELSE got)
<1>1. New \in Sessions /\ New.stage = "request" /\ New.split = NoSplit
  BY LimitAssumption DEF New, Sessions, Stages, Splits
<1>2. Live \in {NoSession, session}
  BY DEF Live
<1>3. CASE Live = NoSession
  <2>1. Current = New
    BY <1>3 DEF Current
  <2> QED
    BY <1>1, <1>3, <2>1, NothingSeen
<1>4. CASE Live # NoSession
  <2>1. Live = session /\ Current = session
    BY <1>2, <1>4 DEF Current
  <2> QED
    BY <1>4, <2>1, SessionTypes DEF SplitInv
<1> QED
  BY <1>3, <1>4

\* The fragments a datagram of the client brings while Login is awaited.
News(d) == IF Current.stage = "login" /\ d \in Datagrams
           THEN {f \in ToSet(d.frames) : f.kind = "fragment"} ELSE {}

LEMMA NewsTypes ==
  ASSUME NEW d \in Inputs
  PROVE  /\ News(d) \subseteq Fragments
         /\ Current.stage = "login" /\ d \in Datagrams /\ d.open = "no"
               /\ d.frames[1].kind = "fragment"
             => d.frames[1] \in News(d)
<1>1. d.frames \in Seq(Frames) /\ (d.open = "no" => d.frames # <<>>)
  BY InputTypes
<1>2. ToSet(d.frames) = {d.frames[i] : i \in DOMAIN d.frames}
  BY DEF ToSet
<1>3. ToSet(d.frames) \subseteq Frames
  BY <1>1, <1>2
<1>4. d.open = "no" => 1 \in DOMAIN d.frames
  BY <1>1
<1> QED
  BY <1>2, <1>3, <1>4, FrameKinds DEF News

LEMMA HandleKeeps ==
  ASSUME SplitInv, NEW d \in Inputs, Handle(d),
         d \in Datagrams \/ \E f \in Malformed : d = Single(f)
  PROVE  /\ session' \in {NoSession} \cup Sessions
         /\ got' \subseteq Fragments
         /\ down' \subseteq down \cup Wanted[step]
         /\ session' # NoSession => SeenCame(session'.split, got')
<1> DEFINE s == Current
           e == Effect(s, d)
           came == IF Live = NoSession THEN {} ELSE got
<1>0. /\ s \in Sessions /\ SeenCame(s.split, came)
      /\ Live = NoSession => s.stage = "request"
  BY CurrentFits
<1>1. /\ session' = IF e.stage = "done" THEN NoSession
                    ELSE [stage |-> e.stage, split |-> e.split, age |-> e.age]
      /\ down' \subseteq down \cup Wanted[step]
      /\ got' = IF e.stage = "done" THEN {} ELSE came \cup News(d)
  BY <1>0 DEF Handle, News
<1>2. News(d) \subseteq Fragments /\ came \subseteq Fragments
  BY NewsTypes DEF SplitInv, TypeOK
<1> HIDE DEF s, came
<1>3. e.stage \in Reached /\ e.split \in Splits /\ e.age \in 0..FAKE_SESSION_IDLE_TIMEOUT
      /\ SeenCame(e.split, came \cup News(d))
  <2>1. CASE /\ e.split = s.split /\ e.age = 0 /\ e.stage \in Reached
    <3>1. s.split \in Splits /\ SeenCame(s.split, came \cup News(d))
      BY <1>0 DEF Sessions, SeenCame
    <3> QED
      BY <2>1, <3>1, LimitAssumption
  <2>2. CASE /\ d.open = "no" /\ s.stage = "login"
            /\ Payloads(d) = <<>> /\ d.frames[1] \in Fragments
            /\ e = FragmentEffect(s, d.frames[1])
    <3> DEFINE f == d.frames[1]
    <3>1. Valid(s.split, f) => f \in came \cup News(d)
      <4>1. CASE d \in Datagrams
        BY <2>2, <4>1, NewsTypes, FrameKinds DEF s
      <4>2. CASE \E m \in Malformed : d = Single(m)
        <5>1. f \in Malformed
          BY <4>2 DEF Single, Datagram
        <5> QED
          BY <5>1, MalformedIsInvalid
      <4> QED
        BY <4>1, <4>2
    <3>2. s.split \in Splits /\ s.stage \in Stages
          /\ s.age \in 0..FAKE_SESSION_IDLE_TIMEOUT
      BY <1>0 DEF Sessions
    <3> HIDE DEF f
    <3>3. /\ Track(s.split, f) \in Splits
          /\ SeenCame(Track(s.split, f), came \cup News(d))
      <4>1. f \in Fragments
        BY <2>2 DEF f
      <4>2. came \subseteq came \cup News(d)
        OBVIOUS
      <4> QED
        BY <1>0, <3>1, <3>2, <4>1, <4>2, TrackFits
    <3>4. /\ e.stage \in {s.stage, "done"} /\ e.split = Track(s.split, f)
          /\ e.age \in {0, s.age}
      BY <1>0, <2>2, FragmentEffectTypes DEF f
    <3> QED
      BY <3>2, <3>3, <3>4, LimitAssumption DEF Reached
  <2> QED
    BY <1>0, <2>1, <2>2, EffectCases
<1> HIDE DEF e
<1>4. CASE e.stage = "done"
  BY <1>1, <1>4
<1>5. CASE e.stage # "done"
  <2>1. session' = [stage |-> e.stage, split |-> e.split, age |-> e.age]
        /\ got' = came \cup News(d)
    BY <1>1, <1>5
  <2>2. session' \in Sessions /\ session'.split = e.split
    BY <1>3, <1>5, <2>1 DEF Sessions, Reached
  <2> QED
    BY <1>1, <1>2, <1>3, <2>1, <2>2
<1> QED
  BY <1>4, <1>5

LEMMA SplitStarts == Init => SplitInv
BY DEF Init, SplitInv, TypeOK, Sends, Wanted

LEMMA ReceiveKeeps ==
  ASSUME SplitInv, NEW s \in sent, NEW d \in Sends[s], Receive(d)
  PROVE  SplitInv'
<1>1. d \in Datagrams /\ d \in Inputs
  BY DEF SplitInv, TypeOK, Datagrams, Inputs
<1>2. step' = step /\ sent' \subseteq sent /\ hitches' \subseteq Hitches
  BY DEF Receive, SplitInv, TypeOK
<1>3. CASE Known(d)
  <2>1. Handle(d)
    BY <1>3 DEF Receive
  <2> QED
    BY <1>1, <1>2, <2>1, HandleKeeps, SessionStays DEF SplitInv
<1>4. CASE ~ Known(d)
  <2>1. session' = NoSession /\ got' = {} /\ down' = down
    BY <1>4 DEF Receive, Ignore, Known
  <2> QED
    BY <1>2, <2>1, SessionStays DEF SplitInv
<1> QED
  BY <1>3, <1>4

LEMMA MalformedKeeps ==
  ASSUME SplitInv, NEW f \in Malformed, ReceiveMalformed(f)
  PROVE  SplitInv'
<1>1. Single(f) \in Inputs
  BY DEF Inputs
<1>2. step' = step /\ sent' = sent /\ hitches' \subseteq Hitches
  BY DEF ReceiveMalformed, SplitInv, TypeOK
<1> QED
  BY <1>1, <1>2, HandleKeeps, SessionStays DEF ReceiveMalformed, SplitInv

\* Time and the steps of the client and the network.
LEMMA OthersKeep ==
  ASSUME SplitInv,
         \/ \E r \in down : LoseReply(r)
         \/ Tick \/ Expire \/ Take \/ StartOver \/ Leave \/ Drain
         \/ UNCHANGED vars
  PROVE  SplitInv'
<1>0. TypeOK /\ (session # NoSession => SeenCame(session.split, got))
  BY DEF SplitInv
<1>1. CASE Tick
  <2> DEFINE aged == [session EXCEPT !.age = @ + 1]
  <2>1. session \in Sessions /\ session.age < FAKE_SESSION_IDLE_TIMEOUT
    BY <1>0, <1>1, SessionTypes DEF Tick
  <2>2. session' = aged /\ step' = step /\ sent' = sent /\ down' = down /\ got' = got
        /\ hitches' \subseteq Hitches
    BY <1>0, <1>1 DEF Tick, TypeOK
  <2>3. aged \in Sessions /\ aged.split = session.split
    BY <2>1, LimitAssumption DEF Sessions
  <2> HIDE DEF aged
  <2> QED
    BY <1>0, <1>1, <2>2, <2>3, SessionStays DEF SplitInv, Tick, TypeOK
<1>2. CASE Expire
  BY <1>0, <1>2, SessionStays DEF SplitInv, Expire, TypeOK
<1>3. CASE Take
  <2>1. step \in {"open1", "open2", "request", "settings", "login"}
    BY <1>3 DEF Take, Awaits
  <2>2. After[step] \in {"open2", "request", "settings", "login", "told"}
    BY <2>1 DEF After
  <2>3. After[step] \in DOMAIN Wanted /\ After[step] \in DOMAIN Sends
    BY <2>2 DEF Wanted, Sends
  <2> QED
    BY <1>0, <1>3, <2>3 DEF SplitInv, Take, TypeOK
<1>4. CASE StartOver
  BY <1>0, <1>4 DEF SplitInv, StartOver, TypeOK, Wanted
<1>5. CASE Leave
  BY <1>0, <1>5 DEF SplitInv, Leave, TypeOK, Wanted
<1>6. CASE Drain
  BY <1>0, <1>6 DEF SplitInv, Drain, TypeOK
<1>7. CASE \E r \in down : LoseReply(r)
  BY <1>0, <1>7 DEF SplitInv, LoseReply, TypeOK
<1>8. CASE UNCHANGED vars
  BY <1>0, <1>8 DEF SplitInv, vars, TypeOK
<1> QED
  BY <1>1, <1>2, <1>3, <1>4, <1>5, <1>6, <1>7, <1>8

LEMMA SplitStep == SplitInv /\ [Next]_vars => SplitInv'
BY ReceiveKeeps, MalformedKeeps, OthersKeep DEF Next

LEMMA SplitInductive == Spec => []SplitInv
BY SplitStarts, SplitStep, PTL DEF Spec

\* The handshake, the tracker and the client stay in their types: no counter of
\* a datagram is taken for more than MAX_TRACKED_LOGIN_FRAGMENTS.
THEOREM TypeCorrect == Spec => []TypeOK
<1>1. SplitInv => TypeOK
  BY DEF SplitInv
<1> QED
  BY <1>1, SplitInductive, PTL

-----------------------------------------------------------------------------
(* The Disconnect                                                            *)

LEMMA KickedByWhole ==
  ASSUME SplitInv, NEW d \in Datagrams, Receive(d), Live # NoSession,
         session' = NoSession, Payloads(d) = <<>>,
         NEW i \in 0..(d.frames[1].count - 1)
  PROVE  [d.frames[1] EXCEPT !.index = i] \in got \cup {d.frames[1]}
<1> DEFINE s == Current
           e == Effect(s, d)
           f == d.frames[1]
<1>0. s \in Sessions /\ SeenCame(s.split, got) /\ d \in Inputs
  BY CurrentFits DEF Inputs
<1>1. Handle(d)
  BY DEF Receive, Known
<1>2. e.stage = "done"
  <2>1. session' = IF e.stage = "done" THEN NoSession
                   ELSE [stage |-> e.stage, split |-> e.split, age |-> e.age]
    BY <1>1 DEF Handle
  <2>2. [stage |-> e.stage, split |-> e.split, age |-> e.age] # NoSession
    <3> DEFINE r == [stage |-> e.stage, split |-> e.split, age |-> e.age]
    <3>1. "age" \in DOMAIN r /\ "age" \notin DOMAIN NoSession
      BY DEF NoSession
    <3> QED
      BY <3>1
  <2> QED
    BY <2>1, <2>2
<1> HIDE DEF s
<1>3. s.stage # "done"
  BY <1>0 DEF Sessions, Stages
<1>4. f \in Fragments /\ e = FragmentEffect(s, f)
  BY <1>0, <1>2, <1>3, EffectCases
<1> HIDE DEF e, f
<1>5. Valid(s.split, f) /\ Complete(Track(s.split, f))
  BY <1>0, <1>2, <1>3, <1>4, FragmentEffectTypes
<1> DEFINE split == Track(s.split, f)
<1>6. /\ split \in Splits /\ split # NoSplit
      /\ split.id = f.id /\ split.count = f.count
      /\ SeenCame(split, got \cup {f})
  <2>1. s.split \in Splits
    BY <1>0 DEF Sessions
  <2>2. f \in got \cup {f} /\ got \subseteq got \cup {f}
    OBVIOUS
  <2> QED
    BY <1>0, <1>4, <1>5, <2>1, <2>2, TrackFits
<1> HIDE DEF split
<1>7. Fragment(f.id, f.count, i) \in got \cup {f}
  BY <1>5, <1>6, CompleteHasAll DEF f, split
<1>8. [f EXCEPT !.index = i] = Fragment(f.id, f.count, i)
  BY <1>4 DEF Fragments, Fragment
<1> QED
  BY <1>7, <1>8 DEF f

\* Fragments only lead to the Disconnect when all of their packet have come to
\* this session: neither repetitions nor fragments of other packets are counted.
THEOREM OnlyWholePacketsKick == Spec => KickNeedsAll
<1>1. SplitInv =>
        [\A d \in Datagrams :
           /\ Receive(d) /\ Live # NoSession /\ session' = NoSession
           /\ Payloads(d) = <<>>
           => \A i \in 0..(d.frames[1].count - 1) :
                [d.frames[1] EXCEPT !.index = i] \in got \cup {d.frames[1]}]_vars
  BY KickedByWhole
<1> QED
  BY <1>1, SplitInductive, PTL DEF KickNeedsAll

-----------------------------------------------------------------------------
(* What others rely on                                                       *)

LEMMA MalformedChangesNothing ==
  ASSUME SplitInv, NEW f \in Malformed, ReceiveMalformed(f)
  PROVE  /\ Live = session /\ session # NoSession /\ session' # NoSession
         /\ session'.stage = session.stage /\ session'.age = session.age
<1> DEFINE d == Single(f)
           e == Effect(session, d)
<1>1. Live = session /\ session # NoSession /\ Current = session
      /\ session \in Sessions /\ session.stage = "login" /\ d \in Inputs
  BY CurrentFits DEF ReceiveMalformed, Inputs, Live
<1>2. d.open = "no" /\ d.frames = <<f>> /\ f \in Fragments /\ f.kind = "fragment"
  BY FragmentAssumption, FrameKinds DEF Single, Datagram
<1>3. Payloads(d) = <<>>
  BY <1>2, PayloadsOfOne, FrameKinds
<1> HIDE DEF d
<1>4. e = FragmentEffect(session, f)
  BY <1>1, <1>2, <1>3 DEF Effect, AtFragment
<1>5. e.stage = session.stage /\ e.age = session.age
  <2>1. ~ Valid(session.split, f)
    BY MalformedIsInvalid
  <2> QED
    BY <1>4, <2>1 DEF FragmentEffect, AgeAfter
<1>6. session' = IF e.stage = "done" THEN NoSession
                 ELSE [stage |-> e.stage, split |-> e.split, age |-> e.age]
  BY <1>1 DEF ReceiveMalformed, Handle, d
<1> HIDE DEF e
<1>7. session' = [stage |-> e.stage, split |-> e.split, age |-> e.age]
  BY <1>1, <1>5, <1>6
<1>8. session' # NoSession
  <2>1. "age" \in DOMAIN session' /\ "age" \notin DOMAIN NoSession
    BY <1>7 DEF NoSession
  <2> QED
    BY <2>1
<1> QED
  BY <1>1, <1>5, <1>7, <1>8

\* Invalid fragment metadata (record_fragment returning None) neither ends a
\* handshake nor moves it nor refreshes it, so that its place among the
\* MAX_FAKE_SESSIONS becomes free as if nothing had come.
THEOREM NonsenseIsInert ==
  Spec => [][\A f \in Malformed : ReceiveMalformed(f) =>
               /\ session # NoSession /\ session' # NoSession
               /\ session'.stage = session.stage
               /\ session'.age = session.age]_vars
<1>1. SplitInv =>
        [\A f \in Malformed : ReceiveMalformed(f) =>
           /\ session # NoSession /\ session' # NoSession
           /\ session'.stage = session.stage
           /\ session'.age = session.age]_vars
  BY MalformedChangesNothing
<1> QED
  BY <1>1, SplitInductive, PTL

\* OfflineOutcomes of UdpRelay: the start of a handshake makes or refreshes one;
\* anything else is nobody's without one, and finishes one, refreshes it or
\* leaves its last activity as it was.
AsTheRelayHasIt(d) ==
  IF d.open # "no" THEN session' # NoSession /\ session'.age = 0
  ELSE IF Live = NoSession THEN session' = NoSession
  ELSE session' # NoSession => session'.age \in {0, Live.age}

LEMMA RelayHasItRight ==
  ASSUME SplitInv, NEW d \in Datagrams, Receive(d)
  PROVE  AsTheRelayHasIt(d)
<1> DEFINE s == Current
           e == Effect(s, d)
<1>0. s \in Sessions /\ d \in Inputs /\ d.open \in {"open1", "open2", "no"}
  BY CurrentFits, InputTypes DEF Inputs
<1>1. CASE ~ Known(d)
  BY <1>1 DEF Receive, Ignore, Known, AsTheRelayHasIt
<1>2. CASE Known(d)
  <2>1. session' = IF e.stage = "done" THEN NoSession
                   ELSE [stage |-> e.stage, split |-> e.split, age |-> e.age]
    BY <1>2 DEF Receive, Handle
  <2>2. CASE d.open # "no"
    <3>1. e.stage = s.stage /\ e.age = 0 /\ s.stage # "done"
      BY <1>0, <2>2 DEF Effect, Refreshed, Sessions, Stages
    <3> HIDE DEF e, s
    <3>2. session' = [stage |-> e.stage, split |-> e.split, age |-> e.age]
      BY <2>1, <3>1
    <3>3. "age" \in DOMAIN session' /\ "age" \notin DOMAIN NoSession
      BY <3>2 DEF NoSession
    <3> QED
      BY <2>2, <3>1, <3>2, <3>3 DEF AsTheRelayHasIt
  <2>3. CASE d.open = "no"
    <3>1. Live # NoSession /\ s = Live
      BY <1>2, <2>3 DEF Known, Current
    <3> HIDE DEF s
    <3>2. e.age \in {0, s.age}
      <4>1. \A f \in Fragments : FragmentEffect(s, f).age \in {0, s.age}
        BY <1>0, FragmentEffectTypes
      <4> QED
        BY <1>0, <4>1, EffectCases
    <3> HIDE DEF e
    <3> QED
      BY <2>1, <2>3, <3>1, <3>2 DEF AsTheRelayHasIt
  <2> QED
    BY <2>2, <2>3
<1> QED
  BY <1>1, <1>2

\* The relay needs to know no more of a handshake than what UdpRelay says.
THEOREM HandshakeIsAbstracted ==
  Spec => [][\A d \in Datagrams : Receive(d) => AsTheRelayHasIt(d)]_vars
<1>1. SplitInv => [\A d \in Datagrams : Receive(d) => AsTheRelayHasIt(d)]_vars
  BY RelayHasItRight
<1> QED
  BY <1>1, SplitInductive, PTL

-----------------------------------------------------------------------------
(* The answers                                                               *)

\* Every reply there is, and the stage and step that it belongs to.
Answered(x, from, to, out) ==
  \/ x = "open1" /\ to = from /\ out = {"reply1"}
  \/ x = "open2" /\ to = from /\ out = {"reply2"}
  \/ to = from /\ out = {}
  \/ x = "request" /\ from = "request" /\ to = "incoming" /\ out = {"accepted"}
  \/ x = "settings" /\ from = "incoming" /\ to = "settings" /\ out = {}
  \/ x = "settings" /\ from \in {"incoming", "settings"} /\ to = "login"
       /\ out = {"network"}
  \/ from = "login" /\ to = "done" /\ out = {"disconnect"}

LEMMA HandledAnswers ==
  ASSUME NEW stage \in Stages, NEW x \in DOMAIN Sends, NEW d \in Sends[x],
         d.open = "no", stage = "login" => Payloads(d) # <<>>
  PROVE  Answered(x, stage, Handled[stage][d].stage, Handled[stage][d].out)
<1> DEFINE h == Handled[stage][d]
<1>0. d \in Inputs
  BY DEF Inputs, Datagrams
<1>1. ASSUME NEW f \in Fragments, d = Single(f) PROVE Answered(x, stage, h.stage, h.out)
  <2>1. Payloads(d) = <<>>
    BY <1>1, PayloadsOfOne, FrameKinds
  <2>2. h = [stage |-> stage, out |-> {}]
    BY <1>0, <2>1, HandledNone
  <2> HIDE DEF h
  <2>3. h.stage = stage /\ h.out = {}
    BY <2>2
  <2> QED
    BY <2>3 DEF Answered
<1>2. ASSUME NEW k \in Kinds, d = Single(Payload(k))
      PROVE  /\ h.stage = Advance(stage, Payload(k))
             /\ h.out = IF Advance(stage, Payload(k)) = stage THEN {}
                        ELSE Replies[Advance(stage, Payload(k))]
  <2>1. Payload(k).kind # "fragment"
    BY DEF Payload, Kinds
  <2>2. Payloads(d) = <<Payload(k)>>
    BY <1>2, <2>1, PayloadsOfOne, FrameKinds
  <2> QED
    BY <1>0, <2>2, HandledOne
<1>3. CASE x \in {"open1", "open2", "told", "gone"}
  BY <1>3 DEF Sends, Open
<1>4. CASE x = "request"
  <2>1. d = Single(Payload("request"))
    BY <1>4 DEF Sends
  <2>2. "request" \in Kinds
    BY DEF Kinds
  <2> QED
    BY <1>2, <1>4, <2>1, <2>2 DEF Advance, Payload, Replies, Answered, Stages
<1>5. CASE x = "settings"
  <2>1. \/ d = Single(Payload("incoming")) \/ d = Single(Payload("settings"))
        \/ d = Datagram(<<Payload("incoming"), Payload("settings")>>)
    BY <1>5 DEF Sends
  <2>2. CASE d = Single(Payload("incoming"))
    <3>1. "incoming" \in Kinds
      BY DEF Kinds
    <3> QED
      BY <1>2, <1>5, <2>2, <3>1 DEF Advance, Payload, Replies, Answered, Stages
  <2>3. CASE d = Single(Payload("settings"))
    <3>1. "settings" \in Kinds
      BY DEF Kinds
    <3> QED
      BY <1>2, <1>5, <2>3, <3>1 DEF Advance, Payload, Replies, Answered, Stages
  <2>4. CASE d = Datagram(<<Payload("incoming"), Payload("settings")>>)
    <3> DEFINE f == Payload("incoming")
               g == Payload("settings")
               one == Advance(stage, f)
               two == Advance(one, g)
    <3>1. f \in Frames /\ g \in Frames /\ f.kind = "incoming" /\ g.kind = "settings"
      BY FrameKinds DEF Kinds, Payload
    <3>2. Payloads(d) = <<f, g>>
      <4> HIDE DEF f, g
      <4> QED
        BY <2>4, <3>1, PayloadsOfTwo DEF f, g
    <3>3. /\ h.stage = two
          /\ h.out = (IF one = stage THEN {} ELSE Replies[one]) \cup
                     (IF two = one THEN {} ELSE Replies[two])
      BY <1>0, <3>2, HandledTwo
    <3>4. /\ one = CASE stage = "incoming" -> "settings" [] stage = "login" -> "done"
                      [] OTHER -> stage
          /\ two = CASE stage \in {"incoming", "settings"} -> "login"
                      [] stage = "login" -> "done" [] OTHER -> stage
      <4> HIDE DEF f, g
      <4>1. stage \in {"request", "incoming", "settings", "login"}
        BY DEF Stages
      <4> QED
        BY <3>1, <4>1 DEF Advance
    <3> HIDE DEF one, two, h
    <3>5. CASE stage = "request"
      <4>1. h.stage = stage /\ h.out = {}
        BY <3>3, <3>4, <3>5
      <4> QED
        BY <4>1 DEF Answered, h
    <3>6. CASE stage = "incoming"
      <4>1. h.stage = "login" /\ h.out = {"network"}
        BY <3>3, <3>4, <3>6 DEF Replies
      <4> QED
        BY <1>5, <3>6, <4>1 DEF Answered, h
    <3>7. CASE stage = "settings"
      <4>1. h.stage = "login" /\ h.out = {"network"}
        BY <3>3, <3>4, <3>7 DEF Replies
      <4> QED
        BY <1>5, <3>7, <4>1 DEF Answered, h
    <3>8. CASE stage = "login"
      <4>1. h.stage = "done" /\ h.out = {"disconnect"}
        BY <3>3, <3>4, <3>8 DEF Replies
      <4> QED
        BY <1>5, <3>8, <4>1 DEF Answered, h
    <3> QED
      BY <3>5, <3>6, <3>7, <3>8 DEF Stages, h
  <2> QED
    BY <2>1, <2>2, <2>3, <2>4
<1>6. CASE x = "login"
  <2>1. CASE \E i \in 0..(LoginFragments - 1) : d = Single(Fragment(0, LoginFragments, i))
    BY <1>1, <2>1, LoginIsFragments
  <2>2. CASE d = Datagram(<<Payload("ping"), Fragment(0, LoginFragments, 0)>>)
    <3> DEFINE f == Payload("ping")
               g == Fragment(0, LoginFragments, 0)
    <3>1. f \in Frames /\ f.kind = "ping"
      BY FrameKinds DEF Kinds, Payload
    <3>2. g \in Frames /\ g.kind = "fragment"
      BY LoginIsFragments, FrameKinds, LimitAssumption
    <3> HIDE DEF f, g
    <3>3. Payloads(d) = <<f>>
      BY <2>2, <3>1, <3>2, PayloadsOfTwo DEF f, g
    <3>4. Advance(stage, f) = stage
      BY <3>1 DEF Advance
    <3> QED
      BY <1>0, <3>3, <3>4, HandledOne DEF Answered
  <2> QED
    BY <1>6, <2>1, <2>2 DEF Sends
<1>7. CASE x = "stale"
  BY <1>1, <1>7, FragmentAssumption DEF Sends
<1> QED
  BY <1>3, <1>4, <1>5, <1>6, <1>7 DEF Sends

LEMMA EffectAnswers ==
  ASSUME NEW s \in Sessions, NEW x \in DOMAIN Sends, NEW d \in Sends[x]
  PROVE  /\ Answered(x, s.stage, Effect(s, d).stage, Effect(s, d).out)
         /\ Effect(s, d).age \in {0, s.age}
<1> DEFINE e == Effect(s, d)
<1>0. d \in Inputs /\ s.stage \in Stages
  BY DEF Inputs, Datagrams, Sessions
<1>1. CASE d.open \in {"open1", "open2"}
  <2>1. x = d.open
    <3>1. \A f : Single(f).open = "no"
      BY DEF Single, Datagram
    <3>2. \A f, g : Datagram(<<f, g>>).open = "no"
      BY DEF Datagram
    <3>3. Open("open1").open = "open1" /\ Open("open2").open = "open2"
      BY DEF Open
    <3> QED
      BY <1>1, <3>1, <3>2, <3>3 DEF Sends
  <2>2. e = Refreshed(s, s.stage, IF x = "open1" THEN {"reply1"} ELSE {"reply2"})
    BY <1>1, <2>1 DEF Effect
  <2> HIDE DEF e
  <2> QED
    BY <1>1, <2>1, <2>2 DEF Refreshed, Answered, e
<1>2. CASE d.open = "no" /\ AtFragment(s, d)
  <2> DEFINE f == d.frames[1]
  <2>1. e = FragmentEffect(s, f) /\ s.stage = "login"
    BY <1>2 DEF Effect, AtFragment
  <2> HIDE DEF f, e
  <2>2. /\ e.age \in {0, s.age}
        /\ \/ e.stage = "done" /\ e.out = {"disconnect"}
           \/ e.stage = s.stage /\ e.out = {}
    BY <2>1 DEF FragmentEffect, AgeAfter, Replies
  <2> QED
    BY <2>1, <2>2 DEF Answered, e
<1>3. CASE d.open = "no" /\ ~ AtFragment(s, d)
  <2> DEFINE h == Handled[s.stage][d]
  <2>1. e = Refreshed(s, h.stage, h.out)
    BY <1>3 DEF Effect
  <2>2. Answered(x, s.stage, h.stage, h.out)
    BY <1>0, <1>3, HandledAnswers DEF AtFragment
  <2> HIDE DEF h
  <2>3. e.stage = h.stage /\ e.out = h.out /\ e.age = 0
    BY <2>1 DEF Refreshed
  <2> QED
    BY <2>2, <2>3
<1> QED
  BY <1>0, <1>1, <1>2, <1>3, InputTypes

-----------------------------------------------------------------------------
(* Nobody is stranded                                                        *)

At(stages) == session # NoSession /\ session.stage \in stages
Kicked == At({"login"}) \/ "disconnect" \in down

\* What the network may still deliver and what may be on its way in a step.
Past == [open1    |-> {"stale", "open1"},
         open2    |-> {"stale", "open1", "open2"},
         request  |-> {"stale", "open1", "open2", "request"},
         settings |-> {"stale", "open1", "open2", "request", "settings"},
         login    |-> {"stale", "open1", "open2", "request", "settings", "login"}]
Due == [open1 |-> {"reply1"}, open2 |-> {"reply2"}, request |-> {"accepted"},
        settings |-> {"network", "disconnect"}, login |-> {"disconnect"}]

\* As long as no reply is lost and nobody starts over, the session is where the
\* client's next datagrams are answered, or the answer is on its way; and it
\* goes no further than the client has come, but for a Login that an old
\* datagram was taken for.
Together ==
  CASE step = "open1" -> IF "reply1" \in down THEN At({"request"})
                         ELSE session = NoSession \/ At({"request"})
    [] step = "open2" -> At({"request"})
    [] step = "request" -> IF "accepted" \in down THEN At({"incoming"})
                           ELSE At({"request"})
    [] step = "settings" -> IF "network" \in down THEN Kicked
                            ELSE At({"incoming", "settings"})
    [] step = "login" -> Kicked

InStep ==
  hitches = {} /\ step \in DOMAIN Awaits =>
    /\ session # NoSession => session.age < FAKE_SESSION_IDLE_TIMEOUT
    /\ sent \subseteq Past[step] /\ down \subseteq Due[step]
    /\ Together

LEMMA StepNames ==
  /\ DOMAIN Awaits = {"open1", "open2", "request", "settings", "login"}
  /\ DOMAIN Past = DOMAIN Awaits /\ DOMAIN Due = DOMAIN Awaits
BY DEF Awaits, Past, Due

LEMMA InStepStarts == Init => InStep
BY DEF Init, InStep, Together, Past, Due

\* A datagram leaves client and session together.
LEMMA AnswersKeepTogether ==
  ASSUME step \in DOMAIN Awaits, Together, down \subseteq Due[step],
         NEW x \in Past[step], NEW from, NEW to, NEW out, Answered(x, from, to, out),
         session # NoSession => from = session.stage,
         session = NoSession => from = "request" /\ x \in {"open1", "open2"},
         to = "done" => session' = NoSession,
         to # "done" => session' # NoSession /\ session'.stage = to,
         down' = down \cup (out \cap Wanted[step]), step' = step
  PROVE  Together' /\ down' \subseteq Due[step]
<1> USE DEF Answered, Together, At, Kicked
<1>1. CASE step = "open1"
  <2>1. /\ x \in {"stale", "open1"} /\ from = "request" /\ to = "request"
        /\ out \subseteq {"reply1"}
    BY <1>1 DEF Past
  <2>2. session' # NoSession /\ session'.stage = "request" /\ down' \subseteq {"reply1"}
    BY <2>1, <1>1 DEF Due
  <2> QED
    BY <1>1, <2>2 DEF Due
<1>2. CASE step = "open2"
  <2>1. /\ x \in {"stale", "open1", "open2"} /\ from = "request" /\ to = "request"
        /\ out \subseteq {"reply1", "reply2"}
    BY <1>2 DEF Past
  <2>2. session' # NoSession /\ session'.stage = "request" /\ down' \subseteq {"reply2"}
    BY <2>1, <1>2 DEF Due, Wanted
  <2> QED
    BY <1>2, <2>2 DEF Due
<1>3. CASE step = "request"
  <2>1. /\ x \in {"stale", "open1", "open2", "request"}
        /\ IF "accepted" \in down THEN from = "incoming" ELSE from = "request"
    BY <1>3 DEF Past
  <2>2. /\ down' \subseteq {"accepted"} /\ down \subseteq down'
        /\ "accepted" \in out => "accepted" \in down'
        /\ "accepted" \in down' => "accepted" \in down \/ "accepted" \in out
    BY <2>1, <1>3 DEF Due, Wanted
  <2>3. \/ to = from /\ "accepted" \notin out
        \/ from = "request" /\ to = "incoming" /\ "accepted" \in out
    BY <2>1
  <2>4. session' # NoSession /\ session'.stage = to
    BY <2>1, <2>3
  <2>5. IF "accepted" \in down' THEN session'.stage = "incoming"
                                ELSE session'.stage = "request"
    BY <2>1, <2>2, <2>3, <2>4
  <2> QED
    BY <1>3, <2>2, <2>4, <2>5 DEF Due
<1>4. CASE step = "settings"
  <2>1. /\ down' \subseteq {"network", "disconnect"} /\ down \subseteq down'
        /\ out \cap {"network", "disconnect"} \subseteq down'
        /\ "network" \in down' => "network" \in down \/ "network" \in out
    BY <1>4 DEF Due, Wanted
  <2>2. CASE "network" \in down
    <3>1. "disconnect" \in down \/ (session # NoSession /\ from = "login")
      BY <1>4, <2>2
    <3>2. "disconnect" \in down' \/ (session' # NoSession /\ session'.stage = "login")
      BY <2>1, <3>1
    <3> QED
      BY <1>4, <2>1, <2>2, <3>2 DEF Due
  <2>3. CASE "network" \notin down
    <3>1. from \in {"incoming", "settings"}
      BY <1>4, <2>3
    <3>2. \/ to \in {"incoming", "settings"} /\ "network" \notin out
          \/ to = "login" /\ "network" \in out
      BY <3>1
    <3>3. session' # NoSession /\ session'.stage = to
      BY <3>2
    <3>4. "network" \in down' <=> "network" \in out
      BY <2>1, <2>3
    <3> QED
      BY <1>4, <2>1, <3>2, <3>3, <3>4 DEF Due
  <2> QED
    BY <2>2, <2>3
<1>5. CASE step = "login"
  <2>1. /\ down' \subseteq {"disconnect"} /\ down \subseteq down'
        /\ "disconnect" \in out => "disconnect" \in down'
    BY <1>5 DEF Due, Wanted
  <2>2. "disconnect" \in down \/ (session # NoSession /\ from = "login")
    BY <1>5
  <2>3. "disconnect" \in down' \/ (session' # NoSession /\ session'.stage = "login")
    BY <2>1, <2>2
  <2> QED
    BY <1>5, <2>1, <2>3 DEF Due
<1> QED
  BY <1>1, <1>2, <1>3, <1>4, <1>5, StepNames

LEMMA ReceiveKeepsStep ==
  ASSUME SplitInv, InStep, NEW x \in sent, NEW d \in Sends[x], Receive(d)
  PROVE  InStep'
<1> SUFFICES ASSUME hitches = {}, step \in DOMAIN Awaits
             PROVE  /\ session' # NoSession => session'.age < FAKE_SESSION_IDLE_TIMEOUT
                    /\ sent' \subseteq Past[step] /\ down' \subseteq Due[step]
                    /\ Together'
  <2>1. hitches' = hitches /\ step' = step
    BY DEF Receive
  <2> QED
    BY <2>1 DEF InStep
<1> DEFINE s == Current
           e == Effect(s, d)
<1>1. /\ session # NoSession => session.age < FAKE_SESSION_IDLE_TIMEOUT
      /\ sent \subseteq Past[step] /\ down \subseteq Due[step] /\ Together
  BY DEF InStep
<1>2. sent' \subseteq sent /\ step' = step
  BY DEF Receive
<1>3. x \in DOMAIN Sends /\ x \in Past[step]
  BY <1>1 DEF SplitInv, TypeOK
<1>4. Live = session
  <2>1. session # NoSession => session.age \in Nat
    BY SessionTypes, LimitAssumption DEF SplitInv, Sessions
  <2> QED
    BY <1>1, <2>1, LimitAssumption DEF Live
<1>5. CASE ~ Known(d)
  <2>1. session = NoSession /\ session' = NoSession /\ down' = down
    BY <1>4, <1>5 DEF Receive, Ignore, Known
  <2>2. Together'
    BY <1>1, <1>2, <2>1 DEF Together, At, Kicked
  <2> QED
    BY <1>1, <1>2, <2>1, <2>2
<1>6. CASE Known(d)
  <2>1. /\ s \in Sessions
        /\ session # NoSession => s = session
        /\ session = NoSession => s = New
    BY <1>4, CurrentFits DEF Current
  <2>2. session = NoSession => x \in {"open1", "open2"}
    <3>1. \A f : Single(f).open = "no"
      BY DEF Single, Datagram
    <3>2. \A f, g : Datagram(<<f, g>>).open = "no"
      BY DEF Datagram
    <3>3. d.open = "no" \/ x \in {"open1", "open2"}
      BY <1>3, <3>1, <3>2 DEF Sends
    <3> QED
      BY <1>4, <1>6, <3>3 DEF Known
  <2> HIDE DEF s
  <2>3. Answered(x, s.stage, e.stage, e.out) /\ e.age \in {0, s.age}
    BY <1>3, <2>1, EffectAnswers
  <2>4. /\ session' = IF e.stage = "done" THEN NoSession
                      ELSE [stage |-> e.stage, split |-> e.split, age |-> e.age]
        /\ down' = down \cup (e.out \cap Wanted[step])
    BY <1>6 DEF Receive, Handle, s
  <2> HIDE DEF e
  <2>5. e.stage # "done" => /\ session' # NoSession /\ session'.stage = e.stage
                           /\ session'.age = e.age
    <3> DEFINE r == [stage |-> e.stage, split |-> e.split, age |-> e.age]
    <3>1. "age" \in DOMAIN r /\ "age" \notin DOMAIN NoSession
      BY DEF NoSession
    <3>2. r # NoSession /\ r.stage = e.stage /\ r.age = e.age
      BY <3>1
    <3> QED
      BY <2>4, <3>2
  <2>6. Together' /\ down' \subseteq Due[step]
    <3>1. session # NoSession => s.stage = session.stage
      BY <2>1
    <3>2. session = NoSession => s.stage = "request"
      BY <2>1 DEF New
    <3>3. e.stage = "done" => session' = NoSession
      BY <2>4
    <3>4. e.stage # "done" => session' # NoSession /\ session'.stage = e.stage
      BY <2>5
    <3> QED
      BY <1>1, <1>2, <1>3, <2>2, <2>3, <2>4, <3>1, <3>2, <3>3, <3>4,
         AnswersKeepTogether
  <2>7. session' # NoSession => session'.age < FAKE_SESSION_IDLE_TIMEOUT
    <3>1. s.age < FAKE_SESSION_IDLE_TIMEOUT /\ 0 < FAKE_SESSION_IDLE_TIMEOUT
      BY <1>1, <2>1, LimitAssumption DEF New
    <3> QED
      BY <2>3, <2>4, <2>5, <3>1
  <2> QED
    BY <1>1, <1>2, <2>6, <2>7
<1> QED
  BY <1>5, <1>6

LEMMA TakeKeepsStep ==
  ASSUME InStep, Take
  PROVE  InStep'
<1> SUFFICES ASSUME hitches = {}, step' \in DOMAIN Awaits
             PROVE  /\ session' # NoSession => session'.age < FAKE_SESSION_IDLE_TIMEOUT
                    /\ sent' \subseteq Past[step'] /\ down' \subseteq Due[step']
                    /\ Together'
  <2>1. hitches' = hitches
    BY DEF Take
  <2> QED
    BY <2>1 DEF InStep
<1>1. /\ session' = session /\ step' = After[step] /\ sent' = sent \cup {After[step]}
      /\ down' = down \ {Awaits[step]} /\ Awaits[step] \in down /\ step \in DOMAIN Awaits
  BY DEF Take
<1>2. /\ session # NoSession => session.age < FAKE_SESSION_IDLE_TIMEOUT
      /\ sent \subseteq Past[step] /\ down \subseteq Due[step] /\ Together
  BY <1>1 DEF InStep
<1> USE DEF Together, At, Kicked
<1>3. CASE step = "open1"
  BY <1>1, <1>2, <1>3 DEF Awaits, After, Past, Due
<1>4. CASE step = "open2"
  BY <1>1, <1>2, <1>4 DEF Awaits, After, Past, Due
<1>5. CASE step = "request"
  BY <1>1, <1>2, <1>5 DEF Awaits, After, Past, Due
<1>6. CASE step = "settings"
  BY <1>1, <1>2, <1>6 DEF Awaits, After, Past, Due
<1>7. CASE step = "login"
  BY <1>1, <1>7 DEF Awaits, After
<1> QED
  BY <1>1, <1>3, <1>4, <1>5, <1>6, <1>7, StepNames

LEMMA InStepStep == SplitInv /\ InStep /\ [Next]_vars => InStep'
<1> SUFFICES ASSUME SplitInv, InStep, [Next]_vars PROVE InStep'
  OBVIOUS
<1>1. ASSUME NEW x \in sent, NEW d \in Sends[x], Receive(d) PROVE InStep'
  BY <1>1, ReceiveKeepsStep
<1>2. ASSUME NEW f \in Malformed, ReceiveMalformed(f) PROVE InStep'
  <2>1. hitches' # {} \/ step' \notin DOMAIN Awaits
    BY <1>2, StepNames DEF ReceiveMalformed
  <2> QED
    BY <2>1 DEF InStep
<1>3. ASSUME NEW r \in down, LoseReply(r) PROVE InStep'
  BY <1>3 DEF LoseReply, InStep
<1>4. CASE Tick
  <2> SUFFICES ASSUME hitches' = {}, step' \in DOMAIN Awaits PROVE InStep'
    BY DEF InStep
  <2> DEFINE aged == [session EXCEPT !.age = @ + 1]
  <2>1. /\ session' = aged /\ session # NoSession /\ step' = step /\ sent' = sent
        /\ down' = down /\ step # "gone" /\ session.age < FAKE_SESSION_IDLE_TIMEOUT
    BY <1>4, StepNames DEF Tick
  <2>2. session \in Sessions
    BY <2>1, SessionTypes DEF SplitInv
  <2>3. /\ aged # NoSession /\ aged.stage = session.stage /\ aged.age = session.age + 1
    <3>1. aged \in [stage : Stages, age : Nat, split : Splits]
          /\ aged.stage = session.stage /\ aged.age = session.age + 1
      BY <2>2, LimitAssumption DEF Sessions
    <3>2. "age" \in DOMAIN aged /\ "age" \notin DOMAIN NoSession
      BY <3>1 DEF NoSession
    <3> QED
      BY <3>1, <3>2
  <2>4. hitches = {} /\ aged.age # FAKE_SESSION_IDLE_TIMEOUT
    BY <1>4, <2>1 DEF Tick
  <2> HIDE DEF aged
  <2>5. aged.age < FAKE_SESSION_IDLE_TIMEOUT
    BY <2>1, <2>2, <2>3, <2>4, LimitAssumption DEF Sessions
  <2> QED
    BY <2>1, <2>3, <2>4, <2>5 DEF InStep, Together, At, Kicked
<1>5. CASE Expire
  <2>1. session.age \in Nat
    BY <1>5, SessionTypes, LimitAssumption DEF SplitInv, Sessions, Expire
  <2>2. ~ (session.age < FAKE_SESSION_IDLE_TIMEOUT)
    BY <1>5, <2>1, LimitAssumption DEF Expire
  <2> QED
    BY <1>5, <2>2 DEF InStep, Expire
<1>6. CASE Take
  BY <1>6, TakeKeepsStep
<1>7. CASE StartOver
  BY <1>7 DEF StartOver, InStep
<1>8. CASE Leave
  BY <1>8, StepNames DEF Leave, InStep
<1>9. CASE Drain
  BY <1>9, StepNames DEF Drain, InStep
<1>10. CASE UNCHANGED vars
  BY <1>10 DEF vars, InStep, Together, At, Kicked
<1> QED
  BY <1>1, <1>2, <1>3, <1>4, <1>5, <1>6, <1>7, <1>8, <1>9, <1>10 DEF Next

LEMMA InStepInductive == Spec => []InStep
BY SplitInductive, InStepStarts, InStepStep, PTL DEF Spec

\* The client's reply is on its way, its Login is awaited, or one of the
\* datagrams that it repeats is answered with what it waits for.
Answerable ==
  step \in DOMAIN Awaits =>
    \/ Awaits[step] \in down
    \/ step = "login" /\ At({"login"})
    \/ \E d \in Sends[step] : Awaits[step] \in Effect(Current, d).out

LEMMA OpensAreAnswered ==
  ASSUME NEW s
  PROVE  /\ Effect(s, Open("open1")).out = {"reply1"}
         /\ Effect(s, Open("open2")).out = {"reply2"}
BY DEF Effect, Refreshed, Open

LEMMA StagesAnswer ==
  ASSUME NEW s \in Sessions
  PROVE  /\ s.stage = "request" => "accepted" \in Effect(s, Single(Payload("request"))).out
         /\ s.stage = "settings" => "network" \in Effect(s, Single(Payload("settings"))).out
         /\ s.stage = "incoming" =>
              "network" \in Effect(s, Datagram(<<Payload("incoming"), Payload("settings")>>)).out
<1>0. s.stage \in Stages
  BY DEF Sessions
<1>1. ASSUME NEW k \in Kinds, Single(Payload(k)) \in Inputs, s.stage # "login",
             Advance(s.stage, Payload(k)) # s.stage
      PROVE  Effect(s, Single(Payload(k))).out = Replies[Advance(s.stage, Payload(k))]
  <2> DEFINE d == Single(Payload(k))
             h == Handled[s.stage][d]
  <2>1. Payload(k).kind # "fragment" /\ d.open = "no"
    BY DEF Payload, Kinds, Single, Datagram
  <2>2. Payloads(d) = <<Payload(k)>>
    BY <2>1, PayloadsOfOne, FrameKinds
  <2>3. h.out = Replies[Advance(s.stage, Payload(k))]
    BY <1>0, <1>1, <2>2, HandledOne
  <2>4. Effect(s, d) = Refreshed(s, h.stage, h.out)
    BY <1>1, <2>1 DEF Effect, AtFragment
  <2> HIDE DEF h, d
  <2>5. Effect(s, d).out = h.out
    BY <2>4 DEF Refreshed
  <2> QED
    BY <2>3, <2>5 DEF d
<1>2. s.stage = "request" => "accepted" \in Effect(s, Single(Payload("request"))).out
  <2> SUFFICES ASSUME s.stage = "request"
               PROVE  "accepted" \in Effect(s, Single(Payload("request"))).out
    OBVIOUS
  <2>1. "request" \in Kinds /\ Advance(s.stage, Payload("request")) = "incoming"
    BY DEF Kinds, Advance, Payload
  <2>2. Single(Payload("request")) \in Sends.request
    BY DEF Sends
  <2>3. Single(Payload("request")) \in Inputs
    BY <2>2 DEF Inputs, Datagrams, Sends
  <2>4. Effect(s, Single(Payload("request"))).out = Replies["incoming"]
    BY <1>1, <2>1, <2>3
  <2> QED
    BY <2>4 DEF Replies
<1>3. s.stage = "settings" => "network" \in Effect(s, Single(Payload("settings"))).out
  <2> SUFFICES ASSUME s.stage = "settings"
               PROVE  "network" \in Effect(s, Single(Payload("settings"))).out
    OBVIOUS
  <2>1. "settings" \in Kinds /\ Advance(s.stage, Payload("settings")) = "login"
    BY DEF Kinds, Advance, Payload
  <2>2. Single(Payload("settings")) \in Sends.settings
    BY DEF Sends
  <2>3. Single(Payload("settings")) \in Inputs
    BY <2>2 DEF Inputs, Datagrams, Sends
  <2>4. Effect(s, Single(Payload("settings"))).out = Replies["login"]
    BY <1>1, <2>1, <2>3
  <2> QED
    BY <2>4 DEF Replies
<1>4. s.stage = "incoming" =>
        "network" \in Effect(s, Datagram(<<Payload("incoming"), Payload("settings")>>)).out
  <2> DEFINE f == Payload("incoming")
             g == Payload("settings")
             d == Datagram(<<f, g>>)
             h == Handled[s.stage][d]
  <2> SUFFICES ASSUME s.stage = "incoming" PROVE "network" \in Effect(s, d).out
    OBVIOUS
  <2>1. f \in Frames /\ g \in Frames /\ f.kind = "incoming" /\ g.kind = "settings"
    BY FrameKinds DEF Kinds, Payload
  <2>2. d \in Sends.settings
    BY DEF Sends
  <2>3. d \in Inputs /\ d.open = "no"
    BY <2>2 DEF Inputs, Datagrams, Sends, Datagram
  <2> HIDE DEF f, g
  <2>4. Payloads(d) = <<f, g>>
    BY <2>1, PayloadsOfTwo
  <2>5. Advance("incoming", f) = "settings" /\ Advance("settings", g) = "login"
    BY <2>1 DEF Advance
  <2> HIDE DEF d
  <2>6. h.out = Replies["settings"] \cup Replies["login"]
    BY <1>0, <2>3, <2>4, <2>5, HandledTwo
  <2>7. Effect(s, d) = Refreshed(s, h.stage, h.out)
    BY <2>3 DEF Effect, AtFragment
  <2> HIDE DEF h
  <2>8. Effect(s, d).out = h.out
    BY <2>7 DEF Refreshed
  <2> QED
    BY <2>6, <2>8 DEF Replies
<1> QED
  BY <1>2, <1>3, <1>4

LEMMA TogetherIsAnswerable ==
  SplitInv /\ InStep /\ hitches = {} => Answerable
<1> SUFFICES ASSUME SplitInv, InStep, hitches = {}, step \in DOMAIN Awaits,
                    Awaits[step] \notin down, ~ (step = "login" /\ At({"login"}))
             PROVE  \E d \in Sends[step] : Awaits[step] \in Effect(Current, d).out
  BY DEF Answerable
<1>1. Together /\ (session # NoSession => session.age < FAKE_SESSION_IDLE_TIMEOUT)
  BY DEF InStep
<1>2. session # NoSession => Current = session /\ session \in Sessions
  <2>1. session # NoSession => session \in Sessions
    BY SessionTypes DEF SplitInv
  <2> QED
    BY <1>1, <2>1, LimitAssumption DEF Current, Live, Sessions
<1>3. CASE step = "open1"
  BY <1>3, OpensAreAnswered DEF Sends, Awaits
<1>4. CASE step = "open2"
  BY <1>4, OpensAreAnswered DEF Sends, Awaits
<1>5. CASE step = "request"
  <2>1. Current \in Sessions /\ Current.stage = "request"
    BY <1>1, <1>2, <1>5 DEF Together, At, Awaits
  <2>2. "accepted" \in Effect(Current, Single(Payload("request"))).out
    BY <2>1, StagesAnswer
  <2> QED
    BY <1>5, <2>2 DEF Sends, Awaits
<1>6. CASE step = "settings"
  <2>1. Current \in Sessions /\ Current.stage \in {"incoming", "settings"}
    BY <1>1, <1>2, <1>6 DEF Together, At, Awaits
  <2>2. \/ "network" \in Effect(Current, Single(Payload("settings"))).out
        \/ "network" \in
             Effect(Current, Datagram(<<Payload("incoming"), Payload("settings")>>)).out
    BY <2>1, StagesAnswer
  <2> QED
    BY <1>6, <2>2 DEF Sends, Awaits
<1>7. CASE step = "login"
  BY <1>1, <1>7 DEF Together, Kicked, Awaits
<1> QED
  BY <1>3, <1>4, <1>5, <1>6, <1>7, StepNames

\* "We handle it idempotently": as far as the client's own datagrams are lost,
\* delayed or repeated, it always gets on by repeating its step.  (That a reply
\* is lost is where this ends: RetriesAreAnswered.)
THEOREM NobodyIsStranded == Spec => [](hitches = {} => Answerable)
BY SplitInductive, InStepInductive, TogetherIsAnswerable, PTL
=============================================================================
