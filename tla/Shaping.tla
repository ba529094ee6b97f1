------------------------------- MODULE Shaping -------------------------------
(***************************************************************************)
(* The pace of one direction of a shaped TCP connection (shaping.rs): each *)
(* chunk is passed on at once, and the copy then sleeps as long as the     *)
(* limiter demands, and a random time on top.  The limiter compares what   *)
(* was sent since its window began with what the cap allows, and starts a  *)
(* new window now and then.  Time is discrete, and bytes are measured by   *)
(* the time the cap allows for them, so that the cap is 1.                 *)
(***************************************************************************)
EXTENDS Integers

CONSTANTS
  Window,      \* age from which wait_for resets its window: 10 s
  BufSize,     \* largest chunk, bufsize_bytes
  RandomWait,  \* random_wait_ms, 0 when unset
  Horizon      \* bound of the model: how long the connection is watched

ASSUME WindowAssumption == Window \in Nat
ASSUME ChunkAssumption == BufSize \in Nat \ {0} /\ RandomWait \in Nat
ASSUME HorizonAssumption == Horizon \in Nat

VARIABLES
  now,       \* time since the copy began
  passed,    \* history: all bytes passed on
  start,     \* RateLimiter::window_start
  inWindow,  \* RateLimiter::bytes_sent
  wake       \* end of the current sleep

shapingVars == <<now, passed, start, inWindow, wake>>

PaceInit == now = 0 /\ passed = 0 /\ start = 0 /\ inWindow = 0 /\ wake = 0

\* saturating_sub
Remaining(expected, elapsed) ==
  IF expected > elapsed THEN expected - elapsed ELSE 0

\* wait_for(n): the wait is what the old window demands, although the new one
\* begins before it.
\* Mutant: only the bytes are reset, and the window's age buys bytes for ever.
WaitFor_KeepsStart(n) ==
  LET expected == inWindow + n
      elapsed  == now - start
  IN /\ inWindow' = IF elapsed > Window THEN 0 ELSE expected
     /\ UNCHANGED start
     /\ \E jitter \in 0..RandomWait :
          wake' = now + Remaining(expected, elapsed) + jitter
\* Mutant: only the start is reset, and old bytes are waited for again.
WaitFor_KeepsBytes(n) ==
  LET expected == inWindow + n
      elapsed  == now - start
  IN /\ inWindow' = expected
     /\ start' = IF elapsed > Window THEN now ELSE start
     /\ \E jitter \in 0..RandomWait :
          wake' = now + Remaining(expected, elapsed) + jitter
WaitFor(n) ==
  LET expected == inWindow + n
      elapsed  == now - start
  IN /\ inWindow' = IF elapsed > Window THEN 0 ELSE expected
     /\ start' = IF elapsed > Window THEN now ELSE start
     /\ \E jitter \in 0..RandomWait :
          wake' = now + Remaining(expected, elapsed) + jitter

\* One round of the copy loop, once its sleeps are over and the peer has sent:
\* a read may return less than a buffer.
Pass == \E n \in 1..BufSize :
  /\ now >= wake
  /\ passed' = passed + n
  /\ WaitFor(n)
  /\ UNCHANGED now

\* The peers, the writes and the scheduler may take any time.
Elapse == /\ now < Horizon /\ now' = now + 1
          /\ UNCHANGED <<passed, start, inWindow, wake>>

PaceNext == Pass \/ Elapse

Pace == PaceInit /\ [][PaceNext]_shapingVars
-----------------------------------------------------------------------------
(* What the pace is *)

PaceTypeOK ==
  {now, passed, start, inWindow, wake} \subseteq Nat /\ start <= now

\* "To keep the average rate under it": a window that is reset while the copy
\* still has to sleep gives the sleep to the next window, so that the average
\* may exceed the cap, but it stays under twice the cap whatever chunks come.
UnderTwiceTheCap == passed <= 2 * now + BufSize

\* A copy never sleeps longer than the cap allows for the chunk it has just
\* passed on, so that it notices the end of its stream soon: neither a reset
\* nor a pause is paid for later.
SleepIsShort == wake <= now + BufSize + RandomWait
=============================================================================
