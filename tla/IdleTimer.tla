------------------------------ MODULE IdleTimer ------------------------------
(***************************************************************************)
(* The clocks of one UDP session (udp_proxy.rs), which UdpRelay abstracts  *)
(* to a flag.  Traffic in either direction touches last_seen; the timer,   *)
(* however, belongs to the return path's recv and is restarted only by     *)
(* what the target sends.  When it fires, the session ends if last_seen is *)
(* idle_timeout old; if not, the timer starts over with the full timeout.  *)
(* Time is discrete, and clocks are kept as ages.                          *)
(***************************************************************************)
EXTENDS Integers

CONSTANTS
  IdleTimeout,  \* udp_idle_timeout_ms; nothing keeps it from being 0
  Late          \* how long a timer that is due waits for its task to run

ASSUME TimeoutAssumption == IdleTimeout \in Nat
ASSUME LateAssumption == Late \in Nat

VARIABLES
  present,  \* the client has a session
  seen,     \* last_seen.elapsed()
  waited,   \* age of the timer around target_socket.recv
  quiet     \* history: time without traffic, in either direction

idleVars == <<present, seen, waited, quiet>>

Gone == present' = FALSE /\ seen' = 0 /\ waited' = 0 /\ quiet' = 0

IdleInit == present = FALSE /\ seen = 0 /\ waited = 0 /\ quiet = 0

\* create_session
Create == ~present /\ present' = TRUE /\ UNCHANGED <<seen, waited, quiet>>

\* existing_session touches last_seen and leaves the timer alone.
\* Mutant: it does not touch last_seen.
ClientDatagram_Untouched ==
  present /\ quiet' = 0 /\ UNCHANGED <<present, seen, waited>>
ClientDatagram ==
  /\ present
  /\ seen' = 0 /\ quiet' = 0
  /\ UNCHANGED <<present, waited>>

\* recv succeeded: last_seen is touched and the loop waits anew.
TargetDatagram ==
  /\ present
  /\ seen' = 0 /\ waited' = 0 /\ quiet' = 0
  /\ UNCHANGED present

\* The target's socket or the way back to the client failed.
PathFails == present /\ Gone

\* recv timed out, then remove_current_session with the idle timeout.
\* Mutant: the session is never found old enough.
TimerFires_Never ==
  /\ present /\ waited >= IdleTimeout
  /\ waited' = 0 /\ UNCHANGED <<present, seen, quiet>>
TimerFires ==
  /\ present /\ waited >= IdleTimeout
  /\ \/ seen >= IdleTimeout /\ Gone
     \/ /\ seen < IdleTimeout
        /\ waited' = 0 /\ UNCHANGED <<present, seen, quiet>>

Tick ==
  /\ present /\ waited < IdleTimeout + Late
  /\ seen' = seen + 1 /\ waited' = waited + 1 /\ quiet' = quiet + 1
  /\ UNCHANGED present

IdleNext == \/ Create \/ ClientDatagram \/ TargetDatagram
            \/ PathFails \/ TimerFires \/ Tick

IdleSpec == IdleInit /\ [][IdleNext]_idleVars
-----------------------------------------------------------------------------
(* How long a session lives *)

IdleTypeOK ==
  /\ present \in BOOLEAN
  /\ seen \in 0..(2 * IdleTimeout + Late)
  /\ quiet \in Nat
  /\ waited \in 0..(IdleTimeout + Late)

\* A session without traffic is gone after twice the idle timeout: a client
\* datagram may come just before the timer fires, which then runs once more.
EndsWithinTwice == quiet <= 2 * IdleTimeout + Late

\* Only a session that had no traffic, in either direction, for the whole idle
\* timeout is ended by the timer.
NeverEndsEarly == [][TimerFires /\ ~present' => quiet >= IdleTimeout]_idleVars
=============================================================================
