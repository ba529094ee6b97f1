------------------------------- MODULE Redirect -------------------------------
(***************************************************************************)
(* One redirect as settings (runtime.rs) sets it up: a UDP redirect has    *)
(* the idle timer of its sessions, a TCP redirect the connections of its   *)
(* clients, which a redirect with shaping copies at a pace.  Of a shaped   *)
(* connection only the pace of one copy is followed: its bytes come and go *)
(* as those of an unshaped one do, whose copy does not measure time.       *)
(***************************************************************************)
EXTENDS JavaRedirect, IdleTimer, Shaping

VARIABLES
  protocol,  \* RedirectConfig::protocol
  shaped     \* RedirectConfig::shaping gives the copies their settings

settings == <<protocol, shaped>>
redirectVars == <<settings, javaState, idleVars, shapingVars>>

RedirectInit ==
  /\ protocol \in {"tcp", "udp"} /\ shaped \in BOOLEAN
  /\ protocol = "udp" => ~shaped
  /\ JavaInit /\ IdleInit /\ PaceInit

\* What a redirect with these settings does, and the clocks it does not have.
InSession(A) == /\ protocol = "udp" /\ A
                /\ UNCHANGED <<settings, javaState, shapingVars>>
InConnection(A) == /\ protocol = "tcp" /\ ~shaped /\ A
                   /\ UNCHANGED <<settings, idleVars, shapingVars>>
InPacedCopy(A) == /\ protocol = "tcp" /\ shaped /\ A
                  /\ UNCHANGED <<settings, javaState, idleVars>>

RedirectNext ==
  \/ InSession(IdleNext)
  \/ InConnection(JavaNext)
  \/ InPacedCopy(PaceNext)

RedirectSpec == RedirectInit /\ [][RedirectNext]_redirectVars

\* As in FairJavaSpec; neither clock is promised to go on.
FairRedirectSpec ==
  /\ RedirectSpec
  /\ WF_redirectVars(InConnection(JavaHandler))
  /\ WF_redirectVars(InConnection(WorkerExits /\ UNCHANGED javaVars))
  /\ \A d \in Dirs :
       WF_redirectVars(InConnection(Copy(d) /\ UNCHANGED javaVars))
=============================================================================
