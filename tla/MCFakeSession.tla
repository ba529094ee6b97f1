---------------------------- MODULE MCFakeSession ----------------------------
(* Instances of FakeSession for TLC.                                         *)
EXTENDS FakeSession

\* Half of another packet.
MCDelayed == {Fragment(1, 2, 1)}

\* No fragment at all, more than are tracked, an index out of range, and the
\* Login's split id with another count.
MCMalformed == {Fragment(0, 0, 0), Fragment(2, 4, 0), Fragment(0, 2, 2),
                Fragment(0, 3, 3)}
=============================================================================
