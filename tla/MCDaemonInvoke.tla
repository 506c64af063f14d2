---------------------------- MODULE MCDaemonInvoke ----------------------------
(* Model checking DaemonInvoke. *)
EXTENDS DaemonInvoke, TLC

\* Time does not matter, or it may sweep all that can expire.
NoExpiry == {<<{}, {}>>}

FullExpiry == {<<{}, {}>>, <<Request, CancelId>>}

Symmetry == Permutations(Request) \cup Permutations(Invocation) \cup Permutations(CancelId)
=============================================================================
