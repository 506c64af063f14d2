---------------------------- MODULE MCSessionPool ----------------------------
(* Model checking SessionPool: the directory d1 serves a managed identity and
   unmanaged callers, d2 unmanaged callers only. *)
EXTENDS SessionPool

CONSTANTS d1, d2

MCDirOf == [i \in Identity |-> d1]
=============================================================================
