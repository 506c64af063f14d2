--------------------------- MODULE WorkspaceFence ---------------------------
(***************************************************************************)
(* What the lease registry promises its callers, without its Maps, entry   *)
(* objects and holder counts: a shared/exclusive lock per workspace that   *)
(* is also fenced by the authority the workspace is bound under.           *)
(*                                                                         *)
(* A grant is made under the authority in force.  When the authority of a  *)
(* workspace is replaced or withdrawn, every grant made before is stale,   *)
(* for good, and nobody is let in until all stale grants have ended.       *)
(***************************************************************************)
CONSTANTS Workspace, Authority, Holder, None

VARIABLES
    inForce,    \* [Workspace -> Authority or None]
    grant       \* [Holder -> None or a grant]

avars == <<inForce, grant>>

Grant == [authority : Authority, exclusive : BOOLEAN, stale : BOOLEAN]

Init ==
    /\ inForce = [w \in Workspace |-> None]
    /\ grant = [h \in Holder |-> None]

InWorkspace(w) == {h \in Holder : grant[h] # None /\ grant[h].authority.workspace = w}

Stale(g) == [authority |-> g.authority, exclusive |-> g.exclusive, stale |-> TRUE]

\* The grants of the workspaces in W become stale.
MakeStale(W) ==
    grant' = [h \in Holder |->
                 IF \E w \in W : h \in InWorkspace(w)
                 THEN Stale(grant[h]) ELSE grant[h]]

Bind(a) ==
    /\ inForce[a.workspace] # a
    /\ inForce' = [inForce EXCEPT ![a.workspace] = a]
    /\ MakeStale({a.workspace})

Withdraw(W) ==
    /\ inForce' = [w \in Workspace |-> IF w \in W THEN None ELSE inForce[w]]
    /\ MakeStale(W)

Admit(h, a, exclusive) ==
    /\ grant[h] = None
    /\ inForce[a.workspace] = a
    /\ \A k \in InWorkspace(a.workspace) :
          ~grant[k].stale /\ ~grant[k].exclusive /\ ~exclusive
    /\ grant' = [grant EXCEPT ![h] =
          [authority |-> a, exclusive |-> exclusive, stale |-> FALSE]]
    /\ UNCHANGED inForce

End(h) ==
    /\ grant[h] # None
    /\ grant' = [grant EXCEPT ![h] = None]
    /\ UNCHANGED inForce

Next ==
    \/ \E a \in Authority : Bind(a)
    \/ \E W \in SUBSET Workspace : Withdraw(W)
    \/ \E h \in Holder, a \in Authority, exclusive \in BOOLEAN : Admit(h, a, exclusive)
    \/ \E h \in Holder : End(h)

Spec == Init /\ [][Next]_avars
=============================================================================
