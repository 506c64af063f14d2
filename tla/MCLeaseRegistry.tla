--------------------------- MODULE MCLeaseRegistry ---------------------------
(* Model checking LeaseRegistry with two workspaces. *)
EXTENDS LeaseRegistry, TLC

CONSTANTS w1, w2

\* A V2 candidate: generations <<mapping, workspace, inventory, socket>>.
V2(w, g, ident, route, binding) ==
    [workspace |-> w,
     gen |-> [f \in GenField |->
                CASE f = "mappingGeneration" -> g[1]
                  [] f = "workspaceGeneration" -> g[2]
                  [] f = "inventoryGeneration" -> g[3]
                  [] f = "socketGeneration" -> g[4]
                  [] OTHER -> Undefined],
     ident |-> ident, route |-> route, inventory |-> None, binding |-> binding]

\* A V3 candidate: V2's generations, then <<authorityEpoch, fenceGeneration>>.
V3(w, g, ident, inventory, binding) ==
    [workspace |-> w,
     gen |-> [f \in GenField |->
                CASE f = "mappingGeneration" -> g[1]
                  [] f = "workspaceGeneration" -> g[2]
                  [] f = "inventoryGeneration" -> g[3]
                  [] f = "socketGeneration" -> g[4]
                  [] f = "authorityEpoch" -> g[5]
                  [] OTHER -> g[6]],
     ident |-> ident, route |-> None, inventory |-> inventory, binding |-> binding]

MCCandidate ==
    { \* a legacy binding, presented under two binding fingerprints
      V2(w1, <<1, 1, 0, Undefined>>, "m", "r", "b1"),
      V2(w1, <<1, 1, 0, Undefined>>, "m", "r", "b2"),
      \* receipt bindings: the same mapping over two sockets ...
      V3(w1, <<1, 1, 1, 1, 1, 1>>, "m", "i1", "b1"),
      V3(w1, <<1, 1, 1, 2, 1, 1>>, "m", "i1", "b1"),
      \* ... and its successor for another owner, without and with a new
      \* workspace generation
      V3(w1, <<1, 1, 2, 2, 1, 2>>, "n", "i2", "b2"),
      V3(w1, <<1, 2, 1, 2, 1, 2>>, "n", "i2", "b2"),
      \* a receipt binding without its inventory proof is not an authority
      V3(w1, <<2, 2, 2, 2, 1, 2>>, "n", None, "b2"),
      \* another workspace
      V3(w2, <<1, 1, 1, 1, 1, 1>>, "m", "i1", "b1") }

Symmetry == Permutations(Lease) \cup Permutations(Entry)
=============================================================================
