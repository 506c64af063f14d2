--------------------------- MODULE MCReceiptBinding ---------------------------
(* Model checking ReceiptBinding with one workspace. *)
EXTENDS ReceiptBinding

CONSTANTS main

\* An authority and its successor, which has another identity.
TwoAuthorities ==
    { [workspace |-> main, fence |-> 1, mapping |-> 1, ident |-> "m"],
      [workspace |-> main, fence |-> 1, mapping |-> 2, ident |-> "n"] }

\* The inventory is this one, or it is missing.
OneInventory == { [generation |-> 1, fingerprint |-> "f", workspaces |-> {main}] }
=============================================================================
