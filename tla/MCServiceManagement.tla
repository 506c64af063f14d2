------------------------ MODULE MCServiceManagement ------------------------
(* Model-checking instance of ServiceManagement. *)
EXTENDS ServiceManagement

CONSTANTS man1, man2

\* Two releases, the second with the higher sequence number.
TwoReleases == {[seq |-> 1, man |-> man1], [seq |-> 2, man |-> man2]}
=============================================================================
