----------------------- MODULE MCManagementAuthority -----------------------
(* Genesis and the successor transactions on a small instance.             *)
EXTENDS ManagementAuthority
=============================================================================
