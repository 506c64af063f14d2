---------------------------- MODULE MCHostInvoke ----------------------------
(* HostInvoke for TLC.                                                     *)
EXTENDS HostInvoke
=============================================================================
