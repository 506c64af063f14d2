---------------------------- MODULE MCHostBinding ----------------------------
(* HostBinding for TLC.                                                    *)
EXTENDS HostBinding
=============================================================================
