---------------------------- MODULE MCClientSubs ----------------------------
(* A bounded instance for TLC.                                             *)
EXTENDS ClientSubs

=============================================================================
