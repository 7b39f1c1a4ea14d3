---------------------------- MODULE MCTlsClient ----------------------------
(***************************************************************************)
(* Instances of TlsClient for TLC.                                         *)
(***************************************************************************)
EXTENDS TlsClient
=============================================================================
