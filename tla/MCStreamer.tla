----------------------------- MODULE MCStreamer -----------------------------
(***************************************************************************)
(* Instances of Streamer for TLC.                                          *)
(***************************************************************************)
EXTENDS Streamer
=============================================================================
