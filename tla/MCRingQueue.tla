---------------------------- MODULE MCRingQueue ----------------------------
(***************************************************************************)
(* Instances of RingQueue for TLC.                                         *)
(***************************************************************************)
EXTENDS RingQueue
=============================================================================
