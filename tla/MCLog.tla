------------------------------- MODULE MCLog -------------------------------
(***************************************************************************)
(* Instances of Log for TLC: pieces that are empty, that fit, that end at  *)
(* the last cell and that do not fit.                                      *)
(***************************************************************************)
EXTENDS Log

MCThreads == {"capture", "network"}
=============================================================================
