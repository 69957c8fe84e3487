---------------------------- MODULE MCWssServer ----------------------------
(***************************************************************************)
(* WssServer for TLC.                                                      *)
(***************************************************************************)
EXTENDS WssServer

=============================================================================
