----------------------------- MODULE MCWsServer -----------------------------
(***************************************************************************)
(* WsServer for TLC.                                                       *)
(***************************************************************************)
EXTENDS WsServer

(* Descriptors are interchangeable: nothing orders them. *)
Symmetry == Permutations(Sockets)

=============================================================================
