---------------------------- MODULE MessageStream ----------------------------
(***************************************************************************)
(* What reading messages from one connection promises: the application is  *)
(* given messages the client has sent, each of them whole and at most      *)
(* once.  Several threads may take messages of one connection, so nothing  *)
(* is said of their order.                                                 *)
(***************************************************************************)
EXTENDS Integers, Sequences

VARIABLES
  sent,                (* number of messages the client has sent             *)
  delivered            (* the numbers of those given to the application      *)

streamVars == <<sent, delivered>>

StreamInit == sent = 0 /\ delivered = <<>>

ClientSends == sent' = sent + 1 /\ UNCHANGED delivered

Deliver(k) ==
  /\ \A i \in 1..Len(delivered) : delivered[i] # k
  /\ delivered' = Append(delivered, k)
  /\ UNCHANGED sent

StreamNext == ClientSends \/ \E k \in 1..sent : Deliver(k)

StreamSpec == StreamInit /\ [][StreamNext]_streamVars

=============================================================================
