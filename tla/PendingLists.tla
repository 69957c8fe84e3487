---------------------------- MODULE PendingLists ----------------------------
(***************************************************************************)
(* The pending list as the code keeps it: four lists that are changed in   *)
(* step, under close_mx, by push_pending, pop_pending and, one message at  *)
(* a time, clear_pending.  SocketServer and MessageReader keep one list.   *)
(*                                                                         *)
(* clear_pending does not advance its iterator of pending_binary: what it  *)
(* erases there is the flag of the oldest message of all.                  *)
(***************************************************************************)
EXTENDS Integers, Sequences

CONSTANTS
  Messages,
  Sockets              (* descriptors, and the -1 of a closed one            *)

VARIABLES
  pending_msg, pending_socket, pending_done, pending_binary,
  clearing             (* {s} while clear_pending(s) holds close_mx, or {}   *)

listVars == <<pending_msg, pending_socket, pending_done, pending_binary>>
pendingVars == <<listVars, clearing>>

(* The sequence s without its element number i. *)
Without(s, i) == [j \in 1 .. Len(s) - 1 |-> IF j < i THEN s[j] ELSE s[j + 1]]

PendingInit ==
  /\ pending_msg = <<>> /\ pending_socket = <<>>
  /\ pending_done = <<>> /\ pending_binary = <<>>
  /\ clearing = {}

PushPending(socket_index, msg, done, binary) ==
  /\ clearing = {}
  /\ pending_msg' = Append(pending_msg, msg)
  /\ pending_socket' = Append(pending_socket, socket_index)
  /\ pending_done' = Append(pending_done, done)
  /\ pending_binary' = Append(pending_binary, binary)
  /\ UNCHANGED clearing

(* Whether there is a message is asked of pending_done alone. *)
PopPending ==
  /\ clearing = {}
  /\ pending_done # <<>>
  /\ pending_msg' = Tail(pending_msg)
  /\ pending_socket' = Tail(pending_socket)
  /\ pending_done' = Tail(pending_done)
  /\ pending_binary' = Tail(pending_binary)
  /\ UNCHANGED clearing

ClearPending(socket_index) ==
  /\ clearing = {}
  /\ clearing' = {socket_index}
  /\ UNCHANGED listVars

(* One round of the outer loop: it ends with the first message found. *)
EraseFirst ==
  \E i \in 1..Len(pending_socket) :
    /\ pending_socket[i] \in clearing
    /\ \A j \in 1 .. i - 1 : pending_socket[j] \notin clearing
    /\ pending_msg' = Without(pending_msg, i)
    /\ pending_socket' = Without(pending_socket, i)
    /\ pending_done' = Without(pending_done, i)
    /\ pending_binary' = Without(pending_binary, 1)
    /\ UNCHANGED clearing

ClearEnds ==
  /\ clearing # {}
  /\ \A i \in 1..Len(pending_socket) : pending_socket[i] \notin clearing
  /\ clearing' = {}
  /\ UNCHANGED listVars

PendingNext ==
  \/ \E s \in Sockets, m \in Messages, done, binary \in BOOLEAN :
       PushPending(s, m, done, binary)
  \/ PopPending
  \/ \E s \in Sockets : ClearPending(s)
  \/ EraseFirst
  \/ ClearEnds

PendingSpec == PendingInit /\ [][PendingNext]_pendingVars

-----------------------------------------------------------------------------
ListsTypeOK ==
  /\ pending_msg \in Seq(Messages)
  /\ pending_socket \in Seq(Sockets)
  /\ pending_done \in Seq(BOOLEAN)
  /\ pending_binary \in Seq(BOOLEAN)
  /\ \/ clearing = {}
     \/ \E s \in Sockets : clearing = {s}

(* The four lists have the same length, although clear_pending erases from *)
(* one of them at another place: pop_pending, which tests one list only,   *)
(* never takes the front of an empty one.                                  *)
SameLength ==
  /\ Len(pending_msg) = Len(pending_done)
  /\ Len(pending_socket) = Len(pending_done)
  /\ Len(pending_binary) = Len(pending_done)

(* The three lists other than pending_binary are a queue: a message keeps  *)
(* its socket and its done flag, whatever is closed.                       *)
Queue ==
  INSTANCE PendingQueue WITH
    queue <- [i \in 1..Len(pending_done) |->
                [msg |-> pending_msg[i], socket |-> pending_socket[i],
                 done |-> pending_done[i]]]

ListsAreQueue == Queue!QueueSpec

=============================================================================
