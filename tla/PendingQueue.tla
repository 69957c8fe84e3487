---------------------------- MODULE PendingQueue ----------------------------
(***************************************************************************)
(* What the pending lists of socket_server promise: a queue of messages,   *)
(* each with the socket it came from and whether it is complete.  Messages *)
(* leave it in the order they were pushed, or because their socket is      *)
(* closed.                                                                 *)
(***************************************************************************)
EXTENDS Integers, Sequences

CONSTANTS Messages, Sockets

VARIABLE queue

Entries == [msg : Messages, socket : Sockets, done : BOOLEAN]

(* The sequence s without its element number i. *)
Without(s, i) == [j \in 1 .. Len(s) - 1 |-> IF j < i THEN s[j] ELSE s[j + 1]]

QueueInit == queue = <<>>

Put(e) == queue' = Append(queue, e)

Take == queue # <<>> /\ queue' = Tail(queue)

(* The oldest message of socket s leaves. *)
Forget(s) ==
  \E i \in 1..Len(queue) :
    /\ queue[i].socket = s
    /\ \A j \in 1 .. i - 1 : queue[j].socket # s
    /\ queue' = Without(queue, i)

QueueNext ==
  \/ \E e \in Entries : Put(e)
  \/ Take
  \/ \E s \in Sockets : Forget(s)

QueueSpec == QueueInit /\ [][QueueNext]_queue

=============================================================================
