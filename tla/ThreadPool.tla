----------------------------- MODULE ThreadPool -----------------------------
(***************************************************************************)
(* What the dynamic thread pool of hast_web promises, with the data        *)
(* structures that implement it left out: every slot of the pool is empty, *)
(* runs one thread, or holds a thread that has returned and waits to be    *)
(* joined; at most one running thread holds the receiving role (the one    *)
(* that polls the sockets), and only that thread frees slots.              *)
(***************************************************************************)
EXTENDS Integers

CONSTANT MaxThread     (* number of slots (the `max' of socket_server::init) *)

None == -1
Slots == 0 .. MaxThread - 1

VARIABLES
  life,                (* life[a]: what slot a holds                         *)
  leader               (* the slot with the receiving role, or None          *)

poolVars == <<life, leader>>

PoolInit ==
  /\ life = [a \in Slots |-> "empty"]
  /\ leader = None

(* A thread is created in an empty slot only. *)
Start(a) ==
  /\ life[a] = "empty"
  /\ life' = [life EXCEPT ![a] = "running"]
  /\ UNCHANGED leader

(* The thread function returns; a thread with the role never does. *)
Return(a) ==
  /\ life[a] = "running"
  /\ leader # a
  /\ life' = [life EXCEPT ![a] = "returned"]
  /\ UNCHANGED leader

(* The leader joins a returned thread of another slot. *)
Reap(a) ==
  /\ leader \in Slots \ {a}
  /\ life[a] = "returned"
  /\ life' = [life EXCEPT ![a] = "empty"]
  /\ UNCHANGED leader

Lead(a) ==
  /\ leader = None
  /\ life[a] = "running"
  /\ leader' = a
  /\ UNCHANGED life

StepDown ==
  /\ leader # None
  /\ leader' = None
  /\ UNCHANGED life

PoolNext ==
  \/ \E a \in Slots : Start(a) \/ Return(a) \/ Reap(a) \/ Lead(a)
  \/ StepDown

PoolSpec == PoolInit /\ [][PoolNext]_poolVars

=============================================================================
