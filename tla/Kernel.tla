------------------------------- MODULE Kernel -------------------------------
(***************************************************************************)
(* What the code under src/ uses of Linux and of its clients: stream       *)
(* sockets and one level-triggered epoll instance.  External to the        *)
(* repository, modelled from the calls it makes.                           *)
(*                                                                         *)
(* Data is abstracted to whole messages: inbox[s] counts the messages that *)
(* are in the receive buffer of s.  A peer that is "fin" ends its stream   *)
(* with something more_data refuses (end of file, a close or ping frame,   *)
(* an empty message); a peer that is "rst" has broken the connection.      *)
(***************************************************************************)
EXTENDS Integers, FiniteSets, Functions

CONSTANTS
  Sockets,             (* file descriptors the kernel hands out              *)
  MAX_EVENTS,          (* length of the array given to epoll_wait            *)
  MaxAccepts,          (* bound: connections clients open                    *)
  MaxMessages          (* bound: messages clients send                       *)

ASSUME KernelAssumption ==
  /\ IsFiniteSet(Sockets) /\ -1 \notin Sockets
  /\ MAX_EVENTS \in Nat \ {0}
  /\ MaxAccepts \in Nat
  /\ MaxMessages \in Nat

VARIABLES
  conn,                (* conn[s]: "free", "new" (in its handshake) or "open" *)
  inbox,               (* inbox[s]: unread messages                          *)
  peer,                (* peer[s]: "up", "fin" or "rst"                      *)
  interest,            (* interest[s]: "none" (not registered), "in", "hup"  *)
  tag,                 (* tag[s]: the data.fd s was registered with          *)
  accepts, sent        (* counters for the two bounds                        *)

kernelVars == <<conn, inbox, peer, interest, tag, accepts, sent>>

KernelInit ==
  /\ conn = [s \in Sockets |-> "free"]
  /\ inbox = [s \in Sockets |-> 0]
  /\ peer = [s \in Sockets |-> "up"]
  /\ interest = [s \in Sockets |-> "none"]
  /\ tag = [s \in Sockets |-> -1]
  /\ accepts = 0
  /\ sent = 0

-----------------------------------------------------------------------------
(* Clients.  A message follows the server's answer to the handshake.       *)

PeerSends(s) ==
  /\ conn[s] = "open" /\ peer[s] = "up"
  /\ sent < MaxMessages
  /\ inbox' = [inbox EXCEPT ![s] = @ + 1]
  /\ sent' = sent + 1
  /\ UNCHANGED <<conn, peer, interest, tag, accepts>>

PeerFinishes(s) ==
  /\ conn[s] # "free" /\ peer[s] = "up"
  /\ peer' = [peer EXCEPT ![s] = "fin"]
  /\ UNCHANGED <<conn, inbox, interest, tag, accepts, sent>>

PeerResets(s) ==
  /\ conn[s] # "free" /\ peer[s] # "rst"
  /\ peer' = [peer EXCEPT ![s] = "rst"]
  /\ UNCHANGED <<conn, inbox, interest, tag, accepts, sent>>

PeerStep ==
  \E s \in Sockets : PeerSends(s) \/ PeerFinishes(s) \/ PeerResets(s)

-----------------------------------------------------------------------------
(* System calls, as the new values they give the kernel's variables.       *)

Accept4(s) ==
  /\ conn[s] = "free"
  /\ accepts < MaxAccepts
  /\ conn' = [conn EXCEPT ![s] = "new"]
  /\ accepts' = accepts + 1
  /\ UNCHANGED <<inbox, peer, interest, tag, sent>>

(* shutdown() and close(): the descriptor is free and leaves the epoll set. *)
CloseFd(s) ==
  /\ conn' = [conn EXCEPT ![s] = "free"]
  /\ inbox' = [inbox EXCEPT ![s] = 0]
  /\ peer' = [peer EXCEPT ![s] = "up"]
  /\ interest' = [interest EXCEPT ![s] = "none"]
  /\ tag' = [tag EXCEPT ![s] = -1]
  /\ UNCHANGED <<accepts, sent>>

(* epoll_ctl(EPOLL_CTL_MOD): fails, changing nothing, on a socket that is  *)
(* not registered.                                                         *)
EpollMod(s, mask, fd) ==
  LET known == s \in Sockets /\ interest[s] # "none"
  IN /\ interest' = IF known THEN [interest EXCEPT ![s] = mask] ELSE interest
     /\ tag' = IF known THEN [tag EXCEPT ![s] = fd] ELSE tag
     /\ UNCHANGED <<conn, inbox, peer, accepts, sent>>

(* Sockets epoll_wait would report.  Error and hang-up need no interest.   *)
Ready ==
  {s \in Sockets : \/ interest[s] = "in" /\ (inbox[s] > 0 \/ peer[s] # "up")
                   \/ interest[s] = "hup" /\ peer[s] = "rst"}

(* An event whose mask is not just EPOLLIN has `hup'. *)
Event(s) == [fd |-> tag[s], hup |-> peer[s] = "rst"]

(* What epoll_wait may return: events of all ready sockets, or of as many  *)
(* as the array holds, in any order.                                       *)
EventLists ==
  UNION {{[i \in 1..n |-> Event(order[i])] : order \in Injection(1..n, Ready)}
           : n \in {MAX_EVENTS} \union {k \in 1..MAX_EVENTS : k = Cardinality(Ready)}}

=============================================================================
