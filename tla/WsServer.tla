------------------------------ MODULE WsServer ------------------------------
(***************************************************************************)
(* class ws_server (hast_web/ws_server.cpp): start_accept in the thread    *)
(* that called it, the reply an application writes from its message loop,  *)
(* and the whole server: the pool, the receiving role, the accepting       *)
(* thread and the clients.                                                 *)
(***************************************************************************)
EXTENDS SocketServer

vars == <<threadVars, socketVars, kernelVars>>

Init == ThreadInit /\ SocketInit /\ KernelInit

-----------------------------------------------------------------------------
(* The application processes raw_msg[t]; it may reply through              *)
(* echo_back_msg(t, ...).                                                  *)

UserReturns(t) ==
  /\ pc[t] = "user"
  /\ Goto(t, "msg_recv")
  /\ UNCHANGED <<status, socketfd, recv_thread, thread_mx, ret, slot, poolShape,
                 socketVars, kernelVars>>

(* write: send() fails for good on a broken or closed socket. *)
WriteFails(t) ==
  /\ pc[t] = "user"
  /\ socketfd[t] # None
  /\ conn[socketfd[t]] = "free" \/ peer[socketfd[t]] = "rst"
  /\ CallClose(t, "msg_recv")
  /\ UNCHANGED <<status, socketfd, recv_thread, thread_mx, slot, poolShape, got_it, wait_mx,
                 close_mx, pending, ev, epollLocals, unpushed, tail, count, kernelVars>>

-----------------------------------------------------------------------------
(* start_accept *)

Accept ==
  /\ pc[Acceptor] = "accept"
  /\ \E s \in Sockets : Accept4(s) /\ arg' = Set(arg, Acceptor, s)
  /\ Goto(Acceptor, "handshake")
  /\ UNCHANGED <<status, socketfd, recv_thread, thread_mx, ret, slot, poolShape, got_it,
                 wait_mx, close_mx, pending, ev, epollLocals, unpushed, tail, count>>

(* accept4 fails, which ends the loop; the pool goes on with the clients   *)
(* it has.                                                                 *)
AcceptFails ==
  /\ pc[Acceptor] = "accept"
  /\ accepts < MaxAccepts
  /\ Goto(Acceptor, "ended")
  /\ UNCHANGED <<status, socketfd, recv_thread, thread_mx, ret, slot, poolShape,
                 socketVars, kernelVars>>

(* No request within 3 s, a request that upgrade, on_connect or on_open    *)
(* turns down, or an epoll_ctl that fails: the socket is closed here.      *)
TurnDown ==
  /\ pc[Acceptor] \in {"handshake", "register"}
  /\ CloseFd(arg[Acceptor])
  /\ arg' = Set(arg, Acceptor, None)
  /\ Goto(Acceptor, "accept")
  /\ UNCHANGED <<status, socketfd, recv_thread, thread_mx, ret, slot, poolShape, got_it,
                 wait_mx, close_mx, pending, ev, epollLocals, unpushed, tail, count>>

(* write of the handshake's answer fails: close_socket.  start_accept then *)
(* closes the descriptor once more; only it opens any here, so it is still *)
(* free and nothing happens.                                               *)
AnswerFails ==
  /\ pc[Acceptor] = "handshake"
  /\ conn[arg[Acceptor]] = "free" \/ peer[arg[Acceptor]] = "rst"
  /\ Call(Acceptor, "close_socket", "accept")
  /\ UNCHANGED <<status, socketfd, recv_thread, thread_mx, slot, poolShape,
                 socketVars, kernelVars>>

Upgrade ==
  /\ pc[Acceptor] = "handshake"
  /\ conn[arg[Acceptor]] = "new"
  /\ conn' = Set(conn, arg[Acceptor], "open")
  /\ Goto(Acceptor, "set_event")
  /\ UNCHANGED <<status, socketfd, recv_thread, thread_mx, ret, slot, poolShape, socketVars,
                 inbox, peer, interest, tag, accepts, sent>>

SetEvent ==
  /\ pc[Acceptor] = "set_event"
  /\ ev' = arg[Acceptor]
  /\ Goto(Acceptor, "register")
  /\ UNCHANGED <<status, socketfd, recv_thread, thread_mx, ret, slot, poolShape, got_it,
                 wait_mx, close_mx, pending, epollLocals, arg, unpushed, tail, count, kernelVars>>

Register ==
  /\ pc[Acceptor] = "register"
  /\ conn[arg[Acceptor]] = "open"
  /\ interest' = Set(interest, arg[Acceptor], "in")
  /\ tag' = Set(tag, arg[Acceptor], ev)
  /\ arg' = Set(arg, Acceptor, None)
  /\ Goto(Acceptor, "start_thread")
  /\ UNCHANGED <<status, socketfd, recv_thread, thread_mx, ret, slot, poolShape, got_it,
                 wait_mx, close_mx, pending, ev, epollLocals, unpushed, tail, count,
                 conn, inbox, peer, accepts, sent>>

(* Faulty variant: the test of recv_thread inverted. *)
StartThreadInverted ==
  /\ pc[Acceptor] = "start_thread"
  /\ IF recv_thread # None
     THEN Call(Acceptor, "add_thread", "accept")
     ELSE Goto(Acceptor, "accept") /\ UNCHANGED ret
  /\ UNCHANGED <<status, socketfd, recv_thread, thread_mx, slot, poolShape,
                 socketVars, kernelVars>>

StartThread ==
  /\ pc[Acceptor] = "start_thread"
  /\ IF recv_thread = None
     THEN Call(Acceptor, "add_thread", "accept")
     ELSE Goto(Acceptor, "accept") /\ UNCHANGED ret
  /\ UNCHANGED <<status, socketfd, recv_thread, thread_mx, slot, poolShape,
                 socketVars, kernelVars>>

-----------------------------------------------------------------------------
AcceptStep ==
  TurnDown \/ AnswerFails \/ Upgrade \/ SetEvent \/ Register \/ StartThread

PoolStep(x) == ThreadStep(x) /\ UNCHANGED <<socketVars, kernelVars>>

ServerStep(x) ==
  PoolStep(x) \/ CloseSocket(x) \/ CloseSweep(x) \/ CloseReset(x) \/ ClearPending(x)

ThreadRuns(t) == ServerStep(t) \/ MsgRecvStep(t) \/ RecvEpollStep(t)

UserStep(t) == UserReturns(t) \/ WriteFails(t)

AcceptorRuns == ServerStep(Acceptor) \/ AcceptStep

ClientStep == PeerStep /\ UNCHANGED <<threadVars, socketVars>>

Next ==
  \/ \E t \in Threads : ThreadRuns(t) \/ UserStep(t)
  \/ AcceptorRuns
  \/ Accept \/ AcceptFails
  \/ ClientStep

Spec == Init /\ [][Next]_vars

(* Every thread keeps running.  Clients need not connect, send or close,   *)
(* and nothing says the application returns from a message.                *)
Fairness ==
  /\ \A t \in Threads : WF_vars(ThreadRuns(t))
  /\ WF_vars(AcceptorRuns)

ServerSpec == Spec /\ Fairness

(* The same when the application returns from every message. *)
ApplicationReturns == \A t \in Threads : WF_vars(UserStep(t))

FairSpec == ServerSpec /\ ApplicationReturns

-----------------------------------------------------------------------------
RecvLabels ==
  {"recv_epoll", "scan", "poll", "epoll_wait", "events", "give", "give_fd",
   "give_status", "give_ctl", "acknowledge", "drop", "leave", "give_up"}

WorkLabels ==
  {"msg_recv", "park", "park_status", "park_role", "wait", "wait_role", "wait_status",
   "wait_mx", "woken", "prefix", "read_loop", "recv", "refuse", "push", "push_pending",
   "epoll_on", "epoll_on_ctl", "announce", "announced", "user", "done"}

SubLabels ==
  {"get_thread", "get_own", "get_take", "get_mark", "add_thread", "add_store",
   "resize", "resize_mark", "resize_join", "resize_clear", "resize_fd",
   "close_socket", "close_sweep", "close_reset", "clear_pending"}

AcceptLabels ==
  {"accept", "handshake", "set_event", "register", "start_thread", "ended"}

Labels == RecvLabels \union WorkLabels \union SubLabels \union AcceptLabels
            \union {"off", "returned"}

(* Where subroutines return to. *)
Callers ==
  {"msg_recv", "park", "announce", "announced", "epoll_wait", "events", "give",
   "drop", "leave", "give_up", "accept"}

Descriptors == Sockets \union {None}

ControlTypeOK ==
  /\ pc \in [Actors -> Labels]
  /\ ret \in [Actors -> Callers \union {"none"}]
  /\ slot \in [Actors -> Threads \union {None}]
  /\ thread_list \in [Threads -> BOOLEAN]
  /\ recv_thread \in Threads \union {None}
  /\ thread_mx \in Actors \union {None}

PoolTypeOK ==
  /\ status \in [Threads -> Statuses]
  /\ socketfd \in [Threads -> Descriptors]
  /\ sweep \in [a : 0..MaxThread, amount : Nat]

SocketTypeOK ==
  /\ got_it \in BOOLEAN
  /\ wait_mx \in Threads \union {None}
  /\ close_mx \in Actors \union {None}
  /\ pending \in Seq(Descriptors)
  /\ ev \in Descriptors
  /\ b \in 0..MaxThread \union {None}
  /\ wait_amount \in Nat
  /\ loop_amount \in 0..(resize_while_loop + 1)
  /\ events \in Seq([fd : Descriptors, hup : BOOLEAN])
  /\ arg \in [Actors -> Descriptors]
  /\ unpushed \in [Threads -> Nat]
  /\ tail \subseteq Threads
  /\ count \in [Threads -> Nat]

KernelTypeOK ==
  /\ conn \in [Sockets -> {"free", "new", "open"}]
  /\ inbox \in [Sockets -> Nat]
  /\ peer \in [Sockets -> {"up", "fin", "rst"}]
  /\ interest \in [Sockets -> {"none", "in", "hup"}]
  /\ tag \in [Sockets -> Descriptors]
  /\ accepts \in 0..MaxAccepts
  /\ sent \in 0..MaxMessages

(* Type correctness of the pool, the socket server and the kernel.  The    *)
(* counters of messages and of threads to recycle never go below zero.     *)
(* (What the arrays are indexed with is in IndexInArray.)                  *)
TypeOK == ControlTypeOK /\ PoolTypeOK /\ SocketTypeOK /\ KernelTypeOK

(* Thread t is in recv_epoll, or in a function recv_epoll called. *)
InRecv(t) == pc[t] \in RecvLabels \/ ret[t] \in RecvLabels

(* The arrays of the pool are indexed with one of its slots, in all loops  *)
(* and hand-overs, with one exception: a reader that announces a message   *)
(* may find, in get_thread, that the receiver has just resigned, and look  *)
(* at status[-1], or mark it.  The receiver itself never does.             *)
IndexInArray ==
  /\ \A t \in Threads :
       /\ pc[t] \in {"get_own", "get_take"} /\ InRecv(t) => recv_thread \in Threads
       /\ pc[t] = "get_mark" /\ InRecv(t) => slot[t] \in Threads
       /\ pc[t] = "scan" => b \in 0..MaxThread
       /\ pc[t] \in {"give_fd", "give_status", "give_ctl", "acknowledge"} => b \in Threads
       /\ pc[t] \in {"resize_mark", "resize_join", "resize_clear", "resize_fd"}
            => sweep.a \in Threads
  /\ \A x \in Actors :
       pc[x] \in {"add_store", "close_sweep", "close_reset"} => slot[x] \in Threads

(* recv_thread names exactly the thread that runs recv_epoll, so two       *)
(* threads never poll, resize or hand sockets over at the same time.       *)
RecvExclusive == \A t \in Threads : InRecv(t) <=> recv_thread = t

(* resize joins a thread of another slot, through a pointer that is set,   *)
(* and never one that has been joined before.                              *)
JoinSafe ==
  \A x \in Threads : pc[x] = "resize_join" =>
    /\ sweep.a \in Threads \ {x}
    /\ thread_list[sweep.a]
    /\ pc[sweep.a] # "off"

(* During a hand-over the chosen slot runs a thread: recv_epoll never      *)
(* gives a socket to a thread that has returned, or to an empty slot.      *)
HandOverToLiveThread ==
  \A t \in Threads : pc[t] \in {"give_fd", "give_status", "give_ctl", "acknowledge"} =>
    pc[b] \notin {"off", "returned", "done"}

(* A slot that get_thread may choose runs a thread: the WAIT of a thread   *)
(* that has been joined does not stay behind.                              *)
WaitingIsLive ==
  \A a \in Threads : status[a] = "WAIT" => pc[a] \notin {"off", "returned"}

(* The part of msg_recv, and of the application's loop, in which a thread  *)
(* is bound to look at the pending list before it waits again.             *)
ServingLabels ==
  {"push", "push_pending", "epoll_on", "epoll_on_ctl", "announce", "announced",
   "user", "msg_recv"}

Serving(t) == pc[t] \in ServingLabels \/ ret[t] \in ServingLabels

(* A message on the pending list has a thread that will look for it: the   *)
(* announcement by READ_PREFIX may be lost, the message is not forgotten.  *)
(* Only a refused frame behind the messages of one read leaves one behind. *)
PendingServed ==
  (~MixedReads /\ pending # <<>>) => \E t \in Threads : Serving(t)

(* Once a client is connected the pool never runs empty: recycling leaves  *)
(* a thread that polls, or that comes back to poll.                        *)
PoolAlive ==
  ((\E s \in Sockets : interest[s] # "none") /\ pc[Acceptor] \in {"accept", "ended"})
    => \E t \in Threads : pc[t] \notin {"off", "returned", "done"}

(* While there is one connection, no two threads read from it at once, and *)
(* none reads it while it is armed: epoll_on arms it only after the read,  *)
(* and recv_epoll disarms a socket it hands over before it polls again.    *)
(* The reader may start earlier, as soon as it finds its socketfd set.     *)
OneReader ==
  MaxAccepts <= 1 =>
    \A t \in Threads : pc[t] = "recv" =>
      /\ \A u \in Threads \ {t} : pc[u] = "recv" => arg[t] # arg[u]
      /\ \/ interest[arg[t]] # "in"
         \/ \E u \in Threads \ {t} :
              pc[u] \in {"give_status", "give_ctl"} /\ Head(events).fd = arg[t]

(* add_thread, whoever calls it, starts a thread only in a slot that holds *)
(* none, running or returned.                                              *)
StartsInEmptySlot ==
  [][\A x \in Actors : pc[x] = "add_thread" /\ pc'[x] = "add_store"
                          => pc[slot'[x]] = "off"]_vars

(* The receiving role is given up only by a thread that has work to do, or *)
(* that was told to recycle; a waiting thread keeps polling.               *)
StepsDownWithWork ==
  [][recv_thread # None /\ recv_thread' = None => status[recv_thread] # "WAIT"]_vars

Life(a) ==
  CASE pc[a] = "off" -> "empty" [] pc[a] = "returned" -> "returned" [] OTHER -> "running"

(* The pool and the receiving role implement the abstract thread pool:     *)
(* no slot is used twice, no thread is joined before it returns, none      *)
(* returns with the role, and only the thread with the role joins.         *)
Pool == INSTANCE ThreadPool WITH life <- [a \in Threads |-> Life(a)], leader <- recv_thread

PoolIsThreadPool == Pool!PoolSpec

-----------------------------------------------------------------------------
(* Liveness *)

WaitLabels == {"wait", "wait_role", "wait_status", "wait_mx", "woken", "park",
               "park_status", "park_role"}

(* When the thread that polled has gone to work, a waiting thread polls in *)
(* its place, or is given work itself: it does not depend on an            *)
(* application that may take for ever.                                     *)
RoleReacquired ==
  \A t \in Threads :
    (recv_thread = None /\ pc[t] \in WaitLabels /\ status[t] = "WAIT")
      ~> (recv_thread # None \/ status[t] # "WAIT")

(* Pending messages are processed, whether or not their announcement is,   *)
(* as long as the application returns from every message.                  *)
PendingTaken ==
  ApplicationReturns /\ ~MixedReads => (pending # <<>> ~> pending = <<>>)

(* No thread dies or blocks with thread_mx. *)
LocksReleased == \A x \in Actors : thread_mx = x ~> thread_mx # x

(* Requests are processed in parallel: the scan of the slots ends, so the  *)
(* sockets are polled, while other threads process messages.               *)
ScanEnds == \A t \in Threads : pc[t] = "scan" ~> pc[t] # "scan"

(* A socket that is handed over is taken, so that the next event is served. *)
HandOverAcknowledged ==
  \A t \in Threads : pc[t] = "acknowledge" ~> pc[t] # "acknowledge"

(* A thread that is told to recycle returns, so resize can join it. *)
JoinEnds == \A t \in Threads : pc[t] = "resize_join" ~> pc[t] # "resize_join"

=============================================================================
