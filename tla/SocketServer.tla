---------------------------- MODULE SocketServer ----------------------------
(***************************************************************************)
(* class socket_server (hast_web/socket_server.cpp) with the application   *)
(* loop  while(msg_recv(i) != RECYCLE_THREAD){...} done(i);  around it.    *)
(*                                                                         *)
(* One thread of the pool holds the receiving role and runs recv_epoll; it *)
(* hands sockets to waiting threads through status, socketfd and got_it.   *)
(* The others wait in msg_recv's inner loop.  A message that is read along *)
(* with an earlier one goes to the pending list, and the reader asks other *)
(* threads, by READ_PREFIX, to take it from there.                         *)
(*                                                                         *)
(* Each action is one access, or one critical section, of one thread; the  *)
(* label of an action is the value of pc it starts from.  Messages are     *)
(* whole and unfragmented here.                                            *)
(***************************************************************************)
EXTENDS ServerThread, Kernel, SequencesExt

CONSTANTS
  resize_while_loop,   (* polls with idle threads before they are recycled   *)
  MixedReads           (* may one read hold messages and then a refused frame? *)

ASSUME SocketAssumption == resize_while_loop \in Nat /\ MixedReads \in BOOLEAN

VARIABLES
  got_it,              (* the worker's acknowledgement of a hand-over        *)
  wait_mx, close_mx,   (* holders of the mutexes, or None                    *)
  pending,             (* the sockets of the pending messages, oldest first  *)
  ev,                  (* data.fd of the shared epoll_event `ev'             *)
  b, wait_amount, loop_amount, events,   (* locals of recv_epoll             *)
  arg,                 (* per actor: the socket a call in progress works on  *)
  unpushed,            (* per thread: messages read, not yet in `pending'    *)
  tail,                (* threads that read a refused frame behind those     *)
  count                (* per thread: messages pushed, not yet announced     *)

poolShape == <<thread_list, sweep>>
epollLocals == <<b, wait_amount, loop_amount, events>>
socketVars == <<got_it, wait_mx, close_mx, pending, ev,
                b, wait_amount, loop_amount, events, arg, unpushed, tail, count>>

SocketInit ==
  /\ got_it = TRUE
  /\ wait_mx = None /\ close_mx = None
  /\ pending = <<>>
  /\ ev = None
  /\ b = 0 /\ wait_amount = 0 /\ loop_amount = 0 /\ events = <<>>
  /\ arg = [x \in Actors |-> None]
  /\ unpushed = [t \in Threads |-> 0]
  /\ tail = {}
  /\ count = [t \in Threads |-> 0]

Set(f, x, v) == [f EXCEPT ![x] = v]

-----------------------------------------------------------------------------
(* close_socket, called with the socket in arg[x] and ret[x] set.  Accept4  *)
(* may return the descriptor again before its last uses are swept away.    *)

CloseSocket(x) ==
  /\ pc[x] = "close_socket"
  /\ close_mx = None
  /\ IF arg[x] = None
     THEN /\ Return(x)
          /\ UNCHANGED <<close_mx, slot, kernelVars>>
     ELSE /\ close_mx' = x
          /\ CloseFd(arg[x])
          /\ slot' = Set(slot, x, 0)
          /\ Goto(x, "close_sweep") /\ UNCHANGED ret
  /\ UNCHANGED <<status, thread_list, socketfd, recv_thread, thread_mx,
                 sweep, got_it, wait_mx, pending, ev, epollLocals, arg, unpushed, tail, count>>

(* The loop tests and writes socketfd slot by slot, while recv_epoll and   *)
(* resize write it without close_mx.                                       *)
NextSwept(x) ==
  IF slot[x] + 1 < MaxThread
  THEN slot' = Set(slot, x, slot[x] + 1) /\ Goto(x, "close_sweep")
  ELSE slot' = Set(slot, x, None) /\ Goto(x, "clear_pending")

CloseSweep(x) ==
  /\ pc[x] = "close_sweep"
  /\ IF socketfd[slot[x]] = arg[x]
     THEN Goto(x, "close_reset") /\ UNCHANGED slot
     ELSE NextSwept(x)
  /\ UNCHANGED <<status, thread_list, socketfd, recv_thread, thread_mx, ret, sweep,
                 socketVars, kernelVars>>

CloseReset(x) ==
  /\ pc[x] = "close_reset"
  /\ socketfd' = Set(socketfd, slot[x], None)
  /\ NextSwept(x)
  /\ UNCHANGED <<status, thread_list, recv_thread, thread_mx, ret, sweep,
                 socketVars, kernelVars>>

(* clear_pending erases the first match and starts again until none is left. *)
ClearPending(x) ==
  /\ pc[x] = "clear_pending"
  /\ \/ /\ \E i \in 1..Len(pending) :
             /\ Lowest(i, {k \in 1..Len(pending) : pending[k] = arg[x]})
             /\ pending' = RemoveAt(pending, i)
        /\ UNCHANGED <<pc, ret, close_mx, arg>>
     \/ /\ ~Contains(pending, arg[x])
        /\ close_mx' = None
        /\ arg' = Set(arg, x, None)
        /\ Return(x)
        /\ UNCHANGED pending
  /\ UNCHANGED <<status, thread_list, socketfd, recv_thread, thread_mx, slot, sweep,
                 got_it, wait_mx, ev, epollLocals, unpushed, tail, count, kernelVars>>

(* The argument socketfd[t] is read before close_mx is taken. *)
CallClose(t, back) ==
  /\ arg' = Set(arg, t, socketfd[t])
  /\ Call(t, "close_socket", back)

-----------------------------------------------------------------------------
(* pop_pending *)

Pop(t) ==
  /\ pending # <<>>
  /\ socketfd' = Set(socketfd, t, Head(pending))
  /\ pending' = Tail(pending)

(* Faulty variant: the pending list is not looked at. *)
MsgRecvSkips(t) ==
  /\ pc[t] = "msg_recv"
  /\ Goto(t, "park")
  /\ UNCHANGED <<status, thread_list, socketfd, recv_thread, thread_mx, ret, slot, sweep,
                 socketVars, kernelVars>>

(* msg_recv is entered: a pending message is taken before anything else,   *)
(* and the thread leaves with whatever status it had.                      *)
MsgRecv(t) ==
  /\ pc[t] = "msg_recv"
  /\ close_mx = None
  /\ \/ Pop(t) /\ Goto(t, "user")
     \/ pending = <<>> /\ Goto(t, "park") /\ UNCHANGED <<socketfd, pending>>
  /\ UNCHANGED <<status, thread_list, recv_thread, thread_mx, ret, slot, sweep,
                 got_it, wait_mx, close_mx, ev, epollLocals, arg, unpushed, tail, count, kernelVars>>

-----------------------------------------------------------------------------
(* The head of msg_recv's loop: under thread_mx, but recv_epoll and resize *)
(* write socketfd and status without it.                                   *)

Park(t) ==
  /\ pc[t] = "park"
  /\ thread_mx = None
  /\ thread_mx' = t
  /\ socketfd' = Set(socketfd, t, None)
  /\ Goto(t, "park_status")
  /\ UNCHANGED <<status, thread_list, recv_thread, ret, slot, sweep, socketVars, kernelVars>>

ParkStatus(t) ==
  /\ pc[t] = "park_status"
  /\ status' = Set(status, t, "WAIT")
  /\ Goto(t, "park_role")
  /\ UNCHANGED <<thread_list, socketfd, recv_thread, thread_mx, ret, slot, sweep,
                 socketVars, kernelVars>>

(* Faulty variant: the role is taken without testing recv_thread. *)
ParkRoleUntested(t) ==
  /\ pc[t] = "park_role"
  /\ thread_mx' = None
  /\ recv_thread' = t /\ Goto(t, "recv_epoll")
  /\ UNCHANGED <<status, thread_list, socketfd, ret, slot, sweep, socketVars, kernelVars>>

ParkRole(t) ==
  /\ pc[t] = "park_role"
  /\ thread_mx' = None
  /\ IF recv_thread = None
     THEN recv_thread' = t /\ Goto(t, "recv_epoll")
     ELSE Goto(t, "wait") /\ UNCHANGED recv_thread
  /\ UNCHANGED <<status, thread_list, socketfd, ret, slot, sweep, socketVars, kernelVars>>

(* The inner loop: four reads of shared fields in turn. *)

Wait(t) ==
  /\ pc[t] = "wait"
  /\ Goto(t, IF status[t] \in {"READ", "READ_PREFIX"} THEN "woken"
             ELSE IF status[t] = "RECYCLE" THEN "done"
             ELSE "wait_role")
  /\ UNCHANGED <<status, thread_list, socketfd, recv_thread, thread_mx, ret, slot,
                 sweep, socketVars, kernelVars>>

(* Faulty variant: a waiting thread does not look for a vacant role. *)
WaitRoleUnread(t) ==
  /\ pc[t] = "wait_role"
  /\ Goto(t, "wait_mx")
  /\ UNCHANGED <<status, thread_list, socketfd, recv_thread, thread_mx, ret, slot,
                 sweep, socketVars, kernelVars>>

WaitRole(t) ==
  /\ pc[t] = "wait_role"
  /\ Goto(t, IF recv_thread = None THEN "wait_status" ELSE "wait_mx")
  /\ UNCHANGED <<status, thread_list, socketfd, recv_thread, thread_mx, ret, slot,
                 sweep, socketVars, kernelVars>>

WaitStatus(t) ==
  /\ pc[t] = "wait_status"
  /\ Goto(t, IF status[t] = "WAIT" THEN "woken" ELSE "wait")
  /\ UNCHANGED <<status, thread_list, socketfd, recv_thread, thread_mx, ret, slot,
                 sweep, socketVars, kernelVars>>

(* Blocks while the receiving thread polls. *)
WaitMx(t) ==
  /\ pc[t] = "wait_mx"
  /\ wait_mx = None
  /\ Goto(t, "wait")
  /\ UNCHANGED <<status, thread_list, socketfd, recv_thread, thread_mx, ret, slot,
                 sweep, socketVars, kernelVars>>

(* After the inner loop the status is read again; whatever is neither WAIT *)
(* nor READ_PREFIX is taken for READ.                                      *)
Woken(t) ==
  /\ pc[t] = "woken"
  /\ Goto(t, CASE status[t] = "WAIT" -> "park"
               [] status[t] = "READ_PREFIX" -> "prefix"
               [] OTHER -> "read_loop")
  /\ got_it' = (got_it \/ status[t] \notin {"WAIT", "READ_PREFIX"})
  /\ UNCHANGED <<status, thread_list, socketfd, recv_thread, thread_mx, ret, slot, sweep,
                 wait_mx, close_mx, pending, ev, epollLocals, arg, unpushed, tail, count, kernelVars>>

Prefix(t) ==
  /\ pc[t] = "prefix"
  /\ close_mx = None
  /\ \/ /\ Pop(t)
        /\ status' = Set(status, t, "BUSY")
        /\ Goto(t, "user")
     \/ /\ pending = <<>>
        /\ Goto(t, "park")
        /\ UNCHANGED <<status, socketfd, pending>>
  /\ UNCHANGED <<thread_list, recv_thread, thread_mx, ret, slot, sweep, got_it,
                 wait_mx, close_mx, ev, epollLocals, arg, unpushed, tail, count, kernelVars>>

-----------------------------------------------------------------------------
(* more_data with read_loop, for whole messages *)

ReadLoop(t) ==
  /\ pc[t] = "read_loop"
  /\ IF socketfd[t] = None
     THEN Goto(t, "refuse") /\ UNCHANGED arg
     ELSE Goto(t, "recv") /\ arg' = Set(arg, t, socketfd[t])
  /\ UNCHANGED <<status, thread_list, socketfd, recv_thread, thread_mx, ret, slot, sweep,
                 got_it, wait_mx, close_mx, pending, ev, epollLocals, unpushed, tail, count,
                 kernelVars>>

(* recv on the socket read_loop started with: everything in its buffer, or *)
(* nothing within 3 s, the end of the stream or an error.                  *)
Recv(t) ==
  /\ pc[t] = "recv"
  /\ LET s == arg[t]
     IN /\ inbox' = Set(inbox, s, 0)
        /\ \/ /\ inbox[s] > 0
              /\ \/ peer[s] = "up" /\ UNCHANGED tail
                 \/ peer[s] = "fin" /\ MixedReads /\ tail' = tail \union {t}
              /\ unpushed' = Set(unpushed, t, inbox[s] - 1)
              /\ Goto(t, "push")
           \/ /\ inbox[s] = 0 \/ peer[s] # "up"
              /\ Goto(t, "refuse")
              /\ UNCHANGED <<unpushed, tail>>
  /\ arg' = Set(arg, t, None)
  /\ UNCHANGED <<status, thread_list, socketfd, recv_thread, thread_mx, ret, slot, sweep,
                 got_it, wait_mx, close_mx, pending, ev, epollLocals, count,
                 conn, peer, interest, tag, accepts, sent>>

(* close_socket(socketfd[t]), the argument read once more; back to the     *)
(* head of the loop.                                                       *)
Refuse(t) ==
  /\ pc[t] = "refuse"
  /\ CallClose(t, "park")
  /\ UNCHANGED <<status, thread_list, socketfd, recv_thread, thread_mx, slot, sweep,
                 got_it, wait_mx, close_mx, pending, ev, epollLocals, unpushed, tail, count,
                 kernelVars>>

(* push_pending(socketfd[t], ...) for every message after the first: the   *)
(* argument is read before close_mx is taken.  A refused frame at the end  *)
(* drops the first message and forgets to announce the others.             *)
Push(t) ==
  /\ pc[t] = "push"
  /\ \/ /\ unpushed[t] > 0
        /\ arg' = Set(arg, t, socketfd[t])
        /\ Goto(t, "push_pending")
        /\ UNCHANGED <<tail, count>>
     \/ /\ unpushed[t] = 0 /\ t \notin tail
        /\ Goto(t, "epoll_on")
        /\ UNCHANGED <<arg, tail, count>>
     \/ /\ unpushed[t] = 0 /\ t \in tail
        /\ tail' = tail \ {t}
        /\ count' = Set(count, t, 0)
        /\ Goto(t, "refuse")
        /\ UNCHANGED arg
  /\ UNCHANGED <<status, socketfd, recv_thread, thread_mx, ret, slot, poolShape, got_it,
                 wait_mx, close_mx, pending, ev, epollLocals, unpushed, kernelVars>>

PushPending(t) ==
  /\ pc[t] = "push_pending"
  /\ close_mx = None
  /\ pending' = Append(pending, arg[t])
  /\ unpushed' = Set(unpushed, t, unpushed[t] - 1)
  /\ count' = Set(count, t, count[t] + 1)
  /\ arg' = Set(arg, t, None)
  /\ Goto(t, "push")
  /\ UNCHANGED <<status, socketfd, recv_thread, thread_mx, ret, slot, poolShape, got_it,
                 wait_mx, close_mx, ev, epollLocals, tail, kernelVars>>

-----------------------------------------------------------------------------
(* epoll_on: close_mx guards `ev' against other workers, not against       *)
(* start_accept.                                                           *)

EpollOn(t) ==
  /\ pc[t] = "epoll_on"
  /\ close_mx = None
  /\ IF socketfd[t] = None
     THEN Goto(t, "announce") /\ UNCHANGED <<close_mx, ev>>
     ELSE Goto(t, "epoll_on_ctl") /\ close_mx' = t /\ ev' = socketfd[t]
  /\ UNCHANGED <<status, socketfd, recv_thread, thread_mx, ret, slot, poolShape, got_it,
                 wait_mx, pending, epollLocals, arg, unpushed, tail, count, kernelVars>>

EpollOnCtl(t) ==
  /\ pc[t] = "epoll_on_ctl"
  /\ EpollMod(socketfd[t], "in", ev)
  /\ close_mx' = None
  /\ Goto(t, "announce")
  /\ UNCHANGED <<status, socketfd, recv_thread, thread_mx, ret, slot, poolShape, got_it,
                 wait_mx, pending, ev, epollLocals, arg, unpushed, tail, count>>

(* For every pushed message: a waiting thread is told to take it, or a new *)
(* thread is started for it.  Then msg_recv returns, the status still READ. *)
Announce(t) ==
  /\ pc[t] = "announce"
  /\ IF count[t] = 0
     THEN Goto(t, "user") /\ UNCHANGED ret
     ELSE Call(t, "get_thread", "announced")
  /\ UNCHANGED <<status, socketfd, recv_thread, thread_mx, slot, poolShape,
                 socketVars, kernelVars>>

Announced(t) ==
  /\ pc[t] = "announced"
  /\ IF slot[t] = None
     THEN Call(t, "add_thread", "announce") /\ UNCHANGED status
     ELSE status' = Set(status, slot[t], "READ_PREFIX") /\ Goto(t, "announce") /\ UNCHANGED ret
  /\ slot' = Set(slot, t, None)
  /\ count' = Set(count, t, count[t] - 1)
  /\ UNCHANGED <<socketfd, recv_thread, thread_mx, poolShape, got_it, wait_mx, close_mx,
                 pending, ev, epollLocals, arg, unpushed, tail, kernelVars>>

(* done(), which the application calls when msg_recv returns RECYCLE_THREAD, *)
(* and the end of the thread function.                                     *)
Done(t) ==
  /\ pc[t] = "done"
  /\ status' = Set(status, t, "RECYCLE")
  /\ Goto(t, "returned")
  /\ UNCHANGED <<socketfd, recv_thread, thread_mx, ret, slot, poolShape, socketVars, kernelVars>>

-----------------------------------------------------------------------------
(* recv_epoll *)

RecvEpoll(t) ==
  /\ pc[t] = "recv_epoll"
  /\ got_it
  /\ Goto(t, "scan")
  /\ UNCHANGED <<status, socketfd, recv_thread, thread_mx, ret, slot, poolShape,
                 socketVars, kernelVars>>

(* Faulty variant: READ_PREFIX is looked for in every slot. *)
ScanAnyPrefix(t) ==
  /\ pc[t] = "scan"
  /\ \/ /\ b = MaxThread
        /\ Goto(t, "poll") /\ UNCHANGED <<b, wait_amount>>
     \/ /\ b < MaxThread /\ status[b] = "READ_PREFIX"
        /\ Goto(t, "leave") /\ UNCHANGED <<b, wait_amount>>
     \/ /\ b < MaxThread /\ status[b] \notin {"READ_PREFIX", "READ"}
        /\ b' = b + 1
        /\ wait_amount' = wait_amount + (IF status[b] = "WAIT" THEN 1 ELSE 0)
        /\ UNCHANGED pc
  /\ UNCHANGED <<status, socketfd, recv_thread, thread_mx, ret, slot, poolShape, got_it,
                 wait_mx, close_mx, pending, ev, loop_amount, events, arg, unpushed, tail, count,
                 kernelVars>>

(* Counts the waiting slots; spins on a slot whose status is READ; gives   *)
(* the role up when a pending message was announced to this thread.        *)
Scan(t) ==
  /\ pc[t] = "scan"
  /\ \/ /\ b = MaxThread
        /\ Goto(t, "poll") /\ UNCHANGED <<b, wait_amount>>
     \/ /\ b < MaxThread /\ status[t] = "READ_PREFIX"
        /\ Goto(t, "leave") /\ UNCHANGED <<b, wait_amount>>
     \/ /\ b < MaxThread /\ status[t] # "READ_PREFIX" /\ status[b] # "READ"
        /\ b' = b + 1
        /\ wait_amount' = wait_amount + (IF status[b] = "WAIT" THEN 1 ELSE 0)
        /\ UNCHANGED pc
  /\ UNCHANGED <<status, socketfd, recv_thread, thread_mx, ret, slot, poolShape, got_it,
                 wait_mx, close_mx, pending, ev, loop_amount, events, arg, unpushed, tail, count,
                 kernelVars>>

(* loop_amount saturates: only its being above resize_while_loop matters.  *)
Poll(t) ==
  /\ pc[t] = "poll"
  /\ wait_mx = None
  /\ wait_mx' = t
  /\ LET loops == IF wait_amount <= 1 THEN 0
                  ELSE IF loop_amount > resize_while_loop THEN loop_amount
                  ELSE loop_amount + 1
     IN /\ loop_amount' = loops
        /\ sweep' = [a |-> 0, amount |-> IF loops > resize_while_loop THEN wait_amount - 1 ELSE 0]
  /\ Call(t, "resize", "epoll_wait")
  /\ UNCHANGED <<status, thread_list, socketfd, recv_thread, thread_mx, slot, got_it,
                 close_mx, pending, ev, b, wait_amount, events, arg, unpushed, tail, count, kernelVars>>

EpollWait(t) ==
  /\ pc[t] = "epoll_wait"
  /\ Ready # {}
  /\ events' \in EventLists
  /\ wait_mx' = None
  /\ Goto(t, "events")
  /\ UNCHANGED <<status, socketfd, recv_thread, thread_mx, ret, slot, poolShape, got_it,
                 close_mx, pending, ev, b, wait_amount, loop_amount, arg, unpushed, tail, count,
                 kernelVars>>

(* The events in turn; after the last one the thread polls again unless it *)
(* gave that last socket to itself.                                        *)
Events(t) ==
  /\ pc[t] = "events"
  /\ \/ /\ events = <<>> /\ b = recv_thread
        /\ Call(t, "add_thread", "leave")
        /\ UNCHANGED <<b, wait_amount, events, arg>>
     \/ /\ events = <<>> /\ b # recv_thread
        /\ b' = 0 /\ wait_amount' = 0
        /\ Goto(t, "scan") /\ UNCHANGED <<ret, events, arg>>
     \/ /\ events # <<>> /\ Head(events).hup
        /\ arg' = Set(arg, t, Head(events).fd)
        /\ events' = Tail(events)
        /\ Call(t, "close_socket", "events")
        /\ UNCHANGED <<b, wait_amount>>
     \/ /\ events # <<>> /\ ~Head(events).hup
        /\ Call(t, "get_thread", "give")
        /\ UNCHANGED <<b, wait_amount, events, arg>>
  /\ UNCHANGED <<status, socketfd, recv_thread, thread_mx, slot, poolShape, got_it, wait_mx,
                 close_mx, pending, ev, loop_amount, unpushed, tail, count, kernelVars>>

(* The hand-over, five unlocked steps: got_it, socketfd, status, epoll_ctl *)
(* and the wait for the acknowledgement.                                   *)

(* Faulty variant: that get_thread found no thread is not tested. *)
GiveUntested(t) ==
  /\ pc[t] = "give"
  /\ b' = slot[t]
  /\ slot' = Set(slot, t, None)
  /\ Goto(t, "give_fd") /\ got_it' = FALSE
  /\ UNCHANGED <<status, socketfd, recv_thread, thread_mx, ret, poolShape, wait_mx, close_mx,
                 pending, ev, wait_amount, loop_amount, events, arg, unpushed, tail, count, kernelVars>>

Give(t) ==
  /\ pc[t] = "give"
  /\ b' = slot[t]
  /\ slot' = Set(slot, t, None)
  /\ IF slot[t] = None
     THEN Goto(t, "drop") /\ UNCHANGED got_it
     ELSE Goto(t, "give_fd") /\ got_it' = FALSE
  /\ UNCHANGED <<status, socketfd, recv_thread, thread_mx, ret, poolShape, wait_mx, close_mx,
                 pending, ev, wait_amount, loop_amount, events, arg, unpushed, tail, count, kernelVars>>

GiveFd(t) ==
  /\ pc[t] = "give_fd"
  /\ socketfd' = Set(socketfd, b, Head(events).fd)
  /\ Goto(t, "give_status")
  /\ UNCHANGED <<status, recv_thread, thread_mx, ret, slot, poolShape, socketVars, kernelVars>>

GiveStatus(t) ==
  /\ pc[t] = "give_status"
  /\ status' = Set(status, b, "READ")
  /\ Goto(t, "give_ctl")
  /\ UNCHANGED <<socketfd, recv_thread, thread_mx, ret, slot, poolShape, socketVars, kernelVars>>

(* Faulty variant: the socket stays armed for EPOLLIN. *)
GiveCtlArmed(t) ==
  /\ pc[t] = "give_ctl"
  /\ EpollMod(Head(events).fd, "in", Head(events).fd)
  /\ events' = Tail(events)
  /\ Goto(t, IF b = recv_thread THEN "events" ELSE "acknowledge")
  /\ UNCHANGED <<status, socketfd, recv_thread, thread_mx, ret, slot, poolShape, got_it, wait_mx,
                 close_mx, pending, ev, b, wait_amount, loop_amount, arg, unpushed, tail, count>>

GiveCtl(t) ==
  /\ pc[t] = "give_ctl"
  /\ EpollMod(Head(events).fd, "hup", Head(events).fd)
  /\ events' = Tail(events)
  /\ Goto(t, IF b = recv_thread THEN "events" ELSE "acknowledge")
  /\ UNCHANGED <<status, socketfd, recv_thread, thread_mx, ret, slot, poolShape, got_it, wait_mx,
                 close_mx, pending, ev, b, wait_amount, loop_amount, arg, unpushed, tail, count>>

Acknowledge(t) ==
  /\ pc[t] = "acknowledge"
  /\ got_it
  /\ Goto(t, "events")
  /\ UNCHANGED <<status, socketfd, recv_thread, thread_mx, ret, slot, poolShape,
                 socketVars, kernelVars>>

(* No thread was free: one is started for every event left, if there is    *)
(* room, and the events are left to the next poll.                         *)
Drop(t) ==
  /\ pc[t] = "drop"
  /\ IF events = <<>>
     THEN Goto(t, "leave") /\ UNCHANGED <<ret, events>>
     ELSE Call(t, "add_thread", "drop") /\ events' = Tail(events)
  /\ UNCHANGED <<status, socketfd, recv_thread, thread_mx, slot, poolShape, got_it, wait_mx,
                 close_mx, pending, ev, b, wait_amount, loop_amount, arg, unpushed, tail, count,
                 kernelVars>>

Leave(t) ==
  /\ pc[t] = "leave"
  /\ sweep' = NoSweep
  /\ Call(t, "resize", "give_up")
  /\ UNCHANGED <<status, thread_list, socketfd, recv_thread, thread_mx, slot,
                 socketVars, kernelVars>>

GiveUp(t) ==
  /\ pc[t] = "give_up"
  /\ recv_thread' = None
  /\ b' = 0 /\ wait_amount' = 0 /\ loop_amount' = 0
  /\ Goto(t, "wait")
  /\ UNCHANGED <<status, socketfd, thread_mx, ret, slot, poolShape, got_it, wait_mx, close_mx,
                 pending, ev, events, arg, unpushed, tail, count, kernelVars>>

-----------------------------------------------------------------------------
MsgRecvStep(t) ==
  \/ MsgRecv(t) \/ Park(t) \/ ParkStatus(t) \/ ParkRole(t)
  \/ Wait(t) \/ WaitRole(t) \/ WaitStatus(t) \/ WaitMx(t) \/ Woken(t) \/ Prefix(t)
  \/ ReadLoop(t) \/ Recv(t) \/ Refuse(t) \/ Push(t) \/ PushPending(t)
  \/ EpollOn(t) \/ EpollOnCtl(t) \/ Announce(t) \/ Announced(t) \/ Done(t)

RecvEpollStep(t) ==
  \/ RecvEpoll(t) \/ Scan(t) \/ Poll(t) \/ EpollWait(t) \/ Events(t)
  \/ Give(t) \/ GiveFd(t) \/ GiveStatus(t) \/ GiveCtl(t) \/ Acknowledge(t)
  \/ Drop(t) \/ Leave(t) \/ GiveUp(t)

=============================================================================
