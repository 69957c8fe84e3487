---------------------------- MODULE WsPoolProofs ----------------------------
(***************************************************************************)
(* The thread pool of WsServer, for every number of threads, sockets and   *)
(* messages: which slots run a thread, which of them resize may join, which *)
(* of them recv_epoll may hand a socket to.                                *)
(***************************************************************************)
EXTENDS WsTypeProofs

CloseLabels == {"close_socket", "close_sweep", "close_reset", "clear_pending"}

(* Each subroutine is called from its own places only. *)
CallFits(x) ==
  /\ pc[x] \in {"get_thread", "get_own", "get_take", "get_mark"} => ret[x] \in {"announced", "give"}
  /\ pc[x] \in {"add_thread", "add_store"} => ret[x] \in {"announce", "leave", "drop", "accept"}
  /\ pc[x] \in ResizeLabels => ret[x] \in {"epoll_wait", "give_up"}
  /\ pc[x] \in CloseLabels => ret[x] \in {"msg_recv", "park", "events", "accept"}

CallsFit == \A x \in Actors : CallFits(x)

(* The slot runs a thread that has not decided to return. *)
Alive(t) == pc[t] \notin {"off", "returned", "done"}

(* The slot is empty, or its thread has not yet set its status. *)
Fresh(a) ==
  pc[a] \in {"off", "msg_recv", "user", "park", "park_status"} \/ ret[a] = "msg_recv"

Clearing(a) == \E x \in Threads : pc[x] = "resize_clear" /\ sweep.a = a

(* A slot with a pointer holds a thread, running or returned; the slot     *)
(* add_thread is about to store the pointer of has none yet.               *)
PointerHasThread == \A a \in Threads : thread_list[a] => pc[a] # "off"

StoringPointer ==
  \A x \in Actors : pc[x] = "add_store" =>
    slot[x] \in Threads /\ ~thread_list[slot[x]] /\ pc[slot[x]] # "off"

(* resize marks or joins slots with a pointer only. *)
ResizeTarget ==
  \A x \in Threads : pc[x] \in {"resize_mark", "resize_join"} => thread_list[sweep.a]

(* RECYCLE stands at a slot with a pointer, but for the slot resize has    *)
(* just joined: a new thread there has not looked at its status yet.       *)
RecycledHasPointer ==
  \A a \in Threads : status[a] = "RECYCLE" => thread_list[a] \/ (Clearing(a) /\ Fresh(a))

DoneHasPointer == \A a \in Threads : pc[a] = "done" => thread_list[a]

WaitingIsAlive == \A a \in Threads : status[a] = "WAIT" => Alive(a)

SlotsFit ==
  /\ PointerHasThread /\ StoringPointer /\ ResizeTarget
  /\ RecycledHasPointer /\ DoneHasPointer /\ WaitingIsAlive

-----------------------------------------------------------------------------
(* A step of x outside of resize, as the other slots see it: only x may    *)
(* set its status to WAIT or RECYCLE, only x decides to return, a thread   *)
(* appears in one empty slot without a pointer only, and the role is taken *)
(* in msg_recv when it is vacant and given up at the end of recv_epoll.    *)
Calm(x) ==
  /\ sweep' = sweep
  /\ pc[x] \notin ResizeLabels \union {"off", "returned"}
  /\ pc'[x] \notin ResizeLabels \union {"off", "give_up"}
  /\ pc'[x] = "returned" <=> pc[x] = "done"
  /\ pc'[x] = "done" => pc[x] = "wait" /\ status[x] = "RECYCLE"
  /\ pc'[x] = "add_store" =>
       pc[x] = "add_thread" /\ slot'[x] \in Threads /\ ~thread_list'[slot'[x]]
         /\ pc[slot'[x]] = "off" /\ pc'[slot'[x]] = "msg_recv"
  /\ \A y \in Actors \ {x} :
       /\ ret'[y] = ret[y] /\ slot'[y] = slot[y]
       /\ \/ pc'[y] = pc[y]
          \/ /\ pc[y] = "off" /\ pc'[y] = "msg_recv" /\ y \in Threads /\ ~thread_list[y]
             /\ y = slot'[x] /\ pc'[x] = "add_store"
  /\ \A a \in Threads :
       /\ status'[a] = "RECYCLE" => status[a] = "RECYCLE" \/ (a = x /\ pc[x] = "done")
       /\ status'[a] = "WAIT" => status[a] = "WAIT" \/ (a = x /\ pc'[x] = "park_role")
       /\ thread_list'[a] <=> thread_list[a] \/ (pc[x] = "add_store" /\ slot[x] = a)
  /\ \/ recv_thread' = recv_thread
     \/ pc[x] = "park_role" /\ recv_thread = None /\ recv_thread' = x
     \/ pc[x] = "give_up" /\ x \in Threads /\ recv_thread' = None
  /\ pc[x] = "park_role" => pc'[x] \in {"recv_epoll", "wait"}
  /\ x \in Threads /\ status'[x] = "RECYCLE" /\ Fresh(x) => Fresh(x)'

LEMMA PoolCallsFit ==
  ASSUME ControlTypeOK, Control, CallsFit, NEW x \in Actors, GetThreadScan(x)
         \/ GetThreadOwn(x) \/ GetThreadTake(x) \/ GetThreadMark(x) \/
         AddThreadStart(x) \/ AddThreadStore(x) \/ ResizeEnd(x) \/
         ResizeLook(x) \/ ResizeMark(x) \/ ResizeJoin(x) \/ ResizeClear(x) \/
         ResizeFd(x) \/ CloseSocket(x) \/ CloseSweep(x) \/ CloseReset(x) \/
         ClearPending(x)
  PROVE CallsFit'
<1> USE ActorFacts
       DEF ControlTypeOK, CallsFit, CallFits, Goto, Call, Return, Set, poolShape, socketVars,
           ResizeLabels, CloseLabels
<1>1. ret[x] \in Callers \union {"none"}
  OBVIOUS
<1>2. pc[x] \in SubLabels => ret[x] \in Callers /\ ret[x] \notin SubLabels
  BY DEF Control, CallsReturn, Callers, SubLabels
<1>GetThreadScan. CASE GetThreadScan(x)
  BY <1>GetThreadScan, <1>1, <1>2 DEF SubLabels, GetThreadScan
<1>GetThreadOwn. CASE GetThreadOwn(x)
  BY <1>GetThreadOwn, <1>1, <1>2 DEF SubLabels, GetThreadOwn
<1>GetThreadTake. CASE GetThreadTake(x)
  BY <1>GetThreadTake, <1>1, <1>2 DEF SubLabels, GetThreadTake
<1>GetThreadMark. CASE GetThreadMark(x)
  BY <1>GetThreadMark, <1>1, <1>2 DEF SubLabels, GetThreadMark
<1>AddThreadStart. CASE AddThreadStart(x)
  BY <1>AddThreadStart, <1>1, <1>2 DEF SubLabels, AddThreadStart, Free, Lowest
<1>AddThreadStore. CASE AddThreadStore(x)
  BY <1>AddThreadStore, <1>1, <1>2 DEF SubLabels, AddThreadStore
<1>ResizeEnd. CASE ResizeEnd(x)
  BY <1>ResizeEnd, <1>1, <1>2 DEF SubLabels, ResizeEnd, NoSweep
<1>ResizeLook. CASE ResizeLook(x)
  BY <1>ResizeLook, <1>1, <1>2 DEF SubLabels, ResizeLook
<1>ResizeMark. CASE ResizeMark(x)
  BY <1>ResizeMark, <1>1, <1>2 DEF SubLabels, ResizeMark
<1>ResizeJoin. CASE ResizeJoin(x)
  BY <1>ResizeJoin, <1>1, <1>2 DEF SubLabels, ResizeJoin
<1>ResizeClear. CASE ResizeClear(x)
  BY <1>ResizeClear, <1>1, <1>2 DEF SubLabels, ResizeClear
<1>ResizeFd. CASE ResizeFd(x)
  BY <1>ResizeFd, <1>1, <1>2 DEF SubLabels, ResizeFd
<1>CloseSocket. CASE CloseSocket(x)
  BY <1>CloseSocket, <1>1, <1>2 DEF SubLabels, CloseSocket
<1>CloseSweep. CASE CloseSweep(x)
  BY <1>CloseSweep, <1>1, <1>2 DEF SubLabels, CloseSweep, NextSwept
<1>CloseReset. CASE CloseReset(x)
  BY <1>CloseReset, <1>1, <1>2 DEF SubLabels, CloseReset, NextSwept
<1>ClearPending. CASE ClearPending(x)
  BY <1>ClearPending, <1>1, <1>2 DEF SubLabels, ClearPending
<1> QED
  BY <1>GetThreadScan, <1>GetThreadOwn, <1>GetThreadTake, <1>GetThreadMark, <1>AddThreadStart,
     <1>AddThreadStore, <1>ResizeEnd, <1>ResizeLook, <1>ResizeMark, <1>ResizeJoin, <1>ResizeClear,
     <1>ResizeFd, <1>CloseSocket, <1>CloseSweep, <1>CloseReset, <1>ClearPending

LEMMA MsgRecvCallsFit ==
  ASSUME ControlTypeOK, Control, CallsFit, NEW t \in Threads, MsgRecv(t) \/
         Park(t) \/ ParkStatus(t) \/ ParkRole(t) \/ Wait(t) \/ WaitRole(t) \/
         WaitStatus(t) \/ WaitMx(t) \/ Woken(t) \/ Prefix(t) \/ ReadLoop(t) \/
         Recv(t) \/ Refuse(t) \/ Push(t) \/ PushPending(t) \/ EpollOn(t) \/
         EpollOnCtl(t) \/ Announce(t) \/ Announced(t) \/ Done(t)
  PROVE CallsFit'
<1> USE ActorFacts
       DEF ControlTypeOK, CallsFit, CallFits, Goto, Call, Return, Set, poolShape, socketVars,
           ResizeLabels, CloseLabels
<1>1. ret[t] \in Callers \union {"none"}
  OBVIOUS
<1>2. pc[t] \in SubLabels => ret[t] \in Callers /\ ret[t] \notin SubLabels
  BY DEF Control, CallsReturn, Callers, SubLabels
<1>MsgRecv. CASE MsgRecv(t)
  BY <1>MsgRecv, <1>1, <1>2 DEF MsgRecv, Pop
<1>Park. CASE Park(t)
  BY <1>Park, <1>1, <1>2 DEF Park
<1>ParkStatus. CASE ParkStatus(t)
  BY <1>ParkStatus, <1>1, <1>2 DEF ParkStatus
<1>ParkRole. CASE ParkRole(t)
  BY <1>ParkRole, <1>1, <1>2 DEF ParkRole
<1>Wait. CASE Wait(t)
  BY <1>Wait, <1>1, <1>2 DEF Wait
<1>WaitRole. CASE WaitRole(t)
  BY <1>WaitRole, <1>1, <1>2 DEF WaitRole
<1>WaitStatus. CASE WaitStatus(t)
  BY <1>WaitStatus, <1>1, <1>2 DEF WaitStatus
<1>WaitMx. CASE WaitMx(t)
  BY <1>WaitMx, <1>1, <1>2 DEF WaitMx
<1>Woken. CASE Woken(t)
  BY <1>Woken, <1>1, <1>2 DEF Woken
<1>Prefix. CASE Prefix(t)
  BY <1>Prefix, <1>1, <1>2 DEF Prefix, Pop
<1>ReadLoop. CASE ReadLoop(t)
  BY <1>ReadLoop, <1>1, <1>2 DEF ReadLoop
<1>Recv. CASE Recv(t)
  BY <1>Recv, <1>1, <1>2 DEF Recv
<1>Refuse. CASE Refuse(t)
  BY <1>Refuse, <1>1, <1>2 DEF Refuse, CallClose
<1>Push. CASE Push(t)
  BY <1>Push, <1>1, <1>2 DEF Push
<1>PushPending. CASE PushPending(t)
  BY <1>PushPending, <1>1, <1>2 DEF PushPending
<1>EpollOn. CASE EpollOn(t)
  BY <1>EpollOn, <1>1, <1>2 DEF EpollOn
<1>EpollOnCtl. CASE EpollOnCtl(t)
  BY <1>EpollOnCtl, <1>1, <1>2 DEF EpollOnCtl
<1>Announce. CASE Announce(t)
  BY <1>Announce, <1>1, <1>2 DEF Announce
<1>Announced. CASE Announced(t)
  BY <1>Announced, <1>1, <1>2 DEF Announced
<1>Done. CASE Done(t)
  BY <1>Done, <1>1, <1>2 DEF Done
<1> QED
  BY <1>MsgRecv, <1>Park, <1>ParkStatus, <1>ParkRole, <1>Wait, <1>WaitRole, <1>WaitStatus,
     <1>WaitMx, <1>Woken, <1>Prefix, <1>ReadLoop, <1>Recv, <1>Refuse, <1>Push, <1>PushPending,
     <1>EpollOn, <1>EpollOnCtl, <1>Announce, <1>Announced, <1>Done

LEMMA RecvEpollCallsFit ==
  ASSUME ControlTypeOK, Control, CallsFit, NEW t \in Threads, RecvEpoll(t) \/
         Scan(t) \/ Poll(t) \/ EpollWait(t) \/ Events(t) \/ Give(t) \/
         GiveFd(t) \/ GiveStatus(t) \/ GiveCtl(t) \/ Acknowledge(t) \/ Drop(t)
         \/ Leave(t) \/ GiveUp(t)
  PROVE CallsFit'
<1> USE ActorFacts
       DEF ControlTypeOK, CallsFit, CallFits, Goto, Call, Return, Set, poolShape, socketVars,
           ResizeLabels, CloseLabels
<1>1. ret[t] \in Callers \union {"none"}
  OBVIOUS
<1>2. pc[t] \in SubLabels => ret[t] \in Callers /\ ret[t] \notin SubLabels
  BY DEF Control, CallsReturn, Callers, SubLabels
<1>RecvEpoll. CASE RecvEpoll(t)
  BY <1>RecvEpoll, <1>1, <1>2 DEF RecvEpoll
<1>Scan. CASE Scan(t)
  BY <1>Scan, <1>1, <1>2 DEF Scan
<1>Poll. CASE Poll(t)
  BY <1>Poll, <1>1, <1>2 DEF Poll
<1>EpollWait. CASE EpollWait(t)
  BY <1>EpollWait, <1>1, <1>2 DEF EpollWait
<1>Events. CASE Events(t)
  BY <1>Events, <1>1, <1>2 DEF Events
<1>Give. CASE Give(t)
  BY <1>Give, <1>1, <1>2 DEF Give
<1>GiveFd. CASE GiveFd(t)
  BY <1>GiveFd, <1>1, <1>2 DEF GiveFd
<1>GiveStatus. CASE GiveStatus(t)
  BY <1>GiveStatus, <1>1, <1>2 DEF GiveStatus
<1>GiveCtl. CASE GiveCtl(t)
  BY <1>GiveCtl, <1>1, <1>2 DEF GiveCtl
<1>Acknowledge. CASE Acknowledge(t)
  BY <1>Acknowledge, <1>1, <1>2 DEF Acknowledge
<1>Drop. CASE Drop(t)
  BY <1>Drop, <1>1, <1>2 DEF Drop
<1>Leave. CASE Leave(t)
  BY <1>Leave, <1>1, <1>2 DEF Leave, NoSweep
<1>GiveUp. CASE GiveUp(t)
  BY <1>GiveUp, <1>1, <1>2 DEF GiveUp
<1> QED
  BY <1>RecvEpoll, <1>Scan, <1>Poll, <1>EpollWait, <1>Events, <1>Give, <1>GiveFd, <1>GiveStatus,
     <1>GiveCtl, <1>Acknowledge, <1>Drop, <1>Leave, <1>GiveUp

LEMMA UserCallsFit ==
  ASSUME ControlTypeOK, Control, CallsFit, NEW t \in Threads, UserReturns(t)
         \/ WriteFails(t)
  PROVE CallsFit'
<1> USE ActorFacts
       DEF ControlTypeOK, CallsFit, CallFits, Goto, Call, Return, Set, poolShape, socketVars,
           ResizeLabels, CloseLabels
<1>1. ret[t] \in Callers \union {"none"}
  OBVIOUS
<1>2. pc[t] \in SubLabels => ret[t] \in Callers /\ ret[t] \notin SubLabels
  BY DEF Control, CallsReturn, Callers, SubLabels
<1>UserReturns. CASE UserReturns(t)
  BY <1>UserReturns, <1>1, <1>2 DEF UserReturns
<1>WriteFails. CASE WriteFails(t)
  BY <1>WriteFails, <1>1, <1>2 DEF WriteFails, CallClose
<1> QED
  BY <1>UserReturns, <1>WriteFails

LEMMA AcceptCallsFit ==
  ASSUME ControlTypeOK, Control, CallsFit, TurnDown \/ AnswerFails \/ Upgrade
         \/ SetEvent \/ Register \/ StartThread \/ Accept \/ AcceptFails
  PROVE CallsFit'
<1> USE ActorFacts
       DEF ControlTypeOK, CallsFit, CallFits, Goto, Call, Return, Set, poolShape, socketVars,
           ResizeLabels, CloseLabels
<1>1. ret[Acceptor] \in Callers \union {"none"}
  OBVIOUS
<1>2. pc[Acceptor] \in SubLabels => ret[Acceptor] \in Callers /\ ret[Acceptor] \notin SubLabels
  BY DEF Control, CallsReturn, Callers, SubLabels
<1>TurnDown. CASE TurnDown
  BY <1>TurnDown, <1>1, <1>2 DEF TurnDown
<1>AnswerFails. CASE AnswerFails
  BY <1>AnswerFails, <1>1, <1>2 DEF AnswerFails
<1>Upgrade. CASE Upgrade
  BY <1>Upgrade, <1>1, <1>2 DEF Upgrade
<1>SetEvent. CASE SetEvent
  BY <1>SetEvent, <1>1, <1>2 DEF SetEvent
<1>Register. CASE Register
  BY <1>Register, <1>1, <1>2 DEF Register
<1>StartThread. CASE StartThread
  BY <1>StartThread, <1>1, <1>2 DEF StartThread
<1>Accept. CASE Accept
  BY <1>Accept, <1>1, <1>2 DEF Accept
<1>AcceptFails. CASE AcceptFails
  BY <1>AcceptFails, <1>1, <1>2 DEF AcceptFails
<1> QED
  BY <1>TurnDown, <1>AnswerFails, <1>Upgrade, <1>SetEvent, <1>Register, <1>StartThread,
     <1>Accept, <1>AcceptFails

LEMMA PoolCalm ==
  ASSUME TInv, CallsFit, NEW x \in Actors, GetThreadScan(x) \/
         GetThreadOwn(x) \/ GetThreadTake(x) \/ GetThreadMark(x) \/
         AddThreadStart(x) \/ AddThreadStore(x) \/ CloseSocket(x) \/
         CloseSweep(x) \/ CloseReset(x) \/ ClearPending(x)
  PROVE Calm(x)
<1> USE ActorFacts
       DEF ControlTypeOK, PoolTypeOK, Calm, Fresh, Goto, Call, Return, Set, poolShape,
           socketVars, threadVars, ResizeLabels
<1>1. (pc[x] \in SubLabels <=> ret[x] # "none") /\ ret[x] \in Callers \union {"none"}
  BY DEF TInv, Control, CallsReturn
<1>2. CallFits(x)
  BY DEF CallsFit
<1>3. ControlTypeOK /\ PoolTypeOK
  BY DEF TInv, DataTypeOK
<1>GetThreadScan. CASE GetThreadScan(x)
  BY <1>GetThreadScan, <1>1, <1>2, <1>3
     DEF CallFits, CloseLabels, SubLabels, Callers, GetThreadScan
<1>GetThreadOwn. CASE GetThreadOwn(x)
  BY <1>GetThreadOwn, <1>1, <1>2, <1>3
     DEF CallFits, CloseLabels, SubLabels, Callers, GetThreadOwn
<1>GetThreadTake. CASE GetThreadTake(x)
  BY <1>GetThreadTake, <1>1, <1>2, <1>3
     DEF CallFits, CloseLabels, SubLabels, Callers, GetThreadTake
<1>GetThreadMark. CASE GetThreadMark(x)
  BY <1>GetThreadMark, <1>1, <1>2, <1>3
     DEF CallFits, CloseLabels, SubLabels, Callers, GetThreadMark
<1>AddThreadStart. CASE AddThreadStart(x)
  <2>1. CASE Free = {}
    BY <1>AddThreadStart, <1>1, <1>2, <1>3, <2>1
       DEF CallFits, SubLabels, AddThreadStart, Free, Lowest
  <2>2. CASE Free # {}
    <3>1. PICK a \in Threads :
            /\ ~thread_list[a]
            /\ pc' = [pc EXCEPT ![x] = "add_store", ![a] = "msg_recv"]
            /\ slot' = [slot EXCEPT ![x] = a]
      BY <1>AddThreadStart, <2>2 DEF AddThreadStart, Lowest, Free
    <3>2. pc[a] = "off"
      BY <1>AddThreadStart, <1>3, <3>1, EmptySlot DEF TInv, Control
    <3>3. pc[x] = "add_thread" /\ UNCHANGED <<status, thread_list, recv_thread, ret, sweep>>
      BY <1>AddThreadStart, <2>2 DEF AddThreadStart
    <3> QED
      BY <1>3, <3>1, <3>2, <3>3
  <2> QED
    BY <2>1, <2>2
<1>AddThreadStore. CASE AddThreadStore(x)
  BY <1>AddThreadStore, <1>1, <1>2, <1>3
     DEF CallFits, CloseLabels, SubLabels, Callers, AddThreadStore
<1>CloseSocket. CASE CloseSocket(x)
  BY <1>CloseSocket, <1>1, <1>2, <1>3 DEF CallFits, CloseLabels, SubLabels, Callers, CloseSocket
<1>CloseSweep. CASE CloseSweep(x)
  BY <1>CloseSweep, <1>1, <1>2, <1>3
     DEF CallFits, CloseLabels, SubLabels, Callers, CloseSweep, NextSwept
<1>CloseReset. CASE CloseReset(x)
  BY <1>CloseReset, <1>1, <1>2, <1>3
     DEF CallFits, CloseLabels, SubLabels, Callers, CloseReset, NextSwept
<1>ClearPending. CASE ClearPending(x)
  BY <1>ClearPending, <1>1, <1>2, <1>3
     DEF CallFits, CloseLabels, SubLabels, Callers, ClearPending
<1> QED
  BY <1>GetThreadScan, <1>GetThreadOwn, <1>GetThreadTake, <1>GetThreadMark, <1>AddThreadStart,
     <1>AddThreadStore, <1>CloseSocket, <1>CloseSweep, <1>CloseReset, <1>ClearPending

LEMMA MsgRecvCalm ==
  ASSUME TInv, CallsFit, NEW t \in Threads, MsgRecv(t) \/ Park(t) \/
         ParkStatus(t) \/ ParkRole(t) \/ Wait(t) \/ WaitRole(t) \/
         WaitStatus(t) \/ WaitMx(t) \/ Woken(t) \/ Prefix(t) \/ ReadLoop(t) \/
         Recv(t) \/ Refuse(t) \/ Push(t) \/ PushPending(t) \/ EpollOn(t) \/
         EpollOnCtl(t) \/ Announce(t) \/ Announced(t) \/ Done(t)
  PROVE Calm(t)
<1> USE ActorFacts
       DEF ControlTypeOK, PoolTypeOK, Calm, Fresh, Goto, Call, Return, Set, poolShape,
           socketVars, threadVars, ResizeLabels
<1>1. (pc[t] \in SubLabels <=> ret[t] # "none") /\ ret[t] \in Callers \union {"none"}
  BY DEF TInv, Control, CallsReturn
<1>2. CallFits(t)
  BY DEF CallsFit
<1>3. ControlTypeOK /\ PoolTypeOK
  BY DEF TInv, DataTypeOK
<1>MsgRecv. CASE MsgRecv(t)
  BY <1>MsgRecv, <1>1, <1>2, <1>3 DEF CallFits, CloseLabels, SubLabels, Callers, MsgRecv, Pop
<1>Park. CASE Park(t)
  BY <1>Park, <1>1, <1>2, <1>3 DEF CallFits, CloseLabels, SubLabels, Callers, Park
<1>ParkStatus. CASE ParkStatus(t)
  BY <1>ParkStatus, <1>1, <1>2, <1>3 DEF CallFits, CloseLabels, SubLabels, Callers, ParkStatus
<1>ParkRole. CASE ParkRole(t)
  BY <1>ParkRole, <1>1, <1>2, <1>3 DEF CallFits, CloseLabels, SubLabels, Callers, ParkRole
<1>Wait. CASE Wait(t)
  BY <1>Wait, <1>1, <1>2, <1>3 DEF CallFits, CloseLabels, SubLabels, Callers, Wait
<1>WaitRole. CASE WaitRole(t)
  BY <1>WaitRole, <1>1, <1>2, <1>3 DEF CallFits, CloseLabels, SubLabels, Callers, WaitRole
<1>WaitStatus. CASE WaitStatus(t)
  BY <1>WaitStatus, <1>1, <1>2, <1>3 DEF CallFits, CloseLabels, SubLabels, Callers, WaitStatus
<1>WaitMx. CASE WaitMx(t)
  BY <1>WaitMx, <1>1, <1>2, <1>3 DEF CallFits, CloseLabels, SubLabels, Callers, WaitMx
<1>Woken. CASE Woken(t)
  BY <1>Woken, <1>1, <1>2, <1>3 DEF CallFits, CloseLabels, SubLabels, Callers, Woken
<1>Prefix. CASE Prefix(t)
  BY <1>Prefix, <1>1, <1>2, <1>3 DEF CallFits, CloseLabels, SubLabels, Callers, Prefix, Pop
<1>ReadLoop. CASE ReadLoop(t)
  BY <1>ReadLoop, <1>1, <1>2, <1>3 DEF CallFits, CloseLabels, SubLabels, Callers, ReadLoop
<1>Recv. CASE Recv(t)
  BY <1>Recv, <1>1, <1>2, <1>3 DEF CallFits, CloseLabels, SubLabels, Callers, Recv
<1>Refuse. CASE Refuse(t)
  BY <1>Refuse, <1>1, <1>2, <1>3
     DEF CallFits, CloseLabels, SubLabels, Callers, Refuse, CallClose
<1>Push. CASE Push(t)
  BY <1>Push, <1>1, <1>2, <1>3 DEF CallFits, CloseLabels, SubLabels, Callers, Push
<1>PushPending. CASE PushPending(t)
  BY <1>PushPending, <1>1, <1>2, <1>3 DEF CallFits, CloseLabels, SubLabels, Callers, PushPending
<1>EpollOn. CASE EpollOn(t)
  BY <1>EpollOn, <1>1, <1>2, <1>3 DEF CallFits, CloseLabels, SubLabels, Callers, EpollOn
<1>EpollOnCtl. CASE EpollOnCtl(t)
  BY <1>EpollOnCtl, <1>1, <1>2, <1>3 DEF CallFits, CloseLabels, SubLabels, Callers, EpollOnCtl
<1>Announce. CASE Announce(t)
  BY <1>Announce, <1>1, <1>2, <1>3 DEF CallFits, CloseLabels, SubLabels, Callers, Announce
<1>Announced. CASE Announced(t)
  BY <1>Announced, <1>1, <1>2, <1>3 DEF CallFits, CloseLabels, SubLabels, Callers, Announced
<1>Done. CASE Done(t)
  BY <1>Done, <1>1, <1>2, <1>3 DEF CallFits, CloseLabels, SubLabels, Callers, Done
<1> QED
  BY <1>MsgRecv, <1>Park, <1>ParkStatus, <1>ParkRole, <1>Wait, <1>WaitRole, <1>WaitStatus,
     <1>WaitMx, <1>Woken, <1>Prefix, <1>ReadLoop, <1>Recv, <1>Refuse, <1>Push, <1>PushPending,
     <1>EpollOn, <1>EpollOnCtl, <1>Announce, <1>Announced, <1>Done

LEMMA RecvEpollCalm ==
  ASSUME TInv, CallsFit, NEW t \in Threads, RecvEpoll(t) \/ Scan(t) \/
         EpollWait(t) \/ Events(t) \/ Give(t) \/ GiveFd(t) \/ GiveStatus(t) \/
         GiveCtl(t) \/ Acknowledge(t) \/ Drop(t) \/ GiveUp(t)
  PROVE Calm(t)
<1> USE ActorFacts
       DEF ControlTypeOK, PoolTypeOK, Calm, Fresh, Goto, Call, Return, Set, poolShape,
           socketVars, threadVars, ResizeLabels
<1>1. (pc[t] \in SubLabels <=> ret[t] # "none") /\ ret[t] \in Callers \union {"none"}
  BY DEF TInv, Control, CallsReturn
<1>2. CallFits(t)
  BY DEF CallsFit
<1>3. ControlTypeOK /\ PoolTypeOK
  BY DEF TInv, DataTypeOK
<1>RecvEpoll. CASE RecvEpoll(t)
  BY <1>RecvEpoll, <1>1, <1>2, <1>3 DEF CallFits, CloseLabels, SubLabels, Callers, RecvEpoll
<1>Scan. CASE Scan(t)
  BY <1>Scan, <1>1, <1>2, <1>3 DEF CallFits, CloseLabels, SubLabels, Callers, Scan
<1>EpollWait. CASE EpollWait(t)
  BY <1>EpollWait, <1>1, <1>2, <1>3 DEF CallFits, CloseLabels, SubLabels, Callers, EpollWait
<1>Events. CASE Events(t)
  BY <1>Events, <1>1, <1>2, <1>3 DEF CallFits, CloseLabels, SubLabels, Callers, Events
<1>Give. CASE Give(t)
  BY <1>Give, <1>1, <1>2, <1>3 DEF CallFits, CloseLabels, SubLabels, Callers, Give
<1>GiveFd. CASE GiveFd(t)
  BY <1>GiveFd, <1>1, <1>2, <1>3 DEF CallFits, CloseLabels, SubLabels, Callers, GiveFd
<1>GiveStatus. CASE GiveStatus(t)
  BY <1>GiveStatus, <1>1, <1>2, <1>3 DEF CallFits, CloseLabels, SubLabels, Callers, GiveStatus
<1>GiveCtl. CASE GiveCtl(t)
  BY <1>GiveCtl, <1>1, <1>2, <1>3 DEF CallFits, CloseLabels, SubLabels, Callers, GiveCtl
<1>Acknowledge. CASE Acknowledge(t)
  BY <1>Acknowledge, <1>1, <1>2, <1>3 DEF CallFits, CloseLabels, SubLabels, Callers, Acknowledge
<1>Drop. CASE Drop(t)
  BY <1>Drop, <1>1, <1>2, <1>3 DEF CallFits, CloseLabels, SubLabels, Callers, Drop
<1>GiveUp. CASE GiveUp(t)
  BY <1>GiveUp, <1>1, <1>2, <1>3 DEF CallFits, CloseLabels, SubLabels, Callers, GiveUp
<1> QED
  BY <1>RecvEpoll, <1>Scan, <1>EpollWait, <1>Events, <1>Give, <1>GiveFd, <1>GiveStatus,
     <1>GiveCtl, <1>Acknowledge, <1>Drop, <1>GiveUp

LEMMA UserCalm ==
  ASSUME TInv, CallsFit, NEW t \in Threads, UserReturns(t) \/ WriteFails(t)
  PROVE Calm(t)
<1> USE ActorFacts
       DEF ControlTypeOK, PoolTypeOK, Calm, Fresh, Goto, Call, Return, Set, poolShape,
           socketVars, threadVars, ResizeLabels
<1>1. (pc[t] \in SubLabels <=> ret[t] # "none") /\ ret[t] \in Callers \union {"none"}
  BY DEF TInv, Control, CallsReturn
<1>2. CallFits(t)
  BY DEF CallsFit
<1>3. ControlTypeOK /\ PoolTypeOK
  BY DEF TInv, DataTypeOK
<1>UserReturns. CASE UserReturns(t)
  BY <1>UserReturns, <1>1, <1>2, <1>3 DEF CallFits, CloseLabels, SubLabels, Callers, UserReturns
<1>WriteFails. CASE WriteFails(t)
  BY <1>WriteFails, <1>1, <1>2, <1>3
     DEF CallFits, CloseLabels, SubLabels, Callers, WriteFails, CallClose
<1> QED
  BY <1>UserReturns, <1>WriteFails

LEMMA AcceptCalm ==
  ASSUME TInv, CallsFit, TurnDown \/ AnswerFails \/ Upgrade \/ SetEvent \/
         Register \/ StartThread \/ Accept \/ AcceptFails
  PROVE Calm(Acceptor)
<1> USE ActorFacts
       DEF ControlTypeOK, PoolTypeOK, Calm, Fresh, Goto, Call, Return, Set, poolShape,
           socketVars, threadVars, ResizeLabels
<1>1. (pc[Acceptor] \in SubLabels <=> ret[Acceptor] # "none") /\ ret[Acceptor] \in Callers \union {"none"}
  BY DEF TInv, Control, CallsReturn
<1>2. CallFits(Acceptor)
  BY DEF CallsFit
<1>3. ControlTypeOK /\ PoolTypeOK
  BY DEF TInv, DataTypeOK
<1>TurnDown. CASE TurnDown
  BY <1>TurnDown, <1>1, <1>2, <1>3 DEF CallFits, CloseLabels, SubLabels, Callers, TurnDown
<1>AnswerFails. CASE AnswerFails
  BY <1>AnswerFails, <1>1, <1>2, <1>3 DEF CallFits, CloseLabels, SubLabels, Callers, AnswerFails
<1>Upgrade. CASE Upgrade
  BY <1>Upgrade, <1>1, <1>2, <1>3 DEF CallFits, CloseLabels, SubLabels, Callers, Upgrade
<1>SetEvent. CASE SetEvent
  BY <1>SetEvent, <1>1, <1>2, <1>3 DEF CallFits, CloseLabels, SubLabels, Callers, SetEvent
<1>Register. CASE Register
  BY <1>Register, <1>1, <1>2, <1>3 DEF CallFits, CloseLabels, SubLabels, Callers, Register
<1>StartThread. CASE StartThread
  BY <1>StartThread, <1>1, <1>2, <1>3 DEF CallFits, CloseLabels, SubLabels, Callers, StartThread
<1>Accept. CASE Accept
  BY <1>Accept, <1>1, <1>2, <1>3 DEF CallFits, CloseLabels, SubLabels, Callers, Accept
<1>AcceptFails. CASE AcceptFails
  BY <1>AcceptFails, <1>1, <1>2, <1>3 DEF CallFits, CloseLabels, SubLabels, Callers, AcceptFails
<1> QED
  BY <1>TurnDown, <1>AnswerFails, <1>Upgrade, <1>SetEvent, <1>Register, <1>StartThread,
     <1>Accept, <1>AcceptFails

-----------------------------------------------------------------------------
LEMMA SweptSlot ==
  ASSUME Typed, NEW x \in Threads, pc[x] \in ResizeLabels \ {"resize"}
  PROVE sweep.a \in Threads \ {x}
<1>1. sweep.a \in 0..MaxThread /\ sweep.a < MaxThread /\ sweep.a # x
  BY DEF Typed, Sweeping, SweepInRange, DataTypeOK, PoolTypeOK
<1> QED
  BY <1>1, MaxThreadAssumption DEF Threads

(* Every step outside of resize leaves the slots fit. *)
LEMMA CalmKeepsSlots ==
  ASSUME TInv, CallsFit, SlotsFit, NEW x \in Actors, Calm(x)
  PROVE SlotsFit'
<1> USE ActorFacts DEF SlotsFit, Calm
<1>1. PointerHasThread'
  BY DEF PointerHasThread, StoringPointer
<1>2. StoringPointer'
  <2> SUFFICES ASSUME NEW y \in Actors, pc'[y] = "add_store"
               PROVE slot'[y] \in Threads /\ ~thread_list'[slot'[y]] /\ pc'[slot'[y]] # "off"
    BY DEF StoringPointer
  <2>1. CASE y # x
    <3>1. pc[y] = "add_store" /\ slot'[y] = slot[y]
      BY <2>1
    <3>2. pc[x] # "add_store"
      BY <2>1, <3>1 DEF TInv, Control, MutexHeld, UnderThreadMx
    <3>3. slot[y] \in Threads /\ ~thread_list[slot[y]] /\ pc[slot[y]] # "off"
      BY <3>1 DEF StoringPointer
    <3> QED
      BY <3>1, <3>2, <3>3
  <2> QED
    BY <2>1
<1>3. ResizeTarget'
  <2>1. \A t \in Threads : pc[t] \in {"resize_mark", "resize_join"} => sweep.a \in Threads
    BY SweptSlot, TInvTyped DEF ResizeLabels
  <2> QED
    BY <2>1 DEF ResizeTarget, ResizeLabels
<1>4. RecycledHasPointer'
  <2> SUFFICES ASSUME NEW a \in Threads, status'[a] = "RECYCLE", ~thread_list'[a]
               PROVE Clearing(a)' /\ Fresh(a)'
    BY DEF RecycledHasPointer
  <2>1. ~thread_list[a] /\ status[a] = "RECYCLE"
    BY DEF DoneHasPointer
  <2>2. Clearing(a) /\ Fresh(a)
    BY <2>1 DEF RecycledHasPointer
  <2>3. Clearing(a)'
    BY <2>2 DEF Clearing, ResizeLabels
  <2>4. Fresh(a)'
    BY <2>2 DEF Fresh
  <2> QED
    BY <2>3, <2>4
<1>5. DoneHasPointer'
  <2> SUFFICES ASSUME NEW a \in Threads, pc'[a] = "done"
               PROVE thread_list[a]
    BY DEF DoneHasPointer
  <2>1. CASE a # x
    BY <2>1 DEF DoneHasPointer
  <2>2. CASE a = x
    <3>1. pc[a] = "wait" /\ status[a] = "RECYCLE" /\ ret[a] = "none"
      BY <2>2 DEF TInv, Control, CallsReturn, SubLabels
    <3> QED
      BY <3>1 DEF RecycledHasPointer, Fresh
  <2> QED
    BY <2>1, <2>2
<1>6. WaitingIsAlive'
  BY DEF WaitingIsAlive, Alive
<1> QED
  BY <1>1, <1>2, <1>3, <1>4, <1>5, <1>6 DEF SlotsFit

(* The steps of resize, and the calls to it. *)
LEMMA ResizeKeepsSlots ==
  ASSUME TInv, CallsFit, SlotsFit, NEW x \in Actors,
         ResizeEnd(x) \/ ResizeLook(x) \/ ResizeMark(x) \/ ResizeJoin(x) \/
         ResizeClear(x) \/ ResizeFd(x)
  PROVE SlotsFit'
<1>1. pc[x] \in ResizeLabels
  BY DEF ResizeEnd, ResizeLook, ResizeMark, ResizeJoin, ResizeClear, ResizeFd, ResizeLabels
<1>2. x \in Threads /\ recv_thread = x /\ \A u \in Actors \ {x} : pc[u] \notin ResizeLabels
  BY <1>1, OneResizes DEF TInv, Sweeping
<1>3. CallFits(x) /\ ret[x] \in Callers \union {"none"}
  BY DEF CallsFit, TInv, ControlTypeOK
<1>4. ControlTypeOK /\ PoolTypeOK
  BY DEF TInv, DataTypeOK
<1>5. pc[x] # "resize" => sweep.a \in Threads \ {x}
  BY <1>1, <1>2, SweptSlot, TInvTyped DEF ResizeLabels
<1>6. sweep.a < MaxThread => sweep.a \in Threads
  BY <1>4, MaxThreadAssumption DEF PoolTypeOK, Threads
<1> USE ActorFacts
       DEF ControlTypeOK, PoolTypeOK, SlotsFit, PointerHasThread, StoringPointer, ResizeTarget,
           RecycledHasPointer, DoneHasPointer, WaitingIsAlive, Fresh, Alive, Clearing, Goto,
           Return, ResizeLabels, CallFits
<1>ResizeEnd. CASE ResizeEnd(x)
  BY <1>ResizeEnd, <1>2, <1>3, <1>4 DEF ResizeEnd, NoSweep
<1>ResizeLook. CASE ResizeLook(x)
  <2>1. sweep.a \in Threads /\ pc[x] = "resize"
    BY <1>ResizeLook, <1>6 DEF ResizeLook
  <2>2. /\ UNCHANGED <<status, thread_list, ret, slot>>
        /\ sweep' \in {sweep, NextSlot}
        /\ pc' = pc \/ (\E l \in {"resize_mark", "resize_join"} : pc' = [pc EXCEPT ![x] = l])
    BY <1>ResizeLook DEF ResizeLook
  <2>3. pc' # pc => sweep' = sweep /\ sweep.a # x
                    /\ (Idle(sweep.a) \/ status[sweep.a] = "RECYCLE")
    BY <1>ResizeLook, <1>2 DEF ResizeLook
  <2>4. ~Clearing(sweep.a)
    BY <2>1, <1>2
  <2>5. pc' # pc => thread_list[sweep.a]
    BY <2>1, <2>3, <2>4 DEF Idle
  <2> QED
    BY <1>2, <1>3, <1>4, <2>1, <2>2, <2>3, <2>5
<1>ResizeMark. CASE ResizeMark(x)
  BY <1>ResizeMark, <1>2, <1>3, <1>4, <1>5 DEF ResizeMark
<1>ResizeJoin. CASE ResizeJoin(x)
  BY <1>ResizeJoin, <1>2, <1>3, <1>4, <1>5 DEF ResizeJoin
<1>ResizeClear. CASE ResizeClear(x)
  BY <1>ResizeClear, <1>2, <1>3, <1>4, <1>5 DEF ResizeClear
<1>ResizeFd. CASE ResizeFd(x)
  BY <1>ResizeFd, <1>2, <1>3, <1>4, <1>5 DEF ResizeFd
<1> QED
  BY <1>ResizeEnd, <1>ResizeLook, <1>ResizeMark, <1>ResizeJoin, <1>ResizeClear, <1>ResizeFd

LEMMA CallResizeKeepsSlots ==
  ASSUME TInv, CallsFit, SlotsFit, NEW t \in Threads, Poll(t) \/ Leave(t)
  PROVE SlotsFit'
<1>1. pc[t] \in {"poll", "leave"} /\ InRecv(t) /\ ret[t] = "none"
  BY ActorFacts DEF Poll, Leave, InRecv, RecvLabels, TInv, Control, CallsReturn, SubLabels
<1>2. \A u \in Actors \ {t} : pc[u] \notin ResizeLabels
  BY <1>1, OneResizes DEF TInv, Sweeping, Control, RecvExclusive
<1>3. ControlTypeOK /\ PoolTypeOK
  BY DEF TInv, DataTypeOK
<1> USE ActorFacts
       DEF ControlTypeOK, PoolTypeOK, SlotsFit, PointerHasThread, StoringPointer, ResizeTarget,
           RecycledHasPointer, DoneHasPointer, WaitingIsAlive, Fresh, Alive, Clearing, Call,
           Goto, ResizeLabels
<1>4. /\ pc' = [pc EXCEPT ![t] = "resize"]
      /\ \E l \in {"epoll_wait", "give_up"} : ret' = [ret EXCEPT ![t] = l]
      /\ UNCHANGED <<status, thread_list, slot>>
  BY DEF Poll, Leave
<1> QED
  BY <1>1, <1>2, <1>3, <1>4

-----------------------------------------------------------------------------
(* What every step outside of resize, by whichever thread, keeps: the      *)
(* steps of each class are calm.                                           *)
ResizeStep(x) ==
  \/ ResizeEnd(x) \/ ResizeLook(x) \/ ResizeMark(x)
  \/ ResizeJoin(x) \/ ResizeClear(x) \/ ResizeFd(x)

CallsResize(t) == Poll(t) \/ Leave(t)

LEMMA ServerStepCalm ==
  ASSUME TInv, CallsFit, NEW x \in Actors, ServerStep(x)
  PROVE Calm(x) \/ ResizeStep(x)
BY PoolCalm DEF ServerStep, PoolStep, ThreadStep, ResizeStep

(* Every step is one of these kinds.                                       *)
LEMMA StepKinds ==
  ASSUME TInv, CallsFit, [Next]_vars
  PROVE \/ \E x \in Actors : Calm(x)
        \/ \E x \in Actors : ResizeStep(x)
        \/ \E t \in Threads : CallsResize(t)
        \/ UNCHANGED threadVars
<1>1. ASSUME NEW t \in Threads, ThreadRuns(t) \/ UserStep(t)
      PROVE Calm(t) \/ ResizeStep(t) \/ CallsResize(t)
  BY <1>1, ActorFacts, ServerStepCalm, MsgRecvCalm, RecvEpollCalm, UserCalm
     DEF ThreadRuns, UserStep, MsgRecvStep, RecvEpollStep, CallsResize
<1>2. ASSUME AcceptorRuns \/ Accept \/ AcceptFails
      PROVE Calm(Acceptor) \/ ResizeStep(Acceptor)
  BY <1>2, ActorFacts, ServerStepCalm, AcceptCalm DEF AcceptorRuns, AcceptStep
<1>3. ASSUME ClientStep \/ UNCHANGED vars
      PROVE UNCHANGED threadVars
  BY <1>3 DEF ClientStep, vars
<1> QED
  BY <1>1, <1>2, <1>3, ActorFacts DEF Next

LEMMA NextCallsFit ==
  ASSUME TInv, CallsFit, [Next]_vars
  PROVE CallsFit'
<1>1. ASSUME NEW x \in Actors, ServerStep(x)
      PROVE CallsFit'
  BY <1>1, PoolCallsFit DEF ServerStep, PoolStep, ThreadStep, TInv
<1>2. ASSUME NEW t \in Threads, ThreadRuns(t) \/ UserStep(t)
      PROVE CallsFit'
  BY <1>1, <1>2, ActorFacts, MsgRecvCallsFit, RecvEpollCallsFit, UserCallsFit
     DEF ThreadRuns, UserStep, MsgRecvStep, RecvEpollStep, TInv
<1>3. ASSUME AcceptorRuns \/ Accept \/ AcceptFails
      PROVE CallsFit'
  BY <1>1, <1>3, ActorFacts, AcceptCallsFit DEF AcceptorRuns, AcceptStep, TInv
<1>4. ASSUME ClientStep \/ UNCHANGED vars
      PROVE CallsFit'
  BY <1>4 DEF ClientStep, vars, threadVars, CallsFit, CallFits
<1> QED
  BY <1>2, <1>3, <1>4 DEF Next

LEMMA NextSlotsFit ==
  ASSUME TInv, CallsFit, SlotsFit, [Next]_vars
  PROVE SlotsFit'
<1>1. ASSUME UNCHANGED threadVars
      PROVE SlotsFit'
  BY <1>1
     DEF threadVars, SlotsFit, PointerHasThread, StoringPointer, ResizeTarget,
         RecycledHasPointer, DoneHasPointer, WaitingIsAlive, Clearing, Fresh, Alive
<1> QED
  BY <1>1, StepKinds, CalmKeepsSlots, ResizeKeepsSlots, CallResizeKeepsSlots
     DEF ResizeStep, CallsResize

-----------------------------------------------------------------------------
(* The inductive invariant of the pool. *)
SInv == TInv /\ CallsFit /\ SlotsFit

LEMMA NextSlots ==
  ASSUME SInv, [Next]_vars
  PROVE SInv'
BY NextTyped, NextCallsFit, NextSlotsFit DEF SInv

LEMMA InitSlots ==
  ASSUME Init
  PROVE SInv
<1>1. TInv
  BY InitTyped
<1> USE ActorFacts DEF Init, ThreadInit
<1>2. CallsFit
  BY DEF CallsFit, CallFits, ResizeLabels, CloseLabels
<1>3. PointerHasThread /\ StoringPointer /\ ResizeTarget
  BY DEF PointerHasThread, StoringPointer, ResizeTarget, ResizeLabels
<1>4. RecycledHasPointer /\ DoneHasPointer /\ WaitingIsAlive
  BY DEF RecycledHasPointer, DoneHasPointer, WaitingIsAlive
<1> QED
  BY <1>1, <1>2, <1>3, <1>4 DEF SInv, SlotsFit

(* Every slot's status, pointer and thread fit each other, and each        *)
(* subroutine returns to one of its own callers.                           *)
THEOREM SlotsInvariant == Spec => []SInv
<1>1. Init => SInv
  BY InitSlots
<1>2. SInv /\ [Next]_vars => SInv'
  BY NextSlots
<1> QED
  BY <1>1, <1>2, PTL DEF Spec

(* resize joins a thread of another slot, through a pointer that is set,   *)
(* and no thread twice, although add_thread may fill a slot again before   *)
(* resize has reset its status.                                            *)
THEOREM JoinIsSafe == Spec => []JoinSafe
<1>1. ASSUME SInv, NEW x \in Threads, pc[x] = "resize_join"
      PROVE sweep.a \in Threads \ {x} /\ thread_list[sweep.a] /\ pc[sweep.a] # "off"
  <2>1. sweep.a \in Threads \ {x}
    BY <1>1, SweptSlot, TInvTyped DEF SInv, ResizeLabels
  <2>2. thread_list[sweep.a]
    BY <1>1 DEF SInv, SlotsFit, ResizeTarget
  <2> QED
    BY <1>1, <2>1, <2>2 DEF SInv, SlotsFit, PointerHasThread
<1>2. SInv => JoinSafe
  BY <1>1 DEF JoinSafe
<1> QED
  BY <1>2, SlotsInvariant, PTL

(* A slot that get_thread may choose runs a thread, at every moment of the *)
(* join that runs beside it without thread_mx.                             *)
THEOREM WaitingSlotIsLive == Spec => []WaitingIsLive
<1>1. SInv => WaitingIsLive
  BY DEF SInv, SlotsFit, WaitingIsAlive, Alive, WaitingIsLive
<1> QED
  BY <1>1, SlotsInvariant, PTL

(* add_thread starts a thread only in a slot that holds none, running or   *)
(* returned, whoever calls it and whatever resize does at the same time.   *)
THEOREM StartsInEmpty == Spec => StartsInEmptySlot
<1> DEFINE A == \A x \in Actors : pc[x] = "add_thread" /\ pc'[x] = "add_store" => pc[slot'[x]] = "off"
<1>1. ASSUME SInv, [Next]_vars
      PROVE [A]_vars
  <2>1. ASSUME NEW x \in Actors, Calm(x)
        PROVE A
    BY <2>1 DEF Calm
  <2>2. ASSUME NEW x \in Actors, ResizeStep(x)
        PROVE A
    <3>1. /\ pc[x] \in ResizeLabels
          /\ \A y \in Actors \ {x} : pc'[y] = pc[y] \/ pc'[y] = "off"
      BY <1>1, <2>2
         DEF SInv, TInv, ControlTypeOK, ResizeStep, ResizeEnd, ResizeLook, ResizeMark,
             ResizeJoin, ResizeClear, ResizeFd, Goto, Return, ResizeLabels
    <3> QED
      BY <3>1 DEF ResizeLabels
  <2>3. ASSUME NEW t \in Threads, CallsResize(t)
        PROVE A
    BY <1>1, <2>3, ActorFacts
       DEF SInv, TInv, ControlTypeOK, CallsResize, Poll, Leave, Call, Goto
  <2>4. ASSUME UNCHANGED threadVars
        PROVE A
    BY <2>4 DEF threadVars
  <2> QED
    BY <1>1, <2>1, <2>2, <2>3, <2>4, StepKinds DEF SInv
<1>2. SInv /\ [Next]_vars => [A]_vars
  BY <1>1
<1> QED
  BY <1>2, SlotsInvariant, PTL DEF Spec, StartsInEmptySlot

-----------------------------------------------------------------------------
(* The refinement of ThreadPool: the life of a slot is read from the place *)
(* of its thread, the leader is recv_thread.                               *)
LEMMA SameSlots == Pool!Slots = Threads /\ Pool!None = None
BY DEF Pool!Slots, Threads, Pool!None, None

(* The lives of the slots and the role, as a step of x leaves them alone.  *)
SameLife(x) ==
  /\ recv_thread' = recv_thread
  /\ \A y \in Actors \ {x} : pc'[y] = pc[y]
  /\ pc[x] \notin {"off", "returned"} /\ pc'[x] \notin {"off", "returned"}

LEMMA SameLifeStutters ==
  ASSUME NEW x \in Actors, SameLife(x)
  PROVE UNCHANGED Pool!poolVars
<1>1. \A a \in Threads : Life(a)' = Life(a)
  BY ActorFacts DEF SameLife, Life
<1> QED
  BY <1>1 DEF SameLife, Pool!poolVars

(* A step begins and ends at a place inside of the thread function, but    *)
(* for the end of that function.                                           *)
LEMMA ServerStepRuns ==
  ASSUME Standing, NEW x \in Actors, ServerStep(x)
  PROVE pc[x] \notin {"off", "returned"} /\ pc'[x] \notin {"off", "returned"}
<1>1. ret[x] \notin {"off", "returned"}
  BY LabelFacts DEF Standing, Callers
<1> QED
  BY <1>1, ActorFacts
     DEF Standing, ServerStep, PoolStep, ThreadStep, GetThreadScan, GetThreadOwn,
         GetThreadTake, GetThreadMark, AddThreadStart, AddThreadStore, ResizeEnd, ResizeLook,
         ResizeMark, ResizeJoin, ResizeClear, ResizeFd, CloseSocket, CloseSweep, CloseReset,
         NextSwept, ClearPending, Goto, Return

LEMMA MsgRecvRuns ==
  ASSUME Standing, NEW t \in Threads, MsgRecvStep(t), ~Done(t)
  PROVE pc[t] \notin {"off", "returned"} /\ pc'[t] \notin {"off", "returned"}
BY ActorFacts
   DEF Standing, MsgRecvStep, MsgRecv, Park, ParkStatus, ParkRole, Wait, WaitRole, WaitStatus,
       WaitMx, Woken, Prefix, Pop, ReadLoop, Recv, Refuse, CallClose, Push, PushPending,
       EpollOn, EpollOnCtl, Announce, Announced, Goto, Call

LEMMA RecvEpollRuns ==
  ASSUME Standing, NEW t \in Threads, RecvEpollStep(t)
  PROVE pc[t] \notin {"off", "returned"} /\ pc'[t] \notin {"off", "returned"}
BY ActorFacts
   DEF Standing, RecvEpollStep, RecvEpoll, Scan, Poll, EpollWait, Events, Give, GiveFd,
       GiveStatus, GiveCtl, Acknowledge, Drop, Leave, GiveUp, Goto, Call

LEMMA OtherRuns ==
  ASSUME Standing
  PROVE /\ \A t \in Threads : UserStep(t) =>
             pc[t] \notin {"off", "returned"} /\ pc'[t] \notin {"off", "returned"}
        /\ AcceptStep \/ Accept \/ AcceptFails =>
             pc[Acceptor] \notin {"off", "returned"} /\ pc'[Acceptor] \notin {"off", "returned"}
BY ActorFacts
   DEF Standing, UserStep, UserReturns, WriteFails, CallClose, AcceptStep, TurnDown,
       AnswerFails, Upgrade, SetEvent, Register, StartThread, Accept, AcceptFails, Goto, Call

LEMMA StartRefines ==
  ASSUME Standing, MutexHeld, FreeSlotIdle, NEW x \in Actors, AddThreadStart(x)
  PROVE [Pool!PoolNext]_(Pool!poolVars)
<1>1. pc[x] = "add_thread" /\ recv_thread' = recv_thread
  BY DEF AddThreadStart
<1>2. CASE Free = {}
  <2>1. ret[x] \notin {"off", "returned"}
    BY LabelFacts DEF Standing, Callers
  <2>2. pc' = [pc EXCEPT ![x] = ret[x]]
    BY <1>2 DEF AddThreadStart, Lowest, Return, Goto
  <2>3. SameLife(x)
    BY <1>1, <2>1, <2>2 DEF Standing, SameLife
  <2> QED
    BY <2>3, SameLifeStutters
<1>3. CASE Free # {}
  <2>1. PICK s \in Threads :
          ~thread_list[s] /\ pc' = [pc EXCEPT ![x] = "add_store", ![s] = "msg_recv"]
    BY <1>3 DEF AddThreadStart, Lowest, Free
  <2>2. pc[s] = "off" /\ s # x
    BY <1>1, <2>1, EmptySlot
  <2>3. \A a \in Threads : Life(a)' = IF a = s THEN "running" ELSE Life(a)
    BY <1>1, <2>1, <2>2, ActorFacts DEF Life, Standing
  <2>4. Life(s) = "empty"
    BY <2>2 DEF Life
  <2>5. Pool!Start(s)
    BY <1>1, <2>3, <2>4, SameSlots DEF Pool!Start
  <2> QED
    BY <2>5, SameSlots DEF Pool!PoolNext
<1> QED
  BY <1>2, <1>3

LEMMA JoinRefines ==
  ASSUME Typed, NEW x \in Actors, ResizeJoin(x)
  PROVE Pool!PoolNext
<1> DEFINE s == sweep.a
<1>1. x \in Threads /\ recv_thread = x
  BY OneResizer DEF Typed, Sweeping, ResizeJoin, ResizeLabels
<1>2. s \in Threads \ {x}
  BY <1>1, SweptSlot DEF ResizeJoin, ResizeLabels
<1>3. /\ pc[s] = "returned" /\ recv_thread' = recv_thread
      /\ pc' = [pc EXCEPT ![x] = "resize_clear", ![s] = "off"]
      /\ pc = [y \in Actors |-> pc[y]] /\ pc[x] = "resize_join"
  BY DEF ResizeJoin, Typed, Standing
<1> HIDE DEF s
<1>4. \A a \in Threads : Life(a)' = IF a = s THEN "empty" ELSE Life(a)
  BY <1>1, <1>2, <1>3, ActorFacts DEF Life
<1>5. Life(s) = "returned"
  BY <1>3 DEF Life
<1>6. Pool!Reap(s)
  BY <1>1, <1>2, <1>3, <1>4, <1>5, SameSlots DEF Pool!Reap
<1> QED
  BY <1>2, <1>6, SameSlots DEF Pool!PoolNext

LEMMA DoneRefines ==
  ASSUME Standing, NEW t \in Threads, Done(t), recv_thread # t
  PROVE Pool!PoolNext
<1>1. pc[t] = "done" /\ pc' = [pc EXCEPT ![t] = "returned"] /\ recv_thread' = recv_thread
  BY DEF Done, Goto
<1>2. \A a \in Threads : Life(a)' = IF a = t THEN "returned" ELSE Life(a)
  BY <1>1, ActorFacts DEF Life, Standing
<1>3. Life(t) = "running"
  BY <1>1 DEF Life
<1>4. Pool!Return(t)
  BY <1>1, <1>2, <1>3, SameSlots DEF Pool!Return
<1> QED
  BY <1>4, SameSlots DEF Pool!PoolNext

LEMMA RoleRefines ==
  ASSUME Standing, NEW t \in Threads, ParkRole(t) \/ GiveUp(t)
  PROVE [Pool!PoolNext]_(Pool!poolVars)
<1>1. /\ pc[t] \in {"park_role", "give_up"} /\ pc'[t] \notin {"off", "returned"}
      /\ \A y \in Actors \ {t} : pc'[y] = pc[y]
  BY ActorFacts DEF ParkRole, GiveUp, Goto, Standing
<1>2. \A a \in Threads : Life(a)' = Life(a)
  BY <1>1, ActorFacts DEF Life
<1>3. [a \in Threads |-> Life(a)]' = [a \in Threads |-> Life(a)]
  BY <1>2
<1>4. CASE recv_thread' = recv_thread
  BY <1>3, <1>4 DEF Pool!poolVars
<1>5. CASE ParkRole(t) /\ recv_thread' # recv_thread
  <2>1. recv_thread = None /\ recv_thread' = t /\ Life(t) = "running"
    BY <1>1, <1>5 DEF ParkRole, Life
  <2>2. Pool!Lead(t)
    BY <1>3, <2>1, SameSlots DEF Pool!Lead
  <2> QED
    BY <2>2, SameSlots DEF Pool!PoolNext
<1>6. CASE GiveUp(t) /\ recv_thread' # recv_thread
  <2>1. recv_thread # None /\ recv_thread' = None
    BY <1>6 DEF GiveUp
  <2>2. Pool!StepDown
    BY <1>3, <2>1, SameSlots DEF Pool!StepDown
  <2> QED
    BY <2>2 DEF Pool!PoolNext
<1> QED
  BY <1>4, <1>5, <1>6

(* Every step of ws_server is one of the abstract pool or leaves it alone. *)
LEMMA NextRefines ==
  ASSUME Typed, MutexHeld, FreeSlotIdle, [Next]_vars,
         \A t \in Threads : pc[t] = "done" => recv_thread # t
  PROVE [Pool!PoolNext]_(Pool!poolVars)
<1>1. Standing
  BY DEF Typed
<1>2. ASSUME NEW x \in Actors, BaseLocal(x), pc[x] # "returned",
             pc'[x] \notin {"off", "returned"}
      PROVE [Pool!PoolNext]_(Pool!poolVars)
  <2>1. SameLife(x)
    BY <1>2 DEF BaseLocal, Local, OnlyMoves, SameLife
  <2> QED
    BY <2>1, SameLifeStutters
<1>3. ASSUME NEW x \in Actors, ServerStep(x)
      PROVE [Pool!PoolNext]_(Pool!poolVars)
  <2>1. CASE \/ GetThreadScan(x) \/ GetThreadOwn(x) \/ GetThreadTake(x) \/ GetThreadMark(x)
             \/ AddThreadStore(x)
    <3>1. SameLife(x)
      BY <1>1, <1>3, <2>1, ServerStepRuns
         DEF SameLife, GetThreadScan, GetThreadOwn, GetThreadTake, GetThreadMark,
             AddThreadStore, Standing, Goto, Return
    <3> QED
      BY <3>1, SameLifeStutters
  <2> QED
    BY <1>1, <1>2, <1>3, <2>1, StartRefines, JoinRefines, PoolLocal, CloseLocal, ServerStepRuns
       DEF ServerStep, PoolStep, ThreadStep
<1>4. ASSUME NEW t \in Threads, MsgRecvStep(t)
      PROVE [Pool!PoolNext]_(Pool!poolVars)
  <2>1. CASE Done(t)
    <3>1. pc[t] = "done"
      BY <2>1 DEF Done
    <3> QED
      BY <1>1, <2>1, <3>1, DoneRefines
  <2>2. CASE Park(t) \/ ParkStatus(t)
    <3>1. SameLife(t)
      BY <1>1, <2>2, ActorFacts DEF SameLife, Park, ParkStatus, Standing, Goto
    <3> QED
      BY <3>1, ActorFacts, SameLifeStutters
  <2>3. CASE ~Done(t) /\ BaseLocal(t)
    BY <1>1, <1>2, <1>4, <2>3, ActorFacts, MsgRecvRuns
  <2> QED
    BY <1>1, <1>4, <2>1, <2>2, <2>3, RoleRefines, MsgRecvLocal DEF MsgRecvStep
<1>5. ASSUME NEW t \in Threads, RecvEpollStep(t)
      PROVE [Pool!PoolNext]_(Pool!poolVars)
  <2>1. CASE BaseLocal(t)
    BY <1>1, <1>2, <1>5, <2>1, ActorFacts, RecvEpollRuns
  <2> QED
    BY <1>1, <1>5, <2>1, RoleRefines, RecvEpollLocal DEF RecvEpollStep
<1>6. ASSUME NEW t \in Threads, UserStep(t)
      PROVE [Pool!PoolNext]_(Pool!poolVars)
  BY <1>1, <1>2, <1>6, ActorFacts, UserLocal, OtherRuns DEF UserStep
<1>7. ASSUME AcceptStep \/ Accept \/ AcceptFails
      PROVE [Pool!PoolNext]_(Pool!poolVars)
  BY <1>1, <1>2, <1>7, ActorFacts, AcceptLocal, OtherRuns DEF AcceptStep
<1>8. ASSUME ClientStep \/ UNCHANGED vars
      PROVE UNCHANGED Pool!poolVars
  BY <1>8 DEF ClientStep, vars, threadVars, Pool!poolVars, Life
<1> QED
  BY <1>3, <1>4, <1>5, <1>6, <1>7, <1>8, NextIsActorStep DEF ActorStep

LEMMA InitRefines ==
  ASSUME Init
  PROVE Pool!PoolInit
<1>1. \A a \in Threads : Life(a) = "empty"
  BY ActorFacts DEF Init, ThreadInit, Life
<1> QED
  BY <1>1, SameSlots DEF Init, ThreadInit, Pool!PoolInit

(* The pool with the receiving role implements ThreadPool, whatever the    *)
(* numbers of threads, sockets and messages: a slot is not used twice, no  *)
(* thread is joined before it returned, none returns with the role, one    *)
(* holds the role at a time and only that one joins.                       *)
THEOREM ImplementsPool == Spec => PoolIsThreadPool
<1>1. TInv /\ [Next]_vars => [Pool!PoolNext]_(Pool!poolVars)
  <2> SUFFICES ASSUME TInv, [Next]_vars
               PROVE [Pool!PoolNext]_(Pool!poolVars)
    OBVIOUS
  <2>1. \A t \in Threads : pc[t] = "done" => recv_thread # t
    BY ActorFacts DEF TInv, Control, RecvExclusive, CallsReturn, InRecv, RecvLabels, SubLabels
  <2> QED
    BY <2>1, TInvTyped, NextRefines DEF TInv, Control
<1>2. Init => Pool!PoolInit
  BY InitRefines
<1> QED
  <2>1. Init => TInv
    BY InitTyped
  <2>2. TInv /\ [Next]_vars => TInv'
    BY NextTyped
  <2> QED
    BY <1>1, <1>2, <2>1, <2>2, PTL DEF Spec, PoolIsThreadPool, Pool!PoolSpec

=============================================================================
