---------------------------- MODULE WsRoleProofs ----------------------------
(***************************************************************************)
(* The receiving role of WsServer, for every number of threads, sockets    *)
(* and messages: whom recv_epoll hands sockets to, when it is given up,    *)
(* that recycling always leaves a thread, that pending messages have a     *)
(* thread, and that one thread at a time reads from the first connection.  *)
(***************************************************************************)
EXTENDS WsPoolProofs

HandLabels == {"give_fd", "give_status", "give_ctl", "acknowledge"}

(* Slot a can be given a socket: it runs a thread that will not return     *)
(* before it has looked at its status again.                               *)
Held(a) == a \in Threads /\ Alive(a) /\ status[a] # "RECYCLE"

(* The slot recv_epoll has chosen is held until the hand-over is done.     *)
ChosenIsHeld(t) ==
  /\ pc[t] \in HandLabels => Held(b)
  /\ pc[t] = "give" /\ slot[t] # None => Held(slot[t])
  /\ pc[t] = "get_take" /\ ret[t] = "give" => Held(t)
  /\ pc[t] = "get_mark" /\ ret[t] = "give" => Held(slot[t])

(* A thread that has given a socket to itself, or found no thread for one, *)
(* is not waiting; b = t means nothing else once the scan has ended.       *)
NotWaiting(t) ==
  /\ pc[t] \in {"poll", "epoll_wait"} \/ ret[t] = "epoll_wait" => b = MaxThread
  /\ b = t /\ (pc[t] \in HandLabels \union {"events"} \/ ret[t] \in {"events", "give"})
       => status[t] # "WAIT"
  /\ pc[t] = "give" /\ slot[t] \in {None, t} => status[t] # "WAIT"
  /\ pc[t] \in {"leave", "drop", "give_up"} \/ ret[t] \in {"leave", "drop", "give_up"}
       => status[t] # "WAIT"

RoleFitOf(t) == ChosenIsHeld(t) /\ NotWaiting(t)

RoleFit == \A t \in Threads : RoleFitOf(t)

-----------------------------------------------------------------------------
(* Only the thread with the role has anything to show for RoleFit. *)
LEMMA OnlyReceiver ==
  ASSUME Control', \A t \in Threads : recv_thread' = t => RoleFitOf(t)'
  PROVE RoleFit'
<1> SUFFICES ASSUME NEW t \in Threads, recv_thread' # t
             PROVE RoleFitOf(t)'
  BY DEF RoleFit
<1>1. pc'[t] \notin RecvLabels /\ ret'[t] \notin RecvLabels
  BY DEF Control, RecvExclusive, InRecv
<1> QED
  BY <1>1 DEF RoleFitOf, ChosenIsHeld, NotWaiting, HandLabels, RecvLabels

LEMMA ReceiverIsThread ==
  ASSUME NEW x \in Threads
  PROVE x # None
BY MaxThreadAssumption DEF Threads, None

(* A held slot stays held whatever a thread does outside of resize. *)
LEMMA HeldStays ==
  ASSUME NEW x \in Actors, Calm(x), NEW a, Held(a)
  PROVE Held(a)'
BY ActorFacts DEF Held, Alive, Calm

LEMMA OthersKeepB ==
  ASSUME NEW x \in Actors, ServerStep(x)
  PROVE b' = b
BY DEF ServerStep, PoolStep, CloseSocket, CloseSweep, CloseReset, ClearPending, socketVars,
       epollLocals

LEMMA MsgRecvKeepsB ==
  ASSUME NEW t \in Threads, MsgRecvStep(t) \/ UserReturns(t) \/ WriteFails(t)
  PROVE b' = b
BY DEF MsgRecvStep, MsgRecv, Park, ParkStatus, ParkRole, Wait, WaitRole, WaitStatus, WaitMx,
       Woken, Prefix, ReadLoop, Recv, Refuse, Push, PushPending, EpollOn, EpollOnCtl, Announce,
       Announced, Done, UserReturns, WriteFails, socketVars, epollLocals

LEMMA AcceptKeepsB ==
  ASSUME AcceptStep \/ Accept \/ AcceptFails
  PROVE b' = b
BY DEF AcceptStep, TurnDown, AnswerFails, Upgrade, SetEvent, Register, StartThread, Accept,
       AcceptFails, socketVars, epollLocals

(* A thread without the role does not disturb the one that has it. *)
LEMMA BystanderKeepsRole ==
  ASSUME SInv, SInv', RoleFit, NEW x \in Actors, Calm(x), recv_thread # x, b' = b
  PROVE RoleFit'
<1> SUFFICES ASSUME NEW t \in Threads, recv_thread' = t
             PROVE RoleFitOf(t)'
  BY OnlyReceiver DEF SInv, TInv
<1> USE ActorFacts
<1>1. CASE t = x
  <2>1. pc[x] = "park_role"
    BY <1>1 DEF Calm
  <2>2. pc'[x] \in {"recv_epoll", "wait"} /\ ret'[x] = "none"
    BY <2>1 DEF Calm, SInv, TInv, Control, CallsReturn, SubLabels
  <2> QED
    BY <1>1, <2>2 DEF RoleFitOf, ChosenIsHeld, NotWaiting, HandLabels
<1>2. CASE t # x
  <2>1. recv_thread = t
    BY <1>2 DEF Calm
  <2>2. pc'[t] = pc[t] /\ ret'[t] = ret[t] /\ slot'[t] = slot[t]
    BY <1>2, <2>1
       DEF Calm, SInv, TInv, Control, CallsReturn, RecvExclusive, InRecv, RecvLabels, SubLabels
  <2>3. status'[t] = "WAIT" => status[t] = "WAIT"
    BY <1>2 DEF Calm
  <2>4. RoleFitOf(t) /\ \A a : Held(a) => Held(a)'
    BY HeldStays DEF RoleFit
  <2>5. ChosenIsHeld(t)'
    BY <2>2, <2>4 DEF RoleFitOf, ChosenIsHeld
  <2>6. NotWaiting(t)'
    BY <2>2, <2>3, <2>4 DEF RoleFitOf, NotWaiting
  <2> QED
    BY <2>5, <2>6 DEF RoleFitOf
<1> QED
  BY <1>1, <1>2

(* What the thread with the role does in get_thread, add_thread and close_socket. *)
LEMMA ReceiverCallsKeepRole ==
  ASSUME SInv, RoleFit, NEW x \in Threads, recv_thread = x, Calm(x), b' = b,
         GetThreadScan(x) \/ GetThreadOwn(x) \/ GetThreadTake(x) \/
         GetThreadMark(x) \/ AddThreadStart(x) \/ AddThreadStore(x) \/
         CloseSocket(x) \/ CloseSweep(x) \/ CloseReset(x) \/ ClearPending(x)
  PROVE RoleFitOf(x)'
<1>1. ControlTypeOK /\ PoolTypeOK
  BY DEF SInv, TInv, DataTypeOK
<1>2. (pc[x] \in SubLabels <=> ret[x] # "none") /\ ret[x] \in Callers \union {"none"} /\ CallFits(x)
  BY <1>1, ActorFacts DEF SInv, CallsFit, TInv, Control, CallsReturn, ControlTypeOK
<1>3. pc[x] \in RecvLabels \/ ret[x] \in RecvLabels
  BY DEF SInv, TInv, Control, RecvExclusive, InRecv
<1>4. ChosenIsHeld(x) /\ NotWaiting(x)
  BY DEF RoleFit, RoleFitOf
<1>5. MaxThread \notin Threads /\ x # None
  BY MaxThreadAssumption DEF Threads, None
<1> USE ActorFacts, <1>1, <1>2, <1>3, <1>4, <1>5
       DEF ControlTypeOK, PoolTypeOK, RoleFitOf, ChosenIsHeld, NotWaiting, HandLabels, Goto,
           Call, Return, Set, poolShape, socketVars, epollLocals, RecvLabels, SubLabels,
           Callers, CallFits, CloseLabels
<1>6. \A a : Held(a) => Held(a)'
  BY HeldStays
<1>GetThreadScan. CASE GetThreadScan(x)
  <2>1. ret[x] = "give" /\ pc[x] = "get_thread" /\ UNCHANGED <<status, b>>
    BY <1>GetThreadScan DEF GetThreadScan
  <2>2. ASSUME NEW a \in Threads, status[a] = "WAIT", slot' = [slot EXCEPT ![x] = a],
               pc' = [pc EXCEPT ![x] = "get_mark"], ret' = ret
        PROVE RoleFitOf(x)'
    <3>1. Held(a)
      BY <2>2 DEF Held, SInv, SlotsFit, WaitingIsAlive
    <3> QED
      BY <2>1, <2>2, <3>1, <1>6
  <2>3. ASSUME pc' = [pc EXCEPT ![x] = "get_own"], UNCHANGED <<slot, ret>>
        PROVE RoleFitOf(x)'
    BY <2>1, <2>3, <1>6
  <2> QED
    BY <1>GetThreadScan, <2>1, <2>2, <2>3, ReceiverIsThread, Zenon
       DEF GetThreadScan, Waiting, Goto
<1>GetThreadOwn. CASE GetThreadOwn(x)
  <2>1. ret[x] = "give" /\ pc[x] = "get_own" /\ UNCHANGED <<status, b>>
    BY <1>GetThreadOwn DEF GetThreadOwn
  <2>2. CASE status[x] = "WAIT"
    <3>1. pc' = [pc EXCEPT ![x] = "get_take"] /\ UNCHANGED <<slot, ret>>
      BY <1>GetThreadOwn, <2>2 DEF GetThreadOwn
    <3>2. Held(x)
      BY <2>2 DEF Held, SInv, SlotsFit, WaitingIsAlive
    <3> QED
      BY <2>1, <3>1, <3>2, <1>6
  <2>3. CASE status[x] # "WAIT"
    <3>1. /\ pc' = [pc EXCEPT ![x] = "give"] /\ ret' = [ret EXCEPT ![x] = "none"]
          /\ slot' = [slot EXCEPT ![x] = None]
      BY <1>GetThreadOwn, <2>1, <2>3 DEF GetThreadOwn
    <3> QED
      BY <2>1, <2>3, <3>1, <1>6
  <2> QED
    BY <2>2, <2>3
<1>GetThreadTake. CASE GetThreadTake(x)
  BY <1>GetThreadTake, <1>6 DEF GetThreadTake
<1>GetThreadMark. CASE GetThreadMark(x)
  <2>1. ret[x] = "give" /\ pc[x] = "get_mark" /\ slot[x] \in Threads
    BY <1>GetThreadMark DEF GetThreadMark, Held
  <2>2. /\ pc' = [pc EXCEPT ![x] = "give"] /\ ret' = [ret EXCEPT ![x] = "none"]
        /\ status' = [status EXCEPT ![slot[x]] = "GET"] /\ slot' = slot
    BY <1>GetThreadMark, <2>1 DEF GetThreadMark
  <2> QED
    BY <2>1, <2>2, <1>6
<1>AddThreadStart. CASE AddThreadStart(x)
  BY <1>AddThreadStart, <1>6 DEF AddThreadStart, Free, Lowest
<1>AddThreadStore. CASE AddThreadStore(x)
  BY <1>AddThreadStore, <1>6 DEF AddThreadStore
<1>CloseSocket. CASE CloseSocket(x)
  BY <1>CloseSocket, <1>6 DEF CloseSocket
<1>CloseSweep. CASE CloseSweep(x)
  BY <1>CloseSweep, <1>6 DEF CloseSweep, NextSwept
<1>CloseReset. CASE CloseReset(x)
  BY <1>CloseReset, <1>6 DEF CloseReset, NextSwept
<1>ClearPending. CASE ClearPending(x)
  BY <1>ClearPending, <1>6 DEF ClearPending
<1> QED
  BY <1>GetThreadScan, <1>GetThreadOwn, <1>GetThreadTake, <1>GetThreadMark, <1>AddThreadStart,
     <1>AddThreadStore, <1>CloseSocket, <1>CloseSweep, <1>CloseReset, <1>ClearPending

(* What it does in recv_epoll itself. *)
LEMMA ReceiverKeepsRole ==
  ASSUME SInv, RoleFit, NEW x \in Threads, recv_thread = x, Calm(x),
         RecvEpoll(x) \/ Scan(x) \/ EpollWait(x) \/ Events(x) \/ Give(x) \/
         GiveFd(x) \/ GiveStatus(x) \/ GiveCtl(x) \/ Acknowledge(x) \/ Drop(x)
  PROVE RoleFitOf(x)'
<1>1. ControlTypeOK /\ PoolTypeOK
  BY DEF SInv, TInv, DataTypeOK
<1>2. (pc[x] \in SubLabels <=> ret[x] # "none") /\ ret[x] \in Callers \union {"none"} /\ CallFits(x)
  BY <1>1, ActorFacts DEF SInv, CallsFit, TInv, Control, CallsReturn, ControlTypeOK
<1>3. pc[x] \in RecvLabels \/ ret[x] \in RecvLabels
  BY DEF SInv, TInv, Control, RecvExclusive, InRecv
<1>4. ChosenIsHeld(x) /\ NotWaiting(x)
  BY DEF RoleFit, RoleFitOf
<1>5. MaxThread \notin Threads /\ x # None
  BY MaxThreadAssumption DEF Threads, None
<1> USE ActorFacts, <1>1, <1>2, <1>3, <1>4, <1>5
       DEF ControlTypeOK, PoolTypeOK, RoleFitOf, ChosenIsHeld, NotWaiting, HandLabels, Goto,
           Call, Return, Set, poolShape, socketVars, epollLocals, RecvLabels, SubLabels,
           Callers, CallFits, CloseLabels
<1>6. \A a : Held(a) => Held(a)'
  BY HeldStays
<1>RecvEpoll. CASE RecvEpoll(x)
  BY <1>RecvEpoll, <1>6 DEF RecvEpoll
<1>Scan. CASE Scan(x)
  BY <1>Scan, <1>6 DEF Scan
<1>EpollWait. CASE EpollWait(x)
  BY <1>EpollWait, <1>6 DEF EpollWait
<1>Events. CASE Events(x)
  BY <1>Events, <1>6 DEF Events
<1>Give. CASE Give(x)
  BY <1>Give, <1>6 DEF Give
<1>GiveFd. CASE GiveFd(x)
  BY <1>GiveFd, <1>6 DEF GiveFd
<1>GiveStatus. CASE GiveStatus(x)
  BY <1>GiveStatus, <1>6 DEF GiveStatus
<1>GiveCtl. CASE GiveCtl(x)
  BY <1>GiveCtl, <1>6 DEF GiveCtl
<1>Acknowledge. CASE Acknowledge(x)
  BY <1>Acknowledge, <1>6 DEF Acknowledge
<1>Drop. CASE Drop(x)
  BY <1>Drop, <1>6 DEF Drop
<1> QED
  BY <1>RecvEpoll, <1>Scan, <1>EpollWait, <1>Events, <1>Give, <1>GiveFd, <1>GiveStatus,
     <1>GiveCtl, <1>Acknowledge, <1>Drop

(* In resize, and when it is called, recv_epoll has no slot in its hands. *)
LEMMA ResizeKeepsRole ==
  ASSUME SInv, SInv', RoleFit, NEW x \in Actors, ResizeStep(x), b' = b
  PROVE RoleFit'
<1>1. pc[x] \in ResizeLabels /\ ret[x] \in {"epoll_wait", "give_up"}
  BY DEF ResizeStep, ResizeEnd, ResizeLook, ResizeMark, ResizeJoin, ResizeClear, ResizeFd,
         ResizeLabels, SInv, CallsFit, CallFits
<1>2. x \in Threads /\ recv_thread = x
  BY <1>1, OneResizes DEF SInv, TInv, Sweeping
<1>3. ControlTypeOK /\ PoolTypeOK
  BY DEF SInv, TInv, DataTypeOK
<1>4. pc[x] \in {"resize_mark", "resize_join", "resize_clear", "resize_fd"} => sweep.a \in Threads \ {x}
  BY <1>2, SweptSlot, TInvTyped DEF ResizeLabels, SInv
<1>5. /\ \/ pc'[x] \in ResizeLabels /\ ret'[x] = ret[x]
         \/ pc'[x] = ret[x] /\ ret'[x] = "none"
      /\ status'[x] = status[x] /\ recv_thread' = recv_thread
  <2> USE <1>1, <1>2, <1>3, <1>4, ActorFacts
         DEF ResizeLabels, ControlTypeOK, PoolTypeOK, Goto, Return
  <2>1. CASE ResizeEnd(x)
    BY <2>1 DEF ResizeEnd
  <2>2. CASE ResizeLook(x)
    BY <2>2 DEF ResizeLook
  <2>3. CASE ResizeMark(x) \/ ResizeClear(x) \/ ResizeFd(x)
    BY <2>3 DEF ResizeMark, ResizeClear, ResizeFd
  <2>4. CASE ResizeJoin(x)
    BY <2>4 DEF ResizeJoin
  <2> QED
    BY <2>1, <2>2, <2>3, <2>4 DEF ResizeStep
<1>6. RoleFitOf(x)'
  BY <1>1, <1>2, <1>5 DEF RoleFit, RoleFitOf, ChosenIsHeld, NotWaiting, ResizeLabels, HandLabels
<1> QED
  BY <1>2, <1>5, <1>6, OnlyReceiver DEF SInv, TInv

LEMMA CallResizeKeepsRole ==
  ASSUME SInv, SInv', RoleFit, NEW t \in Threads, CallsResize(t)
  PROVE RoleFit'
<1>1. InRecv(t) /\ recv_thread = t /\ ControlTypeOK
  BY DEF CallsResize, Poll, Leave, InRecv, RecvLabels, SInv, TInv, Control, RecvExclusive
<1>2. /\ pc'[t] = "resize"
      /\ \/ pc[t] = "poll" /\ ret'[t] = "epoll_wait"
         \/ pc[t] = "leave" /\ ret'[t] = "give_up"
      /\ UNCHANGED <<status, recv_thread, b>>
  BY <1>1, ActorFacts
     DEF CallsResize, Poll, Leave, Call, Goto, ControlTypeOK, socketVars, epollLocals
<1>3. RoleFitOf(t)'
  BY <1>2 DEF RoleFit, RoleFitOf, ChosenIsHeld, NotWaiting, HandLabels
<1> QED
  BY <1>1, <1>2, <1>3, OnlyReceiver DEF SInv, TInv

LEMMA GiveUpKeepsRole ==
  ASSUME SInv', NEW t \in Threads, GiveUp(t)
  PROVE RoleFit'
<1>1. \A u \in Threads : recv_thread' # u
  BY ActorFacts DEF GiveUp
<1> QED
  BY <1>1, OnlyReceiver DEF SInv, TInv

(* The steps of the subroutines, by whichever actor. *)
LEMMA ServerStepKeepsRole ==
  ASSUME SInv, SInv', RoleFit, NEW x \in Actors, ServerStep(x)
  PROVE RoleFit'
<1>1. b' = b
  BY OthersKeepB
<1>2. CASE ResizeStep(x)
  BY <1>1, <1>2, ResizeKeepsRole
<1>3. CASE ~ResizeStep(x)
  <2>1. Calm(x)
    BY <1>3, ServerStepCalm DEF SInv
  <2>2. CASE recv_thread # x
    BY <1>1, <2>1, <2>2, BystanderKeepsRole
  <2>3. CASE recv_thread = x
    <3>1. x \in Threads /\ recv_thread' = x
      BY <1>3, <2>3, ActorFacts
         DEF SInv, TInv, ControlTypeOK, ServerStep, PoolStep, ThreadStep, ResizeStep,
             GetThreadScan, GetThreadOwn, GetThreadTake, GetThreadMark, AddThreadStart,
             AddThreadStore, CloseSocket, CloseSweep, CloseReset, ClearPending
    <3>2. \/ GetThreadScan(x) \/ GetThreadOwn(x) \/ GetThreadTake(x) \/ GetThreadMark(x)
          \/ AddThreadStart(x) \/ AddThreadStore(x)
          \/ CloseSocket(x) \/ CloseSweep(x) \/ CloseReset(x) \/ ClearPending(x)
      BY <1>3 DEF ServerStep, PoolStep, ThreadStep, ResizeStep
    <3>3. RoleFitOf(x)'
      BY <1>1, <2>1, <2>3, <3>1, <3>2, ReceiverCallsKeepRole
    <3> QED
      BY <3>1, <3>3, OnlyReceiver DEF SInv, TInv
  <2> QED
    BY <2>2, <2>3
<1> QED
  BY <1>2, <1>3

LEMMA RecvEpollKeepsRole ==
  ASSUME SInv, SInv', RoleFit, NEW t \in Threads, RecvEpollStep(t)
  PROVE RoleFit'
<1>1. CASE CallsResize(t)
  BY <1>1, CallResizeKeepsRole
<1>2. CASE GiveUp(t)
  BY <1>2, GiveUpKeepsRole
<1>3. CASE ~CallsResize(t) /\ ~GiveUp(t)
  <2>1. Calm(t)
    BY <1>3, RecvEpollCalm DEF RecvEpollStep, CallsResize, SInv
  <2>2. pc[t] \in RecvLabels \ {"give_up"}
    BY <1>3
       DEF RecvEpollStep, CallsResize, RecvLabels, RecvEpoll, Scan, EpollWait, Events, Give,
           GiveFd, GiveStatus, GiveCtl, Acknowledge, Drop
  <2>3. recv_thread = t /\ recv_thread' = t
    BY <2>1, <2>2 DEF Calm, RecvLabels, SInv, TInv, Control, RecvExclusive, InRecv
  <2>4. RoleFitOf(t)'
    BY <1>3, <2>1, <2>3, ReceiverKeepsRole DEF RecvEpollStep, CallsResize
  <2> QED
    BY <2>3, <2>4, OnlyReceiver DEF SInv, TInv
<1> QED
  BY <1>1, <1>2, <1>3

LEMMA NextKeepsRole ==
  ASSUME SInv, SInv', RoleFit, [Next]_vars
  PROVE RoleFit'
<1>1. ASSUME NEW t \in Threads, MsgRecvStep(t) \/ UserStep(t)
      PROVE RoleFit'
  <2>1. Calm(t) /\ b' = b
    BY <1>1, MsgRecvCalm, UserCalm, MsgRecvKeepsB DEF SInv, MsgRecvStep, UserStep
  <2>2. pc[t] \in WorkLabels
    BY <1>1
       DEF MsgRecvStep, MsgRecv, Park, ParkStatus, ParkRole, Wait, WaitRole, WaitStatus, WaitMx,
           Woken, Prefix, ReadLoop, Recv, Refuse, Push, PushPending, EpollOn, EpollOnCtl,
           Announce, Announced, Done, UserStep, UserReturns, WriteFails, WorkLabels
  <2>3. recv_thread # t
    BY <2>2, ActorFacts
       DEF SInv, TInv, Control, RecvExclusive, InRecv, CallsReturn, WorkLabels, RecvLabels,
           SubLabels
  <2> QED
    BY <2>1, <2>3, ActorFacts, BystanderKeepsRole
<1>2. ASSUME AcceptStep \/ Accept \/ AcceptFails
      PROVE RoleFit'
  <2>1. Calm(Acceptor) /\ b' = b
    BY <1>2, AcceptCalm, AcceptKeepsB DEF SInv, AcceptStep
  <2>2. recv_thread # Acceptor
    BY ActorFacts DEF SInv, TInv, ControlTypeOK
  <2> QED
    BY <2>1, <2>2, ActorFacts, BystanderKeepsRole
<1>3. ASSUME ClientStep \/ UNCHANGED vars
      PROVE RoleFit'
  BY <1>3
     DEF ClientStep, vars, threadVars, socketVars, RoleFit, RoleFitOf, ChosenIsHeld, NotWaiting,
         Held, Alive
<1> QED
  BY <1>1, <1>2, <1>3, ServerStepKeepsRole, RecvEpollKeepsRole, ActorFacts
     DEF Next, ThreadRuns, AcceptorRuns

-----------------------------------------------------------------------------
(* Recycling.  A running thread whose status is RECYCLE will return when   *)
(* it looks at its status.  Only the thread with the role tells others to, *)
(* it is never told itself, and its last resize joins all it has told.     *)
Told(a) == Alive(a) /\ status[a] = "RECYCLE"

Leaving(t) == ret[t] = "give_up" /\ pc[t] \in ResizeLabels

(* The slots the sweep of t is done with. *)
Swept(t, a) == a < sweep.a \/ (a = sweep.a /\ pc[t] = "resize_fd")

NoneToldWhenVacant == recv_thread = None => \A a \in Threads : ~Told(a)

ReceiverNotTold == \A t \in Threads : recv_thread = t => status[t] # "RECYCLE"

LeaveJoinsAll ==
  \A t \in Threads :
    /\ Leaving(t) => /\ sweep.amount = 0 /\ pc[t] # "resize_mark"
                     /\ \A a \in Threads : Swept(t, a) => ~Told(a)
    /\ pc[t] = "give_up" => \A a \in Threads : ~Told(a)

Recycling == NoneToldWhenVacant /\ ReceiverNotTold /\ LeaveJoinsAll

LEMMA ToldStays ==
  ASSUME SInv, NEW x \in Actors, Calm(x), NEW a \in Threads, Told(a)'
  PROVE Told(a) \/ Clearing(a)
<1>1. CASE a = x
  BY <1>1 DEF Calm, Told, Alive
<1>2. CASE a # x
  <2>1. status[a] = "RECYCLE"
    BY <1>2 DEF Calm, Told
  <2>2. CASE pc'[a] = pc[a]
    BY <2>1, <2>2 DEF Told, Alive
  <2>3. CASE pc'[a] # pc[a]
    BY <1>2, <2>1, <2>3, ActorFacts DEF Calm, SInv, SlotsFit, RecycledHasPointer
  <2> QED
    BY <2>2, <2>3
<1> QED
  BY <1>1, <1>2

(* The slot resize is clearing belongs to the sweep of the thread with the role. *)
LEMMA ClearingByReceiver ==
  ASSUME SInv, NEW a \in Threads, Clearing(a)
  PROVE \E t \in Threads : recv_thread = t /\ pc[t] = "resize_clear" /\ sweep.a = a
<1>1. PICK t \in Threads : pc[t] = "resize_clear" /\ sweep.a = a
  BY DEF Clearing
<1> QED
  BY <1>1, ActorFacts, OneResizes DEF SInv, TInv, Sweeping, ResizeLabels

LEMMA CalmKeepsRecycling ==
  ASSUME SInv, Recycling, NEW x \in Actors, Calm(x)
  PROVE Recycling'
<1> USE ActorFacts
<1>1. NoneToldWhenVacant'
  <2> SUFFICES ASSUME recv_thread' = None, NEW a \in Threads, Told(a)'
               PROVE FALSE
    BY DEF NoneToldWhenVacant
  <2>1. Told(a) \/ Clearing(a)
    BY ToldStays
  <2>2. CASE recv_thread = None
    <3>1. ~Clearing(a)
      BY <2>2, ClearingByReceiver
    <3> QED
      BY <2>1, <2>2, <3>1 DEF Recycling, NoneToldWhenVacant
  <2>3. CASE pc[x] = "give_up" /\ x \in Threads
    <3>1. recv_thread = x
      BY <2>3 DEF SInv, TInv, Control, RecvExclusive, InRecv, RecvLabels
    <3>2. ~Clearing(a)
      BY <2>3, <3>1, ClearingByReceiver
    <3> QED
      BY <2>1, <2>3, <3>2 DEF Recycling, LeaveJoinsAll
  <2> QED
    BY <2>2, <2>3 DEF Calm
<1>2. ReceiverNotTold'
  <2> SUFFICES ASSUME NEW t \in Threads, recv_thread' = t, status'[t] = "RECYCLE"
               PROVE FALSE
    BY DEF ReceiverNotTold
  <2>1. CASE recv_thread = t
    <3>1. pc[t] # "done"
      BY <2>1 DEF SInv, TInv, Control, RecvExclusive, InRecv, CallsReturn, RecvLabels, SubLabels
    <3> QED
      BY <2>1, <3>1 DEF Calm, Recycling, ReceiverNotTold
  <2>2. CASE recv_thread # t
    <3>1. t = x /\ pc[x] = "park_role" /\ recv_thread = None
      BY <2>2 DEF Calm
    <3>2. Told(t)
      BY <3>1 DEF Calm, Told, Alive
    <3> QED
      BY <3>1, <3>2 DEF Recycling, NoneToldWhenVacant
  <2> QED
    BY <2>1, <2>2
<1>3. LeaveJoinsAll'
  <2>1. ASSUME NEW t \in Threads, Leaving(t)'
        PROVE /\ sweep'.amount = 0 /\ pc'[t] # "resize_mark"
              /\ \A a \in Threads : Swept(t, a)' => ~Told(a)'
    <3>1. t # x
      BY <2>1 DEF Calm, Leaving
    <3>2. Leaving(t) /\ pc'[t] = pc[t] /\ sweep' = sweep
      BY <2>1, <3>1 DEF Calm, Leaving, ResizeLabels
    <3>3. sweep.a \in 0..MaxThread
      BY DEF SInv, TInv, DataTypeOK, PoolTypeOK
    <3>4. ASSUME NEW a \in Threads, Swept(t, a), Told(a)'
          PROVE FALSE
      <4>1. ASSUME Clearing(a)
            PROVE FALSE
        <5>1. PICK u \in Threads : recv_thread = u /\ pc[u] = "resize_clear" /\ sweep.a = a
          BY <4>1, ClearingByReceiver
        <5>2. u = t
          BY <3>2, <5>1, OneResizes, ActorFacts DEF SInv, TInv, Sweeping, Leaving
        <5>3. ~(a < sweep.a)
          BY <3>3, <5>1 DEF Threads
        <5> QED
          BY <3>4, <5>1, <5>2, <5>3 DEF Swept
      <4>2. Told(a)
        BY <3>4, <4>1, ToldStays
      <4> QED
        BY <3>2, <3>4, <4>2 DEF Recycling, LeaveJoinsAll
    <3> QED
      BY <3>2, <3>4 DEF Recycling, LeaveJoinsAll, Swept
  <2>2. ASSUME NEW t \in Threads, pc'[t] = "give_up", NEW a \in Threads, Told(a)'
        PROVE FALSE
    <3>1. t # x /\ pc[t] = "give_up"
      BY <2>2 DEF Calm
    <3>2. recv_thread = t
      BY <3>1 DEF SInv, TInv, Control, RecvExclusive, InRecv, RecvLabels
    <3>3. ~Clearing(a)
      BY <3>1, <3>2, ClearingByReceiver
    <3> QED
      BY <2>2, <3>1, <3>3, ToldStays DEF Recycling, LeaveJoinsAll
  <2> QED
    BY <2>1, <2>2 DEF LeaveJoinsAll
<1> QED
  BY <1>1, <1>2, <1>3 DEF Recycling

LEMMA ResizeKeepsRecycling ==
  ASSUME SInv, SInv', Recycling, NEW x \in Actors, ResizeStep(x)
  PROVE Recycling'
<1>1. pc[x] \in ResizeLabels /\ ret[x] \in {"epoll_wait", "give_up"}
  BY DEF ResizeStep, ResizeEnd, ResizeLook, ResizeMark, ResizeJoin, ResizeClear, ResizeFd,
         ResizeLabels, SInv, CallsFit, CallFits
<1>2. x \in Threads /\ recv_thread = x
  BY <1>1, OneResizes DEF SInv, TInv, Sweeping
<1>3. ControlTypeOK /\ PoolTypeOK
  BY DEF SInv, TInv, DataTypeOK
<1>4. pc[x] # "resize" => sweep.a \in Threads \ {x}
  BY <1>1, <1>2, SweptSlot, TInvTyped DEF ResizeLabels, SInv
<1>5. recv_thread' = x /\ status'[x] = status[x]
  BY <1>1, <1>2, <1>3, <1>4, ActorFacts
     DEF ResizeStep, ResizeEnd, ResizeLook, ResizeMark, ResizeJoin, ResizeClear, ResizeFd,
         ControlTypeOK, PoolTypeOK
<1>6. NoneToldWhenVacant' /\ ReceiverNotTold'
  BY <1>2, <1>5, ActorFacts DEF NoneToldWhenVacant, ReceiverNotTold, Recycling
<1>7. \A t \in Threads \ {x} : pc'[t] \notin RecvLabels /\ ret'[t] \notin RecvLabels
  BY <1>5 DEF SInv, TInv, Control, RecvExclusive, InRecv
<1>8. /\ Leaving(x)' => /\ sweep'.amount = 0 /\ pc'[x] # "resize_mark"
                        /\ \A a \in Threads : Swept(x, a)' => ~Told(a)'
      /\ pc'[x] = "give_up" => \A a \in Threads : ~Told(a)'
  <2> USE <1>1, <1>2, <1>3, <1>4, ActorFacts
         DEF ControlTypeOK, PoolTypeOK, Leaving, Told, Alive, ResizeLabels, NextSlot, Goto,
             Return, Swept
  <2>1. Leaving(x) => /\ sweep.amount = 0 /\ pc[x] # "resize_mark"
                      /\ \A a \in Threads : Swept(x, a) => ~Told(a)
    BY DEF Recycling, LeaveJoinsAll
  <2>2. sweep.a \in 0..MaxThread /\ \A a \in Threads : a \in Int /\ a < MaxThread
    BY MaxThreadAssumption DEF Threads
  <2>3. status[x] # "RECYCLE"
    BY DEF Recycling, ReceiverNotTold
  <2>4. CASE ResizeEnd(x)
    BY <2>1, <2>2, <2>4 DEF ResizeEnd, NoSweep
  <2>5. CASE ResizeLook(x)
    BY <2>1, <2>2, <2>3, <2>5 DEF ResizeLook, Idle
  <2>6. CASE ResizeMark(x)
    BY <2>1, <2>6 DEF ResizeMark
  <2>7. CASE ResizeJoin(x)
    BY <2>1, <2>2, <2>7 DEF ResizeJoin
  <2>8. CASE ResizeClear(x)
    BY <2>1, <2>2, <2>8 DEF ResizeClear
  <2>9. CASE ResizeFd(x)
    BY <2>1, <2>2, <2>9 DEF ResizeFd
  <2> QED
    BY <2>4, <2>5, <2>6, <2>7, <2>8, <2>9 DEF ResizeStep
<1>9. LeaveJoinsAll'
  BY <1>7, <1>8 DEF LeaveJoinsAll, Leaving, RecvLabels
<1> QED
  BY <1>6, <1>9 DEF Recycling

LEMMA CallResizeKeepsRecycling ==
  ASSUME SInv, SInv', Recycling, NEW t \in Threads, CallsResize(t)
  PROVE Recycling'
<1>1. recv_thread = t /\ ControlTypeOK
  BY DEF CallsResize, Poll, Leave, InRecv, RecvLabels, SInv, TInv, Control, RecvExclusive
<1>2. /\ pc'[t] = "resize" /\ recv_thread' = t /\ status' = status
      /\ ret'[t] = "epoll_wait" \/ (ret'[t] = "give_up" /\ sweep' = NoSweep)
  BY <1>1, ActorFacts DEF CallsResize, Poll, Leave, Call, Goto, ControlTypeOK
<1>3. NoneToldWhenVacant' /\ ReceiverNotTold'
  BY <1>1, <1>2, ActorFacts DEF NoneToldWhenVacant, ReceiverNotTold, Recycling
<1>4. \A u \in Threads \ {t} : pc'[u] \notin RecvLabels /\ ret'[u] \notin RecvLabels
  BY <1>2 DEF SInv, TInv, Control, RecvExclusive, InRecv
<1>5. \A a \in Threads : ~(a < 0)
  BY MaxThreadAssumption DEF Threads
<1>6. LeaveJoinsAll'
  BY <1>2, <1>4, <1>5 DEF LeaveJoinsAll, Leaving, Swept, RecvLabels, NoSweep
<1> QED
  BY <1>3, <1>6 DEF Recycling

LEMMA NextKeepsRecycling ==
  ASSUME SInv, SInv', Recycling, [Next]_vars
  PROVE Recycling'
<1>1. ASSUME UNCHANGED threadVars
      PROVE Recycling'
  BY <1>1
     DEF threadVars, Recycling, NoneToldWhenVacant, ReceiverNotTold, LeaveJoinsAll, Told, Alive,
         Leaving, Swept
<1> QED
  BY <1>1, StepKinds, CalmKeepsRecycling, ResizeKeepsRecycling, CallResizeKeepsRecycling
     DEF SInv

-----------------------------------------------------------------------------
(* Once a thread was started, one runs for ever.                           *)
StartedStays == (\E a \in Threads : pc[a] # "off") => \E t \in Threads : Alive(t)

LEMMA ReceiverAlive ==
  ASSUME SInv, NEW t \in Threads, recv_thread = t
  PROVE Alive(t)
BY ActorFacts
   DEF SInv, TInv, Control, RecvExclusive, InRecv, CallsReturn, Alive, RecvLabels, SubLabels

LEMMA SomeAliveStays ==
  ASSUME SInv, SInv', Recycling, [Next]_vars, NEW t \in Threads, Alive(t)
  PROVE \E u \in Threads : Alive(u)'
<1>1. ASSUME NEW x \in Actors, Calm(x)
      PROVE \E u \in Threads : Alive(u)'
  <2>1. CASE Alive(t)'
    BY <2>1
  <2>2. CASE ~Alive(t)'
    <3>1. t = x /\ Told(x)
      BY <1>1, <2>2, ActorFacts DEF Calm, Alive, Told
    <3>2. recv_thread # None /\ recv_thread # x
      BY <3>1 DEF Recycling, NoneToldWhenVacant, ReceiverNotTold, Told
    <3>3. PICK u \in Threads : recv_thread = u /\ u # x
      BY <3>2 DEF SInv, TInv, ControlTypeOK
    <3>4. Alive(u)
      BY <3>3, ReceiverAlive
    <3> QED
      BY <1>1, <3>3, <3>4, ActorFacts DEF Calm, Alive
  <2> QED
    BY <2>1, <2>2
<1>2. ASSUME NEW x \in Actors, ResizeStep(x) \/ (x \in Threads /\ CallsResize(x))
      PROVE \E u \in Threads : Alive(u)'
  <2>1. x \in Threads
    BY <1>2, OneResizes
       DEF SInv, TInv, Sweeping, ResizeStep, ResizeEnd, ResizeLook, ResizeMark, ResizeJoin,
           ResizeClear, ResizeFd, ResizeLabels
  <2>2. recv_thread' = x
    BY <1>2, <2>1, OneResizes
       DEF SInv, TInv, Sweeping, Control, RecvExclusive, InRecv, RecvLabels, ResizeStep,
           ResizeEnd, ResizeLook, ResizeMark, ResizeJoin, ResizeClear, ResizeFd, ResizeLabels,
           CallsResize, Poll, Leave
  <2>3. pc'[x] \in RecvLabels \/ ret'[x] \in RecvLabels
    BY <2>1, <2>2 DEF SInv, TInv, Control, RecvExclusive, InRecv
  <2>4. pc'[x] \in SubLabels <=> ret'[x] # "none"
    BY <2>1, ActorFacts DEF SInv, TInv, Control, CallsReturn
  <2>5. Alive(x)'
    BY <2>3, <2>4 DEF Alive, RecvLabels, SubLabels
  <2> QED
    BY <2>1, <2>5
<1>3. CASE UNCHANGED threadVars
  BY <1>3 DEF threadVars, Alive
<1> QED
  BY <1>1, <1>2, <1>3, StepKinds, ActorFacts DEF SInv

LEMMA NextStartedStays ==
  ASSUME SInv, SInv', Recycling, StartedStays, [Next]_vars
  PROVE StartedStays'
<1> SUFFICES ASSUME NEW a \in Threads, pc'[a] # "off"
             PROVE \E t \in Threads : Alive(t)'
  BY DEF StartedStays
<1>1. CASE pc[a] # "off"
  BY <1>1, SomeAliveStays DEF StartedStays
<1>2. CASE pc[a] = "off"
  <2>1. ASSUME NEW x \in Actors, Calm(x)
        PROVE Alive(a)'
    BY <1>2, <2>1, ActorFacts DEF Calm, Alive
  <2>2. ASSUME NEW x \in Actors, ResizeStep(x)
        PROVE FALSE
    BY <1>2, <2>2, ActorFacts
       DEF ResizeStep, ResizeEnd, ResizeLook, ResizeMark, ResizeJoin, ResizeClear, ResizeFd, Goto,
           Return, SInv, TInv, ControlTypeOK
  <2>3. ASSUME NEW t \in Threads, CallsResize(t)
        PROVE FALSE
    BY <1>2, <2>3, ActorFacts
       DEF CallsResize, Poll, Leave, Call, Goto, SInv, TInv, ControlTypeOK
  <2>4. ASSUME UNCHANGED threadVars
        PROVE FALSE
    BY <1>2, <2>4 DEF threadVars
  <2> QED
    BY <2>1, <2>2, <2>3, <2>4, StepKinds DEF SInv
<1> QED
  BY <1>1, <1>2

(* A registered client has a thread, or the accepting thread is about to   *)
(* start one.                                                              *)
RegisteredHasThread ==
  (\E s \in Sockets : interest[s] # "none") /\ pc[Acceptor] \notin {"start_thread", "add_thread"}
    => \E t \in Threads : Alive(t)

(* Only start_accept registers a socket: epoll_ctl(MOD) cannot, and close() *)
(* takes it out.                                                           *)
LEMMA RegisterOnly ==
  ASSUME TInv, [Next]_vars, ~Register, NEW s \in Sockets, interest'[s] # "none"
  PROVE \E u \in Sockets : interest[u] # "none"
<1>1. interest \in [Sockets -> {"none", "in", "hup"}]
  BY DEF TInv, DataTypeOK, KernelTypeOK
<1>2. ASSUME UNCHANGED interest
      PROVE interest[s] # "none"
  BY <1>2
<1>3. ASSUME NEW u, CloseFd(u)
      PROVE interest[s] # "none"
  BY <1>1, <1>3 DEF CloseFd
<1>4. ASSUME NEW u, NEW mask, NEW fd, EpollMod(u, mask, fd)
      PROVE \E w \in Sockets : interest[w] # "none"
  BY <1>1, <1>4 DEF EpollMod
<1>5. ASSUME NEW x \in Actors, ServerStep(x)
      PROVE interest[s] # "none"
  BY <1>2, <1>3, <1>5
     DEF ServerStep, PoolStep, CloseSocket, CloseSweep, CloseReset, ClearPending, kernelVars
<1>6. ASSUME NEW t \in Threads, MsgRecvStep(t)
      PROVE \E w \in Sockets : interest[w] # "none"
  BY <1>2, <1>4, <1>6
     DEF MsgRecvStep, MsgRecv, Park, ParkStatus, ParkRole, Wait, WaitRole, WaitStatus, WaitMx,
         Woken, Prefix, ReadLoop, Recv, Refuse, Push, PushPending, EpollOn, EpollOnCtl,
         Announce, Announced, Done, kernelVars
<1>7. ASSUME NEW t \in Threads, RecvEpollStep(t)
      PROVE \E w \in Sockets : interest[w] # "none"
  BY <1>2, <1>4, <1>7
     DEF RecvEpollStep, RecvEpoll, Scan, Poll, EpollWait, Events, Give, GiveFd, GiveStatus,
         GiveCtl, Acknowledge, Drop, Leave, GiveUp, kernelVars
<1>8. ASSUME NEW t \in Threads, UserStep(t)
      PROVE interest[s] # "none"
  BY <1>2, <1>8 DEF UserStep, UserReturns, WriteFails, kernelVars
<1>9. ASSUME AcceptStep \/ Accept \/ AcceptFails
      PROVE interest[s] # "none"
  BY <1>2, <1>3, <1>9
     DEF AcceptStep, TurnDown, AnswerFails, Upgrade, SetEvent, StartThread, Accept, AcceptFails,
         Accept4, kernelVars
<1>10. ASSUME ClientStep \/ UNCHANGED vars
       PROVE interest[s] # "none"
  BY <1>2, <1>10 DEF ClientStep, PeerStep, PeerSends, PeerFinishes, PeerResets, vars, kernelVars
<1> QED
  BY <1>5, <1>6, <1>7, <1>8, <1>9, <1>10, ActorFacts DEF Next, ThreadRuns, AcceptorRuns

(* Nobody else moves the accepting thread. *)
LEMMA AcceptorStays ==
  ASSUME SInv, [Next]_vars, ~AcceptorRuns, ~Accept, ~AcceptFails
  PROVE pc'[Acceptor] = pc[Acceptor]
<1> USE ActorFacts
<1>1. ControlTypeOK
  BY DEF SInv, TInv
<1>2. ASSUME NEW t \in Threads, ThreadRuns(t) \/ UserStep(t)
      PROVE pc'[Acceptor] = pc[Acceptor]
  <2>1. Calm(t) \/ ResizeStep(t) \/ CallsResize(t)
    BY <1>2, ServerStepCalm, MsgRecvCalm, RecvEpollCalm, UserCalm
       DEF ThreadRuns, UserStep, MsgRecvStep, RecvEpollStep, CallsResize, SInv
  <2>2. CASE Calm(t)
    BY <2>2 DEF Calm
  <2>3. CASE ResizeStep(t)
    <3>1. pc[t] # "resize" => sweep.a \in Threads
      BY <2>3, SweptSlot, TInvTyped
         DEF ResizeStep, ResizeEnd, ResizeLook, ResizeMark, ResizeJoin, ResizeClear, ResizeFd,
             ResizeLabels, SInv
    <3> QED
      BY <1>1, <2>3, <3>1
         DEF ResizeStep, ResizeEnd, ResizeLook, ResizeMark, ResizeJoin, ResizeClear, ResizeFd,
             Goto, Return, ControlTypeOK
  <2>4. CASE CallsResize(t)
    BY <1>1, <2>4 DEF CallsResize, Poll, Leave, Call, Goto, ControlTypeOK
  <2> QED
    BY <2>1, <2>2, <2>3, <2>4
<1>3. CASE ClientStep \/ UNCHANGED vars
  BY <1>3 DEF ClientStep, vars, threadVars
<1> QED
  BY <1>2, <1>3 DEF Next

(* The accepting thread leaves start_thread and add_thread with a thread   *)
(* running: it started one, or every slot has one already.                 *)
LEMMA AcceptorStarts ==
  ASSUME SInv, SInv', Recycling, StartedStays, [Next]_vars,
         pc[Acceptor] \in {"start_thread", "add_thread"},
         pc'[Acceptor] \notin {"start_thread", "add_thread"}
  PROVE \E t \in Threads : Alive(t)'
<1> USE ActorFacts
<1>1. ControlTypeOK
  BY DEF SInv, TInv
<1>2. AcceptorRuns \/ Accept \/ AcceptFails
  BY AcceptorStays
<1>3. CASE StartThread
  <2>1. recv_thread # None
    BY <1>1, <1>3 DEF StartThread, Call, Goto, ControlTypeOK
  <2>2. PICK t \in Threads : recv_thread = t
    BY <1>1, <2>1 DEF ControlTypeOK
  <2> QED
    BY <2>2, ReceiverAlive, SomeAliveStays
<1>4. CASE AddThreadStart(Acceptor)
  <2>1. CASE Free = {}
    <3>1. 0 \in Threads /\ thread_list[0]
      BY <2>1, MaxThreadAssumption DEF Free, Threads
    <3>2. pc[0] # "off"
      BY <3>1 DEF SInv, SlotsFit, PointerHasThread
    <3> QED
      BY <3>1, <3>2, SomeAliveStays DEF StartedStays
  <2>2. CASE Free # {}
    <3>1. PICK a \in Threads : pc' = [pc EXCEPT ![Acceptor] = "add_store", ![a] = "msg_recv"]
      BY <1>4, <2>2 DEF AddThreadStart
    <3>2. pc'[a] = "msg_recv"
      BY <1>1, <3>1 DEF ControlTypeOK
    <3> QED
      BY <3>2 DEF Alive
  <2> QED
    BY <2>1, <2>2
<1>5. StartThread \/ AddThreadStart(Acceptor)
  BY <1>1, <1>2
     DEF AcceptorRuns, AcceptStep, ServerStep, PoolStep, ThreadStep, GetThreadScan, GetThreadOwn,
         GetThreadTake, GetThreadMark, AddThreadStore, ResizeEnd, ResizeLook, ResizeMark,
         ResizeJoin, ResizeClear, ResizeFd, CloseSocket, CloseSweep, CloseReset, ClearPending,
         TurnDown, AnswerFails, Upgrade, SetEvent, Register, Accept, AcceptFails
<1> QED
  BY <1>3, <1>4, <1>5

LEMMA NextRegisteredHasThread ==
  ASSUME SInv, SInv', Recycling, StartedStays, RegisteredHasThread, [Next]_vars
  PROVE RegisteredHasThread'
<1> SUFFICES ASSUME NEW s \in Sockets, interest'[s] # "none",
                    pc'[Acceptor] \notin {"start_thread", "add_thread"}
             PROVE \E t \in Threads : Alive(t)'
  BY DEF RegisteredHasThread
<1>1. CASE pc[Acceptor] \in {"start_thread", "add_thread"}
  BY <1>1, AcceptorStarts
<1>2. CASE pc[Acceptor] \notin {"start_thread", "add_thread"}
  <2>1. ~Register
    BY ActorFacts DEF Register, Goto, SInv, TInv, ControlTypeOK
  <2>2. \E u \in Sockets : interest[u] # "none"
    BY <2>1, RegisterOnly DEF SInv
  <2> QED
    BY <1>2, <2>2, SomeAliveStays DEF RegisteredHasThread
<1> QED
  BY <1>1, <1>2

-----------------------------------------------------------------------------
(* The inductive invariant of the receiving role. *)
RInv == SInv /\ RoleFit /\ Recycling /\ StartedStays /\ RegisteredHasThread

LEMMA NextRole ==
  ASSUME RInv, [Next]_vars
  PROVE RInv'
<1>1. SInv'
  BY NextSlots DEF RInv
<1> QED
  BY <1>1, NextKeepsRole, NextKeepsRecycling, NextStartedStays, NextRegisteredHasThread DEF RInv

LEMMA InitRole ==
  ASSUME Init
  PROVE RInv
<1>1. SInv
  BY InitSlots
<1> USE ActorFacts DEF Init, ThreadInit
<1>2. RoleFit
  BY DEF RoleFit, RoleFitOf, ChosenIsHeld, NotWaiting, HandLabels
<1>3. Recycling
  BY DEF Recycling, NoneToldWhenVacant, ReceiverNotTold, LeaveJoinsAll, Told, Leaving
<1>4. StartedStays
  BY DEF StartedStays
<1>5. RegisteredHasThread
  BY DEF RegisteredHasThread, KernelInit
<1> QED
  BY <1>1, <1>2, <1>3, <1>4, <1>5 DEF RInv

(* The role, the hand-over and the recycling of threads fit each other at  *)
(* every moment, resize running beside add_thread without a lock.          *)
THEOREM RoleInvariant == Spec => []RInv
<1>1. Init => RInv
  BY InitRole
<1>2. RInv /\ [Next]_vars => RInv'
  BY NextRole
<1> QED
  BY <1>1, <1>2, PTL DEF Spec

(* From the moment recv_epoll writes to the slot get_thread chose until    *)
(* the acknowledgement, that slot runs a thread that has not decided to    *)
(* return, although resize tells threads to recycle without thread_mx.     *)
THEOREM HandsOverToLiveThread == Spec => []HandOverToLiveThread
<1>1. RInv => HandOverToLiveThread
  BY DEF RInv, RoleFit, RoleFitOf, ChosenIsHeld, HandLabels, Held, Alive, HandOverToLiveThread
<1> QED
  BY <1>1, RoleInvariant, PTL

(* Once a client is registered, and the accepting thread is back at        *)
(* accept, some thread runs and has not decided to return, however many    *)
(* resize has told to recycle.                                             *)
THEOREM PoolStaysAlive == Spec => []PoolAlive
<1>1. RInv => PoolAlive
  BY DEF RInv, RegisteredHasThread, Alive, PoolAlive
<1> QED
  BY <1>1, RoleInvariant, PTL

(* A thread gives the role up only with work of its own, or told to        *)
(* recycle: never while its status is WAIT.                                *)
THEOREM LeavesWithWork == Spec => StepsDownWithWork
<1> DEFINE A == recv_thread # None /\ recv_thread' = None => status[recv_thread] # "WAIT"
<1>1. ASSUME RInv, [Next]_vars
      PROVE A
  <2> SUFFICES ASSUME recv_thread # None, recv_thread' = None
               PROVE status[recv_thread] # "WAIT"
    OBVIOUS
  <2>1. ASSUME NEW x \in Actors, Calm(x)
        PROVE pc[x] = "give_up" /\ x \in Threads
    BY <2>1, ActorFacts DEF Calm
  <2>2. ASSUME NEW x \in Actors, ResizeStep(x) \/ (x \in Threads /\ CallsResize(x))
        PROVE FALSE
    BY <2>2
       DEF ResizeStep, ResizeEnd, ResizeLook, ResizeMark, ResizeJoin, ResizeClear, ResizeFd,
           CallsResize, Poll, Leave
  <2>3. ~UNCHANGED threadVars
    BY DEF threadVars
  <2>4. PICK t \in Threads : pc[t] = "give_up"
    BY <1>1, <2>1, <2>2, <2>3, StepKinds, ActorFacts DEF RInv, SInv
  <2>5. recv_thread = t
    BY <1>1, <2>4 DEF RInv, SInv, TInv, Control, RecvExclusive, InRecv, RecvLabels
  <2> QED
    BY <1>1, <2>4, <2>5 DEF RInv, RoleFit, RoleFitOf, NotWaiting
<1>2. RInv /\ [Next]_vars => [A]_vars
  BY <1>1
<1> QED
  BY <1>2, RoleInvariant, PTL DEF Spec, StepsDownWithWork

-----------------------------------------------------------------------------
(* The pending list. *)
NoTail == ~MixedReads => tail = {}

LEMMA NextNoTail ==
  ASSUME NoTail, [Next]_vars
  PROVE NoTail'
<1>1. ASSUME NEW x \in Actors, ServerStep(x)
      PROVE tail' = tail
  BY <1>1 DEF ServerStep, PoolStep, CloseSocket, CloseSweep, CloseReset, ClearPending, socketVars
<1>2. ASSUME NEW t \in Threads, MsgRecvStep(t), ~MixedReads
      PROVE tail' \subseteq tail
  BY <1>2
     DEF MsgRecvStep, MsgRecv, Park, ParkStatus, ParkRole, Wait, WaitRole, WaitStatus, WaitMx,
         Woken, Prefix, ReadLoop, Recv, Refuse, Push, PushPending, EpollOn, EpollOnCtl,
         Announce, Announced, Done, socketVars
<1>3. ASSUME NEW t \in Threads, RecvEpollStep(t)
      PROVE tail' = tail
  BY <1>3
     DEF RecvEpollStep, RecvEpoll, Scan, Poll, EpollWait, Events, Give, GiveFd, GiveStatus,
         GiveCtl, Acknowledge, Drop, Leave, GiveUp, socketVars
<1>4. ASSUME NEW t \in Threads, UserStep(t)
      PROVE tail' = tail
  BY <1>4 DEF UserStep, UserReturns, WriteFails, socketVars
<1>5. ASSUME AcceptStep \/ Accept \/ AcceptFails
      PROVE tail' = tail
  BY <1>5
     DEF AcceptStep, TurnDown, AnswerFails, Upgrade, SetEvent, Register, StartThread, Accept,
         AcceptFails, socketVars
<1>6. ASSUME ClientStep \/ UNCHANGED vars
      PROVE tail' = tail
  BY <1>6 DEF ClientStep, vars, socketVars
<1>7. ~MixedReads => tail' \subseteq tail
  BY <1>1, <1>2, <1>3, <1>4, <1>5, <1>6, ActorFacts DEF Next, ThreadRuns, AcceptorRuns
<1> QED
  BY <1>7 DEF NoTail

(* The list grows by push_pending only, from a thread that still has its   *)
(* own message to process.                                                 *)
LEMMA PendingGrows ==
  ASSUME [Next]_vars, pending = <<>>, pending' # <<>>
  PROVE \E t \in Threads : PushPending(t)
<1>1. ASSUME NEW x \in Actors, ServerStep(x)
      PROVE FALSE
  <2>1. 1..Len(pending) = {}
    OBVIOUS
  <2> QED
    BY <1>1, <2>1 DEF ServerStep, PoolStep, CloseSocket, CloseSweep, CloseReset, ClearPending,
                      socketVars
<1>2. ASSUME NEW t \in Threads, MsgRecvStep(t)
      PROVE PushPending(t)
  BY <1>2
     DEF MsgRecvStep, MsgRecv, Pop, Park, ParkStatus, ParkRole, Wait, WaitRole, WaitStatus,
         WaitMx, Woken, Prefix, ReadLoop, Recv, Refuse, Push, EpollOn, EpollOnCtl, Announce,
         Announced, Done, socketVars
<1>3. ASSUME NEW t \in Threads, RecvEpollStep(t)
      PROVE FALSE
  BY <1>3
     DEF RecvEpollStep, RecvEpoll, Scan, Poll, EpollWait, Events, Give, GiveFd, GiveStatus,
         GiveCtl, Acknowledge, Drop, Leave, GiveUp, socketVars
<1>4. ASSUME NEW t \in Threads, UserStep(t)
      PROVE FALSE
  BY <1>4 DEF UserStep, UserReturns, WriteFails, socketVars
<1>5. ASSUME AcceptStep \/ Accept \/ AcceptFails
      PROVE FALSE
  BY <1>5
     DEF AcceptStep, TurnDown, AnswerFails, Upgrade, SetEvent, Register, StartThread, Accept,
         AcceptFails, socketVars
<1>6. ASSUME ClientStep \/ UNCHANGED vars
      PROVE FALSE
  BY <1>6 DEF ClientStep, vars, socketVars
<1> QED
  BY <1>1, <1>2, <1>3, <1>4, <1>5, <1>6, ActorFacts DEF Next, ThreadRuns, AcceptorRuns

(* A thread that is bound to look at the pending list does so before it    *)
(* waits, unless a refused frame came behind the messages it read.         *)
LEMMA ServerStepServes ==
  ASSUME Standing, NEW x \in Threads, Serving(x), GetThreadScan(x) \/
         GetThreadOwn(x) \/ GetThreadTake(x) \/ GetThreadMark(x) \/
         AddThreadStart(x) \/ AddThreadStore(x) \/ CloseSocket(x) \/
         CloseSweep(x) \/ CloseReset(x) \/ ClearPending(x)
  PROVE Serving(x)' \/ pending' = <<>> \/ tail # {}
<1> USE ActorFacts, LabelFacts
       DEF Standing, Serving, ServingLabels, SubLabels, Goto, Call, Return, Set, poolShape,
           socketVars
<1>GetThreadScan. CASE GetThreadScan(x)
  BY <1>GetThreadScan DEF GetThreadScan
<1>GetThreadOwn. CASE GetThreadOwn(x)
  BY <1>GetThreadOwn DEF GetThreadOwn
<1>GetThreadTake. CASE GetThreadTake(x)
  BY <1>GetThreadTake DEF GetThreadTake
<1>GetThreadMark. CASE GetThreadMark(x)
  BY <1>GetThreadMark DEF GetThreadMark
<1>AddThreadStart. CASE AddThreadStart(x)
  BY <1>AddThreadStart DEF AddThreadStart, Free, Lowest
<1>AddThreadStore. CASE AddThreadStore(x)
  BY <1>AddThreadStore DEF AddThreadStore
<1>CloseSocket. CASE CloseSocket(x)
  BY <1>CloseSocket DEF CloseSocket
<1>CloseSweep. CASE CloseSweep(x)
  BY <1>CloseSweep DEF CloseSweep, NextSwept
<1>CloseReset. CASE CloseReset(x)
  BY <1>CloseReset DEF CloseReset, NextSwept
<1>ClearPending. CASE ClearPending(x)
  BY <1>ClearPending DEF ClearPending
<1> QED
  BY <1>GetThreadScan, <1>GetThreadOwn, <1>GetThreadTake, <1>GetThreadMark, <1>AddThreadStart,
     <1>AddThreadStore, <1>CloseSocket, <1>CloseSweep, <1>CloseReset, <1>ClearPending

LEMMA MsgRecvServes ==
  ASSUME Standing, NEW x \in Threads, Serving(x), MsgRecv(x) \/ Park(x) \/
         ParkStatus(x) \/ ParkRole(x) \/ Wait(x) \/ WaitRole(x) \/
         WaitStatus(x) \/ WaitMx(x) \/ Woken(x) \/ Prefix(x) \/ ReadLoop(x) \/
         Recv(x) \/ Refuse(x) \/ Push(x) \/ PushPending(x) \/ EpollOn(x) \/
         EpollOnCtl(x) \/ Announce(x) \/ Announced(x) \/ Done(x) \/
         UserReturns(x) \/ WriteFails(x)
  PROVE Serving(x)' \/ pending' = <<>> \/ tail # {}
<1> USE ActorFacts, LabelFacts
       DEF Standing, Serving, ServingLabels, SubLabels, Goto, Call, Return, Set, poolShape,
           socketVars
<1>MsgRecv. CASE MsgRecv(x)
  BY <1>MsgRecv DEF MsgRecv, Pop
<1>Park. CASE Park(x)
  BY <1>Park DEF Park
<1>ParkStatus. CASE ParkStatus(x)
  BY <1>ParkStatus DEF ParkStatus
<1>ParkRole. CASE ParkRole(x)
  BY <1>ParkRole DEF ParkRole
<1>Wait. CASE Wait(x)
  BY <1>Wait DEF Wait
<1>WaitRole. CASE WaitRole(x)
  BY <1>WaitRole DEF WaitRole
<1>WaitStatus. CASE WaitStatus(x)
  BY <1>WaitStatus DEF WaitStatus
<1>WaitMx. CASE WaitMx(x)
  BY <1>WaitMx DEF WaitMx
<1>Woken. CASE Woken(x)
  BY <1>Woken DEF Woken
<1>Prefix. CASE Prefix(x)
  BY <1>Prefix DEF Prefix, Pop
<1>ReadLoop. CASE ReadLoop(x)
  BY <1>ReadLoop DEF ReadLoop
<1>Recv. CASE Recv(x)
  BY <1>Recv DEF Recv
<1>Refuse. CASE Refuse(x)
  BY <1>Refuse DEF Refuse, CallClose
<1>Push. CASE Push(x)
  BY <1>Push DEF Push
<1>PushPending. CASE PushPending(x)
  BY <1>PushPending DEF PushPending
<1>EpollOn. CASE EpollOn(x)
  BY <1>EpollOn DEF EpollOn
<1>EpollOnCtl. CASE EpollOnCtl(x)
  BY <1>EpollOnCtl DEF EpollOnCtl
<1>Announce. CASE Announce(x)
  BY <1>Announce DEF Announce
<1>Announced. CASE Announced(x)
  BY <1>Announced DEF Announced
<1>Done. CASE Done(x)
  BY <1>Done DEF Done
<1>UserReturns. CASE UserReturns(x)
  BY <1>UserReturns DEF UserReturns
<1>WriteFails. CASE WriteFails(x)
  BY <1>WriteFails DEF WriteFails, CallClose
<1> QED
  BY <1>MsgRecv, <1>Park, <1>ParkStatus, <1>ParkRole, <1>Wait, <1>WaitRole, <1>WaitStatus,
     <1>WaitMx, <1>Woken, <1>Prefix, <1>ReadLoop, <1>Recv, <1>Refuse, <1>Push, <1>PushPending,
     <1>EpollOn, <1>EpollOnCtl, <1>Announce, <1>Announced, <1>Done, <1>UserReturns,
     <1>WriteFails

(* No other step takes it away, and resize is not run by such a thread. *)
LEMMA ServingStays ==
  ASSUME Standing, MutexHeld, FreeSlotIdle, ResizeByReceiver, [Next]_vars,
         NEW t \in Threads, Serving(t)
  PROVE Serving(t)' \/ pending' = <<>> \/ tail # {}
<1>1. pc[t] \notin ResizeLabels \union RecvLabels \union {"off", "returned"} /\ t \in Actors
  <2>1. ServingLabels \intersect (ResizeLabels \union RecvLabels) = {}
    BY DEF ServingLabels, ResizeLabels, RecvLabels
  <2>2. pc[t] \in ResizeLabels => ret[t] \in RecvLabels
    BY ActorFacts DEF ResizeByReceiver
  <2>3. pc[t] \in RecvLabels \union {"off", "returned"} => ret[t] = "none"
    BY ActorFacts DEF Standing, Labels, RecvLabels, SubLabels
  <2> QED
    BY <2>1, <2>2, <2>3, ActorFacts DEF Serving, ServingLabels
<1>2. ASSUME NEW x \in Actors, ActorStep(x)
      PROVE Serving(t)' \/ pending' = <<>> \/ tail # {}
  <2>1. CASE x # t
    BY <1>1, <1>2, <2>1, OthersStay DEF Serving
  <2>2. CASE x = t /\ ServerStep(t)
    <3>1. ~ResizeStep(t)
      BY <1>1
         DEF ResizeStep, ResizeEnd, ResizeLook, ResizeMark, ResizeJoin, ResizeClear, ResizeFd,
             ResizeLabels
    <3> QED
      BY <2>2, <3>1, ServerStepServes DEF ServerStep, PoolStep, ThreadStep, ResizeStep
  <2>3. CASE x = t /\ ~ServerStep(t)
    <3>1. ~RecvEpollStep(t)
      BY <1>1
         DEF RecvEpollStep, RecvEpoll, Scan, Poll, EpollWait, Events, Give, GiveFd, GiveStatus,
             GiveCtl, Acknowledge, Drop, Leave, GiveUp, RecvLabels
    <3> QED
      BY <1>2, <2>3, <3>1, ActorFacts, MsgRecvServes DEF ActorStep, UserStep, MsgRecvStep
  <2> QED
    BY <2>1, <2>2, <2>3
<1>3. ASSUME ClientStep \/ UNCHANGED vars
      PROVE Serving(t)'
  BY <1>3 DEF ClientStep, vars, threadVars, Serving
<1> QED
  BY <1>2, <1>3, NextIsActorStep

(* A message on the pending list has a thread that will look for it before *)
(* it waits, whatever becomes of its announcement: unless a refused frame  *)
(* may follow the messages of one read.                                    *)
THEOREM PendingIsServed == Spec => []PendingServed
<1> DEFINE Inv == SInv /\ NoTail /\ PendingServed
<1>1. Init => Inv
  BY InitSlots DEF Init, SocketInit, NoTail, PendingServed
<1>2. ASSUME Inv, [Next]_vars
      PROVE Inv'
  <2>1. SInv' /\ NoTail'
    BY <1>2, NextSlots, NextNoTail
  <2>2. PendingServed'
    <3> SUFFICES ASSUME ~MixedReads, pending' # <<>>
                 PROVE \E t \in Threads : Serving(t)'
      BY DEF PendingServed
    <3>1. CASE pending # <<>>
      <4>1. PICK t \in Threads : Serving(t)
        BY <1>2, <3>1 DEF PendingServed
      <4>2. Standing /\ MutexHeld /\ FreeSlotIdle /\ ResizeByReceiver
        BY <1>2, TInvTyped DEF SInv, TInv, Control, Typed, Sweeping
      <4> QED
        BY <1>2, <3>1, <4>1, <4>2, ServingStays DEF NoTail
    <3>2. CASE pending = <<>>
      <4>1. PICK t \in Threads : PushPending(t)
        BY <1>2, <3>2, PendingGrows
      <4>2. pc'[t] = "push"
        BY <1>2, <4>1, ActorFacts DEF PushPending, Goto, SInv, TInv, ControlTypeOK
      <4> QED
        BY <4>2 DEF Serving, ServingLabels
    <3> QED
      BY <3>1, <3>2
  <2> QED
    BY <2>1, <2>2
<1>3. Inv /\ [Next]_vars => Inv'
  BY <1>2
<1>4. Inv => PendingServed
  OBVIOUS
<1> QED
  BY <1>1, <1>3, <1>4, PTL DEF Spec

-----------------------------------------------------------------------------
(* One reader.  While there is one connection, the right to read from it   *)
(* is in one place: the socket is armed, an event of it is in recv_epoll's  *)
(* hands, or one thread has it in its socketfd on the way from park to     *)
(* epoll_on.  From epoll_on to the next park a socketfd means nothing.     *)
ReaderLabels ==
  {"park_status", "park_role", "wait", "wait_role", "wait_status", "wait_mx", "woken", "prefix",
   "read_loop", "refuse", "push", "push_pending", "epoll_on", "epoll_on_ctl"}

Holds(t) ==
  \/ pc[t] = "recv"
  \/ socketfd[t] # None /\ (pc[t] \in ReaderLabels \/ InRecv(t))

Holders == {t \in Threads : Holds(t)}

(* The thread that may read already while its hand-over is not finished. *)
Giving == \E t \in Threads : pc[t] \in {"give_status", "give_ctl"}

Given == {a \in Threads : Giving /\ a = b}

OneHolder == \A t, u \in Holders : t = u

ArmedUnheld == \A s \in Sockets : interest[s] = "in" => Holders \subseteq Given

EventUnheld == events # <<>> /\ ~Head(events).hup => Holders \subseteq Given

GivesInput == \A t \in Threads : HandingOver(t) => ~Head(events).hup

(* While there is one connection, whatever names a socket names this one.  *)
NamesOnly(s) ==
  /\ socketfd \in [Threads -> {s, None}] /\ arg \in [Actors -> {s, None}]
  /\ pending \in Seq({s, None}) /\ ev \in {s, None}

EventsOf(s) == events # <<>> => Head(events).fd = s /\ Tail(events) = <<>>

RegisteredOnly(s) ==
  /\ \A r \in Sockets \ {s} : interest[r] = "none"
  /\ \A r \in Sockets : interest[r] # "none" => tag[r] = s

Sole(s) == NamesOnly(s) /\ EventsOf(s) /\ RegisteredOnly(s)

(* No thread runs before the first socket is registered. *)
NoThread == \A t \in Threads : pc[t] = "off"

BeforeFirst ==
  accepts = 0 =>
    pc[Acceptor] \in {"accept", "ended"} /\ NoThread /\ events = <<>> /\ Sole(None)

FirstIsAlone == pc[Acceptor] \in {"handshake", "set_event", "register"} => NoThread

EventSet ==
  /\ pc[Acceptor] \in {"handshake", "set_event"} => arg[Acceptor] # None
  /\ pc[Acceptor] = "register" => ev = arg[Acceptor]
  /\ \A t \in Threads : pc[t] = "epoll_on_ctl" => ev # None

OneConnection == BeforeFirst /\ FirstIsAlone /\ EventSet /\ \E s \in Descriptors : Sole(s)

(* What the steps below take from the type invariant. *)
LEMMA ReaderFacts ==
  ASSUME TInv
  PROVE /\ Standing /\ MutexHeld /\ FreeSlotIdle /\ ControlTypeOK
        /\ socketfd = [a \in Threads |-> socketfd[a]]
        /\ \A t \in Threads : InRecv(t) <=> recv_thread = t
        /\ \A x \in Actors : pc[x] \in SubLabels <=> ret[x] # "none"
BY TInvTyped DEF TInv, Typed, Control, CallsReturn, RecvExclusive, DataTypeOK, PoolTypeOK

-----------------------------------------------------------------------------
(* Only GiveFd gives a thread the right to read. *)
LEMMA ServerKeepsHolder ==
  ASSUME TInv, NEW t \in Threads, Holds(t)',
         GetThreadScan(t) \/ GetThreadOwn(t) \/ GetThreadTake(t) \/
         GetThreadMark(t) \/ AddThreadStart(t) \/ AddThreadStore(t) \/
         ResizeEnd(t) \/ ResizeLook(t) \/ ResizeMark(t) \/ ResizeJoin(t) \/
         ResizeClear(t) \/ ResizeFd(t) \/ CloseSocket(t) \/ CloseSweep(t) \/
         CloseReset(t) \/ ClearPending(t)
  PROVE Holds(t)
<1> USE ActorFacts
       DEF Holds, InRecv, ReaderLabels, RecvLabels, SubLabels, Standing, Goto, Call, Return,
           Set, poolShape, socketVars
<1>1. Standing /\ ControlTypeOK /\ socketfd = [a \in Threads |-> socketfd[a]]
  BY ReaderFacts
<1>2. \A y \in Actors : pc[y] \in SubLabels <=> ret[y] # "none"
  BY ReaderFacts
<1>3. \A y \in Actors : ret[y] \in Callers \union {"none"}
  BY <1>1 DEF ControlTypeOK
<1>GetThreadScan. CASE GetThreadScan(t)
  BY <1>GetThreadScan, <1>1, <1>2, <1>3 DEF GetThreadScan, Callers
<1>GetThreadOwn. CASE GetThreadOwn(t)
  BY <1>GetThreadOwn, <1>1, <1>2, <1>3 DEF GetThreadOwn, Callers
<1>GetThreadTake. CASE GetThreadTake(t)
  BY <1>GetThreadTake, <1>1, <1>2, <1>3 DEF GetThreadTake
<1>GetThreadMark. CASE GetThreadMark(t)
  BY <1>GetThreadMark, <1>1, <1>2, <1>3 DEF GetThreadMark, Callers
<1>AddThreadStart. CASE AddThreadStart(t)
  BY <1>AddThreadStart, <1>1, <1>2, <1>3 DEF AddThreadStart, Free, Lowest, Callers
<1>AddThreadStore. CASE AddThreadStore(t)
  BY <1>AddThreadStore, <1>1, <1>2, <1>3 DEF AddThreadStore, Callers
<1>ResizeEnd. CASE ResizeEnd(t)
  BY <1>ResizeEnd, <1>1, <1>2, <1>3 DEF ResizeEnd, NoSweep, Callers
<1>ResizeLook. CASE ResizeLook(t)
  BY <1>ResizeLook, <1>1, <1>2, <1>3 DEF ResizeLook, NextSlot
<1>ResizeMark. CASE ResizeMark(t)
  BY <1>ResizeMark, <1>1, <1>2, <1>3 DEF ResizeMark, NextSlot
<1>ResizeJoin. CASE ResizeJoin(t)
  BY <1>ResizeJoin, <1>1, <1>2, <1>3 DEF ResizeJoin, NextSlot
<1>ResizeClear. CASE ResizeClear(t)
  BY <1>ResizeClear, <1>1, <1>2, <1>3 DEF ResizeClear
<1>ResizeFd. CASE ResizeFd(t)
  BY <1>ResizeFd, <1>1, <1>2, <1>3 DEF ResizeFd, NextSlot
<1>CloseSocket. CASE CloseSocket(t)
  BY <1>CloseSocket, <1>1, <1>2, <1>3 DEF CloseSocket, Callers
<1>CloseSweep. CASE CloseSweep(t)
  BY <1>CloseSweep, <1>1, <1>2, <1>3 DEF CloseSweep, NextSwept
<1>CloseReset. CASE CloseReset(t)
  BY <1>CloseReset, <1>1, <1>2, <1>3 DEF CloseReset, NextSwept
<1>ClearPending. CASE ClearPending(t)
  BY <1>ClearPending, <1>1, <1>2, <1>3 DEF ClearPending, Callers
<1> QED
  BY <1>GetThreadScan, <1>GetThreadOwn, <1>GetThreadTake, <1>GetThreadMark, <1>AddThreadStart,
     <1>AddThreadStore, <1>ResizeEnd, <1>ResizeLook, <1>ResizeMark, <1>ResizeJoin, <1>ResizeClear,
     <1>ResizeFd, <1>CloseSocket, <1>CloseSweep, <1>CloseReset, <1>ClearPending

LEMMA MsgRecvKeepsHolder ==
  ASSUME TInv, NEW t \in Threads, Holds(t)',
        MsgRecv(t) \/ Park(t) \/ ParkStatus(t) \/ ParkRole(t) \/ Wait(t) \/
         WaitRole(t) \/ WaitStatus(t) \/ WaitMx(t) \/ Woken(t) \/ Prefix(t) \/
         ReadLoop(t) \/ Recv(t) \/ Refuse(t) \/ Push(t) \/ PushPending(t) \/
         EpollOn(t) \/ EpollOnCtl(t) \/ Announce(t) \/ Announced(t) \/ Done(t)
         \/ UserReturns(t) \/ WriteFails(t)
  PROVE Holds(t)
<1> USE ActorFacts
       DEF Holds, InRecv, ReaderLabels, RecvLabels, SubLabels, Standing, Goto, Call, Return,
           Set, poolShape, socketVars
<1>1. Standing /\ ControlTypeOK /\ socketfd = [a \in Threads |-> socketfd[a]]
  BY ReaderFacts
<1>2. \A y \in Actors : pc[y] \in SubLabels <=> ret[y] # "none"
  BY ReaderFacts
<1>3. \A y \in Actors : ret[y] \in Callers \union {"none"}
  BY <1>1 DEF ControlTypeOK
<1>MsgRecv. CASE MsgRecv(t)
  BY <1>MsgRecv, <1>1, <1>2, <1>3 DEF MsgRecv, Pop
<1>Park. CASE Park(t)
  BY <1>Park, <1>1, <1>2, <1>3 DEF Park
<1>ParkStatus. CASE ParkStatus(t)
  BY <1>ParkStatus, <1>1, <1>2, <1>3 DEF ParkStatus
<1>ParkRole. CASE ParkRole(t)
  BY <1>ParkRole, <1>1, <1>2, <1>3 DEF ParkRole
<1>Wait. CASE Wait(t)
  BY <1>Wait, <1>1, <1>2, <1>3 DEF Wait
<1>WaitRole. CASE WaitRole(t)
  BY <1>WaitRole, <1>1, <1>2, <1>3 DEF WaitRole
<1>WaitStatus. CASE WaitStatus(t)
  BY <1>WaitStatus, <1>1, <1>2, <1>3 DEF WaitStatus
<1>WaitMx. CASE WaitMx(t)
  BY <1>WaitMx, <1>1, <1>2, <1>3 DEF WaitMx
<1>Woken. CASE Woken(t)
  BY <1>Woken, <1>1, <1>2, <1>3 DEF Woken
<1>Prefix. CASE Prefix(t)
  BY <1>Prefix, <1>1, <1>2, <1>3 DEF Prefix, Pop
<1>ReadLoop. CASE ReadLoop(t)
  BY <1>ReadLoop, <1>1, <1>2, <1>3 DEF ReadLoop
<1>Recv. CASE Recv(t)
  BY <1>Recv, <1>1, <1>2, <1>3 DEF Recv
<1>Refuse. CASE Refuse(t)
  BY <1>Refuse, <1>1, <1>2, <1>3 DEF Refuse, CallClose
<1>Push. CASE Push(t)
  BY <1>Push, <1>1, <1>2, <1>3 DEF Push
<1>PushPending. CASE PushPending(t)
  BY <1>PushPending, <1>1, <1>2, <1>3 DEF PushPending
<1>EpollOn. CASE EpollOn(t)
  BY <1>EpollOn, <1>1, <1>2, <1>3 DEF EpollOn
<1>EpollOnCtl. CASE EpollOnCtl(t)
  BY <1>EpollOnCtl, <1>1, <1>2, <1>3 DEF EpollOnCtl
<1>Announce. CASE Announce(t)
  BY <1>Announce, <1>1, <1>2, <1>3 DEF Announce
<1>Announced. CASE Announced(t)
  BY <1>Announced, <1>1, <1>2, <1>3 DEF Announced
<1>Done. CASE Done(t)
  BY <1>Done, <1>1, <1>2, <1>3 DEF Done
<1>UserReturns. CASE UserReturns(t)
  BY <1>UserReturns, <1>1, <1>2, <1>3 DEF UserReturns
<1>WriteFails. CASE WriteFails(t)
  BY <1>WriteFails, <1>1, <1>2, <1>3 DEF WriteFails, CallClose
<1> QED
  BY <1>MsgRecv, <1>Park, <1>ParkStatus, <1>ParkRole, <1>Wait, <1>WaitRole, <1>WaitStatus,
     <1>WaitMx, <1>Woken, <1>Prefix, <1>ReadLoop, <1>Recv, <1>Refuse, <1>Push, <1>PushPending,
     <1>EpollOn, <1>EpollOnCtl, <1>Announce, <1>Announced, <1>Done, <1>UserReturns,
     <1>WriteFails

LEMMA RecvEpollKeepsHolder ==
  ASSUME TInv, NEW t \in Threads, Holds(t)',
        RecvEpoll(t) \/ Scan(t) \/ Poll(t) \/ EpollWait(t) \/ Events(t) \/
         Give(t) \/ GiveStatus(t) \/ GiveCtl(t) \/ Acknowledge(t) \/ Drop(t) \/
         Leave(t) \/ GiveUp(t)
  PROVE Holds(t)
<1> USE ActorFacts
       DEF Holds, InRecv, ReaderLabels, RecvLabels, SubLabels, Standing, Goto, Call, Return,
           Set, poolShape, socketVars
<1>1. Standing /\ ControlTypeOK /\ socketfd = [a \in Threads |-> socketfd[a]]
  BY ReaderFacts
<1>2. \A y \in Actors : pc[y] \in SubLabels <=> ret[y] # "none"
  BY ReaderFacts
<1>3. \A y \in Actors : ret[y] \in Callers \union {"none"}
  BY <1>1 DEF ControlTypeOK
<1>RecvEpoll. CASE RecvEpoll(t)
  BY <1>RecvEpoll, <1>1, <1>2, <1>3 DEF RecvEpoll
<1>Scan. CASE Scan(t)
  BY <1>Scan, <1>1, <1>2, <1>3 DEF Scan
<1>Poll. CASE Poll(t)
  BY <1>Poll, <1>1, <1>2, <1>3 DEF Poll
<1>EpollWait. CASE EpollWait(t)
  BY <1>EpollWait, <1>1, <1>2, <1>3 DEF EpollWait
<1>Events. CASE Events(t)
  BY <1>Events, <1>1, <1>2, <1>3 DEF Events
<1>Give. CASE Give(t)
  BY <1>Give, <1>1, <1>2, <1>3 DEF Give
<1>GiveStatus. CASE GiveStatus(t)
  BY <1>GiveStatus, <1>1, <1>2, <1>3 DEF GiveStatus
<1>GiveCtl. CASE GiveCtl(t)
  BY <1>GiveCtl, <1>1, <1>2, <1>3 DEF GiveCtl
<1>Acknowledge. CASE Acknowledge(t)
  BY <1>Acknowledge, <1>1, <1>2, <1>3 DEF Acknowledge
<1>Drop. CASE Drop(t)
  BY <1>Drop, <1>1, <1>2, <1>3 DEF Drop
<1>Leave. CASE Leave(t)
  BY <1>Leave, <1>1, <1>2, <1>3 DEF Leave, NoSweep
<1>GiveUp. CASE GiveUp(t)
  BY <1>GiveUp, <1>1, <1>2, <1>3 DEF GiveUp
<1> QED
  BY <1>RecvEpoll, <1>Scan, <1>Poll, <1>EpollWait, <1>Events, <1>Give, <1>GiveStatus,
     <1>GiveCtl, <1>Acknowledge, <1>Drop, <1>Leave, <1>GiveUp

(* A step writes another thread's socketfd only to erase it. *)
LEMMA OthersKeepSocketfd ==
  ASSUME TInv, NEW x \in Actors, ActorStep(x), x \in Threads => ~GiveFd(x), NEW t \in Threads \ {x}
  PROVE socketfd'[t] \in {socketfd[t], None}
<1> USE ReaderFacts DEF Set, socketVars
<1>1. CASE ServerStep(x)
  BY <1>1
     DEF ServerStep, PoolStep, ThreadStep, GetThreadScan, GetThreadOwn, GetThreadTake,
         GetThreadMark, AddThreadStart, AddThreadStore, ResizeEnd, ResizeLook, ResizeMark,
         ResizeJoin, ResizeClear, ResizeFd, CloseSocket, CloseSweep, CloseReset, ClearPending
<1>2. CASE MsgRecvStep(x) \/ UserStep(x)
  BY <1>2
     DEF MsgRecvStep, MsgRecv, Park, ParkStatus, ParkRole, Wait, WaitRole, WaitStatus, WaitMx,
         Woken, Prefix, ReadLoop, Recv, Refuse, Push, PushPending, EpollOn, EpollOnCtl,
         Announce, Announced, Done, Pop, UserStep, UserReturns, WriteFails
<1>3. CASE x \in Threads /\ RecvEpollStep(x)
  BY <1>3
     DEF RecvEpollStep, RecvEpoll, Scan, Poll, EpollWait, Events, Give, GiveFd, GiveStatus,
         GiveCtl, Acknowledge, Drop, Leave, GiveUp
<1>4. CASE AcceptStep \/ Accept \/ AcceptFails
  BY <1>4
     DEF AcceptStep, TurnDown, AnswerFails, Upgrade, SetEvent, Register, StartThread, Accept,
         AcceptFails
<1> QED
  BY <1>1, <1>2, <1>3, <1>4 DEF ActorStep

(* A slot without a running thread stays so, or a thread begins in it. *)
LEMMA IdleSlots ==
  ASSUME SInv, [Next]_vars, NEW t \in Threads, pc[t] \in {"off", "returned"}
  PROVE pc'[t] \in {"off", "returned", "msg_recv"}
<1>1. ASSUME NEW x \in Actors, ResizeStep(x)
      PROVE pc'[t] \in {"off", "returned"}
  BY <1>1, ActorFacts
     DEF SInv, TInv, ControlTypeOK, ResizeStep, ResizeEnd, ResizeLook, ResizeMark, ResizeJoin,
         ResizeClear, ResizeFd, Goto, Return
<1>2. ASSUME NEW u \in Threads, CallsResize(u)
      PROVE pc'[t] \in {"off", "returned"}
  BY <1>2, ActorFacts DEF SInv, TInv, ControlTypeOK, CallsResize, Poll, Leave, Call, Goto
<1>3. ASSUME NEW x \in Actors, Calm(x)
      PROVE pc'[t] \in {"off", "returned", "msg_recv"}
  BY <1>3, ActorFacts DEF Calm
<1>4. UNCHANGED threadVars => pc'[t] \in {"off", "returned"}
  BY DEF threadVars
<1> QED
  BY <1>1, <1>2, <1>3, <1>4, StepKinds DEF SInv

LEMMA HolderKept ==
  ASSUME SInv, SInv', [Next]_vars, \A u \in Threads : ~GiveFd(u), NEW t \in Threads, Holds(t)'
  PROVE Holds(t)
<1>1. TInv /\ TInv'
  BY DEF SInv
<1>2. ASSUME NEW x \in Actors \ {t}, ActorStep(x)
      PROVE Holds(t)
  <2>2. socketfd'[t] \in {socketfd[t], None}
    BY <1>1, <1>2, OthersKeepSocketfd
  <2>3. CASE pc[t] \notin {"off", "returned"}
    <3>1. pc'[t] = pc[t] /\ ret'[t] = ret[t]
      BY <1>1, <1>2, <2>3, ReaderFacts, OthersStay, ActorFacts
    <3> QED
      BY <2>2, <3>1 DEF Holds, InRecv
  <2>4. CASE pc[t] \in {"off", "returned"}
    <3>1. pc'[t] \in {"off", "returned", "msg_recv"}
      BY <2>4, IdleSlots
    <3>2. ret'[t] = "none"
      BY <1>1, <3>1, ActorFacts DEF TInv, Control, CallsReturn, SubLabels
    <3> QED
      BY <3>1, <3>2 DEF Holds, InRecv, ReaderLabels, RecvLabels
  <2> QED
    BY <2>3, <2>4
<1>3. CASE ActorStep(t)
  BY <1>1, <1>3, ActorFacts, ServerKeepsHolder, MsgRecvKeepsHolder, RecvEpollKeepsHolder
     DEF ActorStep, ServerStep, PoolStep, ThreadStep, MsgRecvStep, RecvEpollStep, UserStep
<1>4. CASE ClientStep \/ UNCHANGED vars
  BY <1>4 DEF ClientStep, vars, threadVars, Holds, InRecv
<1> QED
  BY <1>2, <1>3, <1>4, NextIsActorStep, ActorFacts

(* Only epoll_on and start_accept arm a socket. *)
LEMMA ArmedKept ==
  ASSUME TInv, [Next]_vars, ~Register, \A t \in Threads : ~EpollOnCtl(t),
         NEW s \in Sockets, interest'[s] = "in"
  PROVE interest[s] = "in"
<1>1. interest \in [Sockets -> {"none", "in", "hup"}]
  BY DEF TInv, DataTypeOK, KernelTypeOK
<1>2. ASSUME UNCHANGED interest
      PROVE interest[s] = "in"
  BY <1>2
<1>3. ASSUME NEW u, CloseFd(u)
      PROVE interest[s] = "in"
  BY <1>1, <1>3 DEF CloseFd
<1>4. ASSUME NEW u, NEW fd, EpollMod(u, "hup", fd)
      PROVE interest[s] = "in"
  BY <1>1, <1>4 DEF EpollMod
<1>5. ASSUME NEW x \in Actors, ServerStep(x)
      PROVE interest[s] = "in"
  BY <1>2, <1>3, <1>5
     DEF ServerStep, PoolStep, CloseSocket, CloseSweep, CloseReset, ClearPending, kernelVars
<1>6. ASSUME NEW t \in Threads, MsgRecvStep(t)
      PROVE interest[s] = "in"
  BY <1>2, <1>6
     DEF MsgRecvStep, MsgRecv, Park, ParkStatus, ParkRole, Wait, WaitRole, WaitStatus, WaitMx,
         Woken, Prefix, ReadLoop, Recv, Refuse, Push, PushPending, EpollOn, Announce, Announced,
         Done, kernelVars
<1>7. ASSUME NEW t \in Threads, RecvEpollStep(t)
      PROVE interest[s] = "in"
  BY <1>2, <1>4, <1>7
     DEF RecvEpollStep, RecvEpoll, Scan, Poll, EpollWait, Events, Give, GiveFd, GiveStatus,
         GiveCtl, Acknowledge, Drop, Leave, GiveUp, kernelVars
<1>8. ASSUME NEW t \in Threads, UserStep(t)
      PROVE interest[s] = "in"
  BY <1>2, <1>8 DEF UserStep, UserReturns, WriteFails, kernelVars
<1>9. ASSUME AcceptStep \/ Accept \/ AcceptFails
      PROVE interest[s] = "in"
  BY <1>2, <1>3, <1>9
     DEF AcceptStep, TurnDown, AnswerFails, Upgrade, SetEvent, StartThread, Accept, AcceptFails,
         Accept4, kernelVars
<1>10. ASSUME ClientStep \/ UNCHANGED vars
       PROVE interest[s] = "in"
  BY <1>2, <1>10 DEF ClientStep, PeerStep, PeerSends, PeerFinishes, PeerResets, vars, kernelVars
<1> QED
  BY <1>5, <1>6, <1>7, <1>8, <1>9, <1>10, ActorFacts DEF Next, ThreadRuns, AcceptorRuns


-----------------------------------------------------------------------------
(* Only the receiving thread changes b, and not while it hands over. *)
LEMMA GivenKept ==
  ASSUME SInv, [Next]_vars, \A t \in Threads : ~GiveCtl(t)
  PROVE Given \subseteq Given'
<1> SUFFICES ASSUME NEW t \in Threads, pc[t] \in {"give_status", "give_ctl"}
             PROVE pc'[t] \in {"give_status", "give_ctl"} /\ b' = b
  BY DEF Given, Giving
<1>1. TInv
  BY DEF SInv
<1>2. recv_thread = t
  BY <1>1, ReaderFacts DEF InRecv, RecvLabels
<1>3. ASSUME NEW x \in Actors \ {t}, ActorStep(x)
      PROVE pc'[t] = pc[t] /\ b' = b
  <2>1. pc'[t] = pc[t]
    BY <1>1, <1>3, ReaderFacts, OthersStay, ActorFacts
  <2>2. x \in Threads => ~RecvEpollStep(x)
    BY <1>1, <1>2, <1>3, ReaderFacts
       DEF InRecv, RecvLabels, RecvEpollStep, RecvEpoll, Scan, Poll, EpollWait, Events, Give,
           GiveFd, GiveStatus, GiveCtl, Acknowledge, Drop, Leave, GiveUp
  <2>3. b' = b
    BY <1>3, <2>2, OthersKeepB, MsgRecvKeepsB, AcceptKeepsB DEF ActorStep, UserStep
  <2> QED
    BY <2>1, <2>3
<1>4. CASE ActorStep(t)
  <2>1. GiveStatus(t)
    BY <1>4, ActorFacts
       DEF ActorStep, ServerStep, PoolStep, ThreadStep, GetThreadScan, GetThreadOwn,
           GetThreadTake, GetThreadMark, AddThreadStart, AddThreadStore, ResizeEnd, ResizeLook,
           ResizeMark, ResizeJoin, ResizeClear, ResizeFd, CloseSocket, CloseSweep, CloseReset,
           ClearPending, MsgRecvStep, MsgRecv, Park, ParkStatus, ParkRole, Wait, WaitRole,
           WaitStatus, WaitMx, Woken, Prefix, ReadLoop, Recv, Refuse, Push, PushPending, EpollOn,
           EpollOnCtl, Announce, Announced, Done, UserStep, UserReturns, WriteFails,
           RecvEpollStep, RecvEpoll, Scan, Poll, EpollWait, Events, Give, GiveFd, Acknowledge,
           Drop, Leave, GiveUp
  <2> QED
    BY <1>1, <2>1, ReaderFacts, ActorFacts DEF GiveStatus, Goto, socketVars, Standing
<1>5. CASE ClientStep \/ UNCHANGED vars
  BY <1>5 DEF ClientStep, vars, threadVars, socketVars
<1> QED
  BY <1>3, <1>4, <1>5, NextIsActorStep, ActorFacts

LEMMA NoneGiven ==
  ASSUME TInv, NEW t \in Threads, InRecv(t), pc[t] \notin {"give_status", "give_ctl"}
  PROVE Given = {}
BY ReaderFacts DEF Given, Giving, InRecv, RecvLabels

LEMMA ReceiverEvents ==
  ASSUME NEW t \in Threads, RecvEpollStep(t), events' # events
  PROVE EpollWait(t) \/ Events(t) \/ GiveCtl(t) \/ Drop(t)
BY DEF RecvEpollStep, RecvEpoll, Scan, Poll, Give, GiveFd, GiveStatus, Acknowledge, Leave,
       GiveUp, socketVars, epollLocals

(* The events in hand change in the receiving thread alone, on its way to  *)
(* the next event or out of recv_epoll.                                    *)
LEMMA EventsKept ==
  ASSUME [Next]_vars, events' # events
  PROVE \E u \in Threads : EpollWait(u) \/ Events(u) \/ GiveCtl(u) \/ Drop(u)
<1>1. ASSUME NEW x \in Actors, ServerStep(x)
      PROVE FALSE
  BY <1>1
     DEF ServerStep, PoolStep, CloseSocket, CloseSweep, CloseReset, ClearPending, socketVars,
         epollLocals
<1>2. ASSUME NEW t \in Threads, MsgRecvStep(t)
      PROVE FALSE
  BY <1>2
     DEF MsgRecvStep, MsgRecv, Pop, Park, ParkStatus, ParkRole, Wait, WaitRole, WaitStatus,
         WaitMx, Woken, Prefix, ReadLoop, Recv, Refuse, Push, PushPending, EpollOn, EpollOnCtl,
         Announce, Announced, Done, socketVars, epollLocals
<1>3. ASSUME NEW t \in Threads, RecvEpollStep(t)
      PROVE EpollWait(t) \/ Events(t) \/ GiveCtl(t) \/ Drop(t)
  BY <1>3, ReceiverEvents
<1>4. ASSUME NEW t \in Threads, UserStep(t)
      PROVE FALSE
  BY <1>4 DEF UserStep, UserReturns, WriteFails, socketVars, epollLocals
<1>5. ASSUME AcceptStep \/ Accept \/ AcceptFails
      PROVE FALSE
  BY <1>5
     DEF AcceptStep, TurnDown, AnswerFails, Upgrade, SetEvent, Register, StartThread, Accept,
         AcceptFails, socketVars, epollLocals
<1>6. ASSUME ClientStep \/ UNCHANGED vars
      PROVE FALSE
  BY <1>6 DEF ClientStep, vars, socketVars
<1> QED
  BY <1>1, <1>2, <1>3, <1>4, <1>5, <1>6, ActorFacts DEF Next, ThreadRuns, AcceptorRuns

(* recv_epoll hands over what its loop over the events takes. *)
LEMMA EntersHandOver ==
  ASSUME TInv, NEW t \in Threads, ActorStep(t), ~HandingOver(t), HandingOver(t)'
  PROVE Events(t)
<1> USE ReaderFacts, ActorFacts
       DEF HandingOver, SubLabels, Standing, Goto, Call, Return, Set, poolShape, socketVars
<1>1. ~ServerStep(t)
  <2>1. \A y \in Actors : ret[y] \in Callers \union {"none"}
    BY DEF ControlTypeOK
  <2>2. ~(\/ GetThreadScan(t) \/ GetThreadOwn(t) \/ GetThreadTake(t) \/ GetThreadMark(t)
          \/ AddThreadStart(t) \/ AddThreadStore(t))
    BY <2>1 DEF GetThreadScan, GetThreadOwn, GetThreadTake, GetThreadMark, AddThreadStart,
                AddThreadStore, Callers
  <2>3. ~ResizeStep(t)
    BY <2>1 DEF ResizeStep, ResizeEnd, ResizeLook, ResizeMark, ResizeJoin, ResizeClear, ResizeFd,
                Callers
  <2>4. ~(CloseSocket(t) \/ CloseSweep(t) \/ CloseReset(t) \/ ClearPending(t))
    BY <2>1 DEF CloseSocket, CloseSweep, CloseReset, NextSwept, ClearPending, Callers
  <2> QED
    BY <2>2, <2>3, <2>4 DEF ServerStep, PoolStep, ThreadStep, ResizeStep
<1>2. ~MsgRecvStep(t)
  BY DEF MsgRecvStep, MsgRecv, Park, ParkStatus, ParkRole, Wait, WaitRole, WaitStatus, WaitMx,
         Woken, Prefix, ReadLoop, Recv, Refuse, CallClose, Push, PushPending, EpollOn,
         EpollOnCtl, Announce, Announced, Done
<1>3. ~UserStep(t)
  BY DEF UserStep, UserReturns, WriteFails, CallClose
<1>4. CASE RecvEpollStep(t)
  BY <1>4
     DEF RecvEpollStep, RecvEpoll, Scan, Poll, EpollWait, Give, GiveFd, GiveStatus, GiveCtl,
         Acknowledge, Drop, Leave, GiveUp
<1> QED
  BY <1>1, <1>2, <1>3, <1>4 DEF ActorStep

(* What is handed over is an event of EPOLLIN alone. *)
LEMMA NextGivesInput ==
  ASSUME SInv, SInv', GivesInput, [Next]_vars
  PROVE GivesInput'
<1>0. TInv
  BY DEF SInv
<1> SUFFICES ASSUME NEW t \in Threads, HandingOver(t)'
             PROVE ~Head(events').hup
  BY DEF GivesInput
<1>1. InRecv(t)'
  BY DEF HandingOver, InRecv, RecvLabels
<1>2. CASE HandingOver(t)
  <2>1. InRecv(t) /\ recv_thread = t
    BY <1>0, <1>2, ReaderFacts DEF HandingOver, InRecv, RecvLabels
  <2>2. events' = events
    <3> SUFFICES ASSUME NEW u \in Threads, EpollWait(u) \/ Events(u) \/ GiveCtl(u) \/ Drop(u)
                 PROVE FALSE
      BY EventsKept
    <3>1. u = t
      BY <2>1, <1>0, ReaderFacts DEF InRecv, RecvLabels, EpollWait, Events, GiveCtl, Drop
    <3>2. pc[t] \in {"epoll_wait", "events", "give_ctl", "drop"} /\ ret[t] = "none"
      BY <3>1, <1>0, ReaderFacts, ActorFacts DEF SubLabels, EpollWait, Events, GiveCtl, Drop
    <3>3. GiveCtl(t)
      BY <1>2, <3>1, <3>2 DEF HandingOver, EpollWait, Events, Drop
    <3>4. pc'[t] \in {"events", "acknowledge"} /\ ret'[t] = "none"
      BY <3>2, <3>3, <1>0, ReaderFacts, ActorFacts DEF GiveCtl, Goto, Standing
    <3> QED
      BY <3>4 DEF HandingOver
  <2> QED
    BY <1>2, <2>2 DEF GivesInput
<1>3. CASE ~HandingOver(t)
  <2>1. ASSUME NEW x \in Actors \ {t}, ActorStep(x)
        PROVE FALSE
    <3>1. CASE pc[t] \notin {"off", "returned"}
      BY <1>3, <2>1, <3>1, <1>0, ReaderFacts, OthersStay, ActorFacts DEF HandingOver
    <3>2. CASE pc[t] \in {"off", "returned"}
      <4>1. pc'[t] \in {"off", "returned", "msg_recv"}
        BY <3>2, IdleSlots
      <4>2. ret'[t] = "none"
        BY <4>1, ActorFacts DEF SInv, TInv, Control, CallsReturn, SubLabels
      <4> QED
        BY <4>1, <4>2 DEF HandingOver
    <3> QED
      BY <3>1, <3>2
  <2>2. CASE ActorStep(t)
    <3>1. Events(t)
      BY <1>0, <1>3, <2>2, EntersHandOver, ActorFacts
    <3>2. events # <<>> /\ ~Head(events).hup /\ events' = events
      BY <1>3, <3>1, <1>0, ReaderFacts, ActorFacts
         DEF Events, HandingOver, Call, Goto, Standing, SubLabels
    <3> QED
      BY <3>2
  <2>3. CASE ClientStep \/ UNCHANGED vars
    BY <1>3, <2>3 DEF ClientStep, vars, threadVars, HandingOver
  <2> QED
    BY <2>1, <2>2, <2>3, NextIsActorStep, ActorFacts
<1> QED
  BY <1>2, <1>3

-----------------------------------------------------------------------------
(* No step names a socket that nothing named before, but Accept. *)
LEMMA CloseFdSole ==
  ASSUME KernelTypeOK, NEW s, RegisteredOnly(s), NEW u, CloseFd(u)
  PROVE RegisteredOnly(s)'
BY DEF RegisteredOnly, KernelTypeOK, CloseFd

LEMMA ModSole ==
  ASSUME KernelTypeOK, NEW s, RegisteredOnly(s), NEW u \in {s, None}, NEW mask, EpollMod(u, mask, s)
  PROVE RegisteredOnly(s)'
BY KernelAssumption DEF RegisteredOnly, KernelTypeOK, EpollMod, None

LEMMA ServerSole ==
  ASSUME Typed, NEW s, Sole(s), NEW x \in Actors, ServerStep(x)
  PROVE Sole(s)'
<1> USE DEF Sole, NamesOnly, EventsOf, RegisteredOnly
<1>1. CASE PoolStep(x)
  <2>1. UNCHANGED <<socketVars, kernelVars>>
    BY <1>1 DEF PoolStep
  <2>2. socketfd' \in [Threads -> {s, None}]
    BY <1>1
       DEF PoolStep, ThreadStep, GetThreadScan, GetThreadOwn, GetThreadTake, GetThreadMark,
           AddThreadStart, AddThreadStore, ResizeEnd, ResizeLook, ResizeMark, ResizeJoin,
           ResizeClear, ResizeFd
  <2> QED
    BY <2>1, <2>2 DEF socketVars, kernelVars
<1>2. CASE CloseSocket(x)
  <2>1. RegisteredOnly(s)'
    BY <1>2, CloseFdSole DEF CloseSocket, kernelVars, Typed, DataTypeOK
  <2> QED
    BY <1>2, <2>1 DEF CloseSocket, epollLocals
<1>3. CASE CloseSweep(x) \/ CloseReset(x)
  BY <1>3 DEF CloseSweep, CloseReset, Set, socketVars, kernelVars
<1>4. CASE ClearPending(x)
  <2>1. pending' \in Seq({s, None})
    BY <1>4, RemoveTypes DEF ClearPending, Lowest
  <2>2. arg' \in [Actors -> {s, None}]
    BY <1>4 DEF ClearPending, Set
  <2> QED
    BY <1>4, <2>1, <2>2 DEF ClearPending, epollLocals, kernelVars
<1> QED
  BY <1>1, <1>2, <1>3, <1>4 DEF ServerStep

LEMMA WorkerSole ==
  ASSUME Typed, EventSet, NEW s, Sole(s), NEW t \in Threads, MsgRecvStep(t) \/ UserStep(t)
  PROVE Sole(s)'
<1>0. events' = events
  BY DEF MsgRecvStep, MsgRecv, Park, ParkStatus, ParkRole, Wait, WaitRole, WaitStatus, WaitMx,
         Woken, Prefix, ReadLoop, Recv, Refuse, Push, PushPending, EpollOn, EpollOnCtl,
         Announce, Announced, Done, UserStep, UserReturns, WriteFails, socketVars, epollLocals
<1>1. RegisteredOnly(s)'
  <2>1. CASE UNCHANGED <<interest, tag>>
    BY <2>1 DEF Sole, RegisteredOnly
  <2>2. CASE EpollOnCtl(t)
    <3>1. socketfd[t] \in {s, None} /\ ev = s
      BY <2>2 DEF Sole, NamesOnly, EventSet, EpollOnCtl
    <3> QED
      BY <2>2, <3>1, ModSole DEF EpollOnCtl, Sole, Typed, DataTypeOK
  <2> QED
    BY <2>1, <2>2
       DEF MsgRecvStep, MsgRecv, Park, ParkStatus, ParkRole, Wait, WaitRole, WaitStatus, WaitMx,
           Woken, Prefix, ReadLoop, Recv, Refuse, Push, PushPending, EpollOn, Announce,
           Announced, Done, UserStep, UserReturns, WriteFails, kernelVars
<1>2. pending # <<>> => Head(pending) \in {s, None} /\ Tail(pending) \in Seq({s, None})
  BY PopTypes DEF Sole, NamesOnly
<1>3. t \in Actors /\ Append(pending, arg[t]) \in Seq({s, None})
  BY ActorFacts DEF Sole, NamesOnly
<1>4. NamesOnly(s)'
  <2> USE DEF Sole, NamesOnly, Set, socketVars
  <2>1. socketfd' \in [Threads -> {s, None}]
    BY <1>2
       DEF MsgRecvStep, MsgRecv, Park, ParkStatus, ParkRole, Wait, WaitRole, WaitStatus, WaitMx,
           Woken, Prefix, Pop, ReadLoop, Recv, Refuse, Push, PushPending, EpollOn, EpollOnCtl,
           Announce, Announced, Done, UserStep, UserReturns, WriteFails
  <2>2. arg' \in [Actors -> {s, None}]
    BY <1>3
       DEF MsgRecvStep, MsgRecv, Park, ParkStatus, ParkRole, Wait, WaitRole, WaitStatus, WaitMx,
           Woken, Prefix, Pop, ReadLoop, Recv, Refuse, CallClose, Push, PushPending, EpollOn,
           EpollOnCtl, Announce, Announced, Done, UserStep, UserReturns, WriteFails
  <2>3. pending' \in Seq({s, None})
    BY <1>2, <1>3
       DEF MsgRecvStep, MsgRecv, Park, ParkStatus, ParkRole, Wait, WaitRole, WaitStatus, WaitMx,
           Woken, Prefix, Pop, ReadLoop, Recv, Refuse, Push, PushPending, EpollOn, EpollOnCtl,
           Announce, Announced, Done, UserStep, UserReturns, WriteFails
  <2>4. ev' \in {s, None}
    BY DEF MsgRecvStep, MsgRecv, Park, ParkStatus, ParkRole, Wait, WaitRole, WaitStatus, WaitMx,
           Woken, Prefix, Pop, ReadLoop, Recv, Refuse, Push, PushPending, EpollOn, EpollOnCtl,
           Announce, Announced, Done, UserStep, UserReturns, WriteFails
  <2> QED
    BY <2>1, <2>2, <2>3, <2>4
<1> QED
  BY <1>0, <1>1, <1>4 DEF Sole, EventsOf

(* epoll_wait returns one event, of the one socket. *)
LEMMA OneEvent ==
  ASSUME KernelTypeOK, NEW s, RegisteredOnly(s), NEW e \in EventLists
  PROVE /\ Len(e) = 1 /\ Head(e).fd = s /\ Tail(e) = <<>>
        /\ s \in Sockets /\ (~Head(e).hup => interest[s] = "in")
<1>1. \A r \in Ready : r = s /\ r \in Sockets /\ Event(r).fd = s /\ (~Event(r).hup => interest[r] = "in")
  BY DEF Ready, Event, RegisteredOnly
<1>2. PICK n \in {MAX_EVENTS} \union {k \in 1..MAX_EVENTS : k = Cardinality(Ready)} :
        \E order \in Injection(1..n, Ready) : e = [i \in 1..n |-> Event(order[i])]
  BY DEF EventLists
<1>3. PICK order \in Injection(1..n, Ready) : e = [i \in 1..n |-> Event(order[i])]
  BY <1>2
<1>4. n \in Nat /\ n > 0
  BY <1>2, KernelAssumption
<1>5. /\ \A i \in 1..n : order[i] = s
      /\ \A i, j \in 1..n : order[i] = order[j] => i = j
  BY <1>1, <1>3 DEF Injection, IsInjective
<1>6. n = 1
  <2>1. ~(n > 1)
    <3> SUFFICES ASSUME n > 1
                 PROVE FALSE
      OBVIOUS
    <3>1. 1 \in 1..n /\ 2 \in 1..n
      BY <1>4
    <3> QED
      BY <1>5, <3>1
  <2> QED
    BY <1>4, <2>1
<1>7. order[1] \in Ready
  BY <1>3, <1>6 DEF Injection
<1>8. e = <<Event(order[1])>>
  BY <1>3, <1>6
<1> QED
  BY <1>1, <1>5, <1>6, <1>7, <1>8

LEMMA ReceiverSole ==
  ASSUME Typed, NEW s, Sole(s), NEW t \in Threads, RecvEpollStep(t)
  PROVE Sole(s)'
<1>0. UNCHANGED <<pending, ev>>
  BY DEF RecvEpollStep, RecvEpoll, Scan, Poll, EpollWait, Events, Give, GiveFd, GiveStatus,
         GiveCtl, Acknowledge, Drop, Leave, GiveUp, socketVars
<1>1. RegisteredOnly(s)'
  <2>1. CASE UNCHANGED <<interest, tag>>
    BY <2>1 DEF Sole, RegisteredOnly
  <2>2. CASE GiveCtl(t)
    <3>1. Head(events).fd = s
      BY <2>2 DEF Sole, EventsOf, GiveCtl, Typed, Work, EventAtHand, HandingOver
    <3> QED
      BY <2>2, <3>1, ModSole DEF GiveCtl, Sole, Typed, DataTypeOK
  <2> QED
    BY <2>1, <2>2
       DEF RecvEpollStep, RecvEpoll, Scan, Poll, EpollWait, Events, Give, GiveFd, GiveStatus,
           Acknowledge, Drop, Leave, GiveUp, kernelVars
<1>2. EventsOf(s)'
  <2>1. CASE EpollWait(t)
    BY <2>1, OneEvent DEF EpollWait, EventsOf, Sole, Typed, DataTypeOK
  <2>2. CASE ~EpollWait(t)
    <3>1. GiveCtl(t) => events # <<>>
      BY DEF GiveCtl, Typed, Work, EventAtHand, HandingOver
    <3>2. events' = events \/ (events # <<>> /\ events' = Tail(events))
      <4>1. CASE Events(t)
        BY <4>1 DEF Events
      <4>2. CASE GiveCtl(t)
        BY <3>1, <4>2 DEF GiveCtl
      <4>3. CASE Drop(t)
        BY <4>3 DEF Drop
      <4> QED
        BY <2>2, <4>1, <4>2, <4>3, ReceiverEvents
    <3> QED
      BY <3>2 DEF Sole, EventsOf
  <2> QED
    BY <2>1, <2>2
<1>3. socketfd' \in [Threads -> {s, None}]
  <2>1. GiveFd(t) => Head(events).fd = s
    BY DEF Sole, EventsOf, GiveFd, Typed, Work, EventAtHand, HandingOver
  <2> QED
    BY <2>1
       DEF RecvEpollStep, RecvEpoll, Scan, Poll, EpollWait, Events, Give, GiveFd, GiveStatus,
           GiveCtl, Acknowledge, Drop, Leave, GiveUp, Sole, NamesOnly, Set
<1>4. arg' \in [Actors -> {s, None}]
  BY ActorFacts
     DEF RecvEpollStep, RecvEpoll, Scan, Poll, EpollWait, Events, Give, GiveFd, GiveStatus,
         GiveCtl, Acknowledge, Drop, Leave, GiveUp, Sole, NamesOnly, EventsOf, Set, socketVars
<1> QED
  BY <1>0, <1>1, <1>2, <1>3, <1>4 DEF Sole, NamesOnly

LEMMA AcceptorSole ==
  ASSUME Typed, EventSet, NEW s, Sole(s), AcceptStep
  PROVE Sole(s)'
<1> USE ActorFacts DEF Sole, NamesOnly, EventsOf
<1>1. CASE TurnDown
  <2>1. RegisteredOnly(s)'
    BY <1>1, CloseFdSole DEF TurnDown, Typed, DataTypeOK
  <2> QED
    BY <1>1, <2>1 DEF TurnDown, Set, epollLocals
<1>2. CASE AnswerFails \/ StartThread
  BY <1>2 DEF AnswerFails, StartThread, socketVars, kernelVars, RegisteredOnly
<1>3. CASE Upgrade
  BY <1>3 DEF Upgrade, socketVars, RegisteredOnly
<1>4. CASE SetEvent
  BY <1>4 DEF SetEvent, epollLocals, kernelVars, RegisteredOnly
<1>5. CASE Register
  <2>1. RegisteredOnly(s)'
    BY <1>5, KernelAssumption
       DEF Register, Set, EventSet, RegisteredOnly, Typed, DataTypeOK, KernelTypeOK, None
  <2> QED
    BY <1>5, <2>1 DEF Register, Set, epollLocals
<1> QED
  BY <1>1, <1>2, <1>3, <1>4, <1>5 DEF AcceptStep

LEMMA NextSole ==
  ASSUME TInv, EventSet, NEW s, Sole(s), [Next]_vars, ~Accept
  PROVE Sole(s)'
<1>1. Typed
  BY TInvTyped
<1>2. CASE AcceptFails
  BY <1>2
     DEF AcceptFails, socketVars, kernelVars, Sole, NamesOnly, EventsOf, RegisteredOnly
<1>3. CASE ClientStep \/ UNCHANGED vars
  BY <1>3
     DEF ClientStep, PeerStep, PeerSends, PeerFinishes, PeerResets, vars, threadVars,
         socketVars, kernelVars, Sole, NamesOnly, EventsOf, RegisteredOnly
<1> QED
  BY <1>1, <1>2, <1>3, ServerSole, WorkerSole, ReceiverSole, AcceptorSole, NextIsActorStep
     DEF ActorStep

-----------------------------------------------------------------------------
(* Until the first socket is registered the accepting thread is alone.     *)
LEMMA AcceptorAlone ==
  ASSUME TInv, NoThread,
         pc[Acceptor] \in {"accept", "ended", "handshake", "set_event", "register"}, [Next]_vars
  PROVE AcceptStep \/ Accept \/ AcceptFails \/ ClientStep \/ UNCHANGED vars
<1>1. ASSUME NEW t \in Threads, ThreadRuns(t) \/ UserStep(t)
      PROVE FALSE
  BY <1>1
     DEF NoThread, ThreadRuns, UserStep, UserReturns, WriteFails, ServerStep, PoolStep,
         ThreadStep, GetThreadScan, GetThreadOwn, GetThreadTake, GetThreadMark, AddThreadStart,
         AddThreadStore, ResizeEnd, ResizeLook, ResizeMark, ResizeJoin, ResizeClear, ResizeFd,
         CloseSocket, CloseSweep, CloseReset, ClearPending, MsgRecvStep, MsgRecv, Park,
         ParkStatus, ParkRole, Wait, WaitRole, WaitStatus, WaitMx, Woken, Prefix, ReadLoop, Recv,
         Refuse, Push, PushPending, EpollOn, EpollOnCtl, Announce, Announced, Done, RecvEpollStep,
         RecvEpoll, Scan, Poll, EpollWait, Events, Give, GiveFd, GiveStatus, GiveCtl, Acknowledge,
         Drop, Leave, GiveUp
<1>2. ~ServerStep(Acceptor)
  BY DEF ServerStep, PoolStep, ThreadStep, GetThreadScan, GetThreadOwn, GetThreadTake,
         GetThreadMark, AddThreadStart, AddThreadStore, ResizeEnd, ResizeLook, ResizeMark,
         ResizeJoin, ResizeClear, ResizeFd, CloseSocket, CloseSweep, CloseReset, ClearPending
<1> QED
  BY <1>1, <1>2 DEF Next, AcceptorRuns

LEMMA AloneStays ==
  ASSUME TInv, NoThread, AcceptStep \/ Accept \/ AcceptFails \/ ClientStep \/ UNCHANGED vars
  PROVE NoThread'
BY ReaderFacts, ActorFacts
   DEF NoThread, Standing, AcceptStep, TurnDown, AnswerFails, Upgrade, SetEvent, Register,
       StartThread, Accept, AcceptFails, ClientStep, vars, threadVars, Goto, Call

(* Only epoll_on comes to its EPOLL_CTL_MOD. *)
LEMMA EntersEpollOnCtl ==
  ASSUME SInv, [Next]_vars, NEW t \in Threads, pc[t] # "epoll_on_ctl", pc'[t] = "epoll_on_ctl"
  PROVE EpollOn(t)
<1> USE ActorFacts
<1>0. TInv
  BY DEF SInv
<1>1. ASSUME NEW x \in Actors \ {t}, ActorStep(x)
      PROVE FALSE
  BY <1>0, <1>1, ReaderFacts, OthersStay, IdleSlots
<1>2. CASE ServerStep(t)
  <2>1. ret[t] \in Callers \union {"none"}
    BY <1>0 DEF TInv, ControlTypeOK
  <2>2. ~PoolStep(t)
    BY <1>0, <2>1, ReaderFacts
       DEF PoolStep, ThreadStep, GetThreadScan, GetThreadOwn, GetThreadTake, GetThreadMark,
           AddThreadStart, AddThreadStore, ResizeEnd, ResizeLook, ResizeMark, ResizeJoin,
           ResizeClear, ResizeFd, Goto, Call, Return, Standing, Callers
  <2>3. ~(CloseSocket(t) \/ CloseSweep(t) \/ CloseReset(t) \/ ClearPending(t))
    BY <1>0, <2>1, ReaderFacts
       DEF CloseSocket, CloseSweep, CloseReset, NextSwept, ClearPending, Goto, Return, Standing,
           Callers
  <2> QED
    BY <1>2, <2>2, <2>3 DEF ServerStep
<1>3. CASE MsgRecvStep(t) \/ UserStep(t)
  BY <1>0, <1>3, ReaderFacts
     DEF MsgRecvStep, MsgRecv, Park, ParkStatus, ParkRole, Wait, WaitRole, WaitStatus, WaitMx,
         Woken, Prefix, ReadLoop, Recv, Refuse, CallClose, Push, PushPending, EpollOnCtl,
         Announce, Announced, Done, UserStep, UserReturns, WriteFails, Goto, Call, Standing
<1>4. CASE RecvEpollStep(t)
  BY <1>0, <1>4, ReaderFacts
     DEF RecvEpollStep, RecvEpoll, Scan, Poll, EpollWait, Events, Give, GiveFd, GiveStatus,
         GiveCtl, Acknowledge, Drop, Leave, GiveUp, Goto, Call, Standing
<1>5. CASE ClientStep \/ UNCHANGED vars
  BY <1>5 DEF ClientStep, vars, threadVars
<1> QED
  BY <1>1, <1>2, <1>3, <1>4, <1>5, NextIsActorStep DEF ActorStep

(* The accepting thread leaves accept by accepting. *)
LEMMA AcceptorPlaces ==
  ASSUME SInv, [Next]_vars
  PROVE /\ pc'[Acceptor] = "handshake" => Accept \/ (pc[Acceptor] = "handshake" /\ ~AcceptStep)
        /\ pc'[Acceptor] = "set_event" => Upgrade \/ (pc[Acceptor] = "set_event" /\ ~AcceptStep)
        /\ pc'[Acceptor] = "register" => SetEvent \/ (pc[Acceptor] = "register" /\ ~AcceptStep)
<1> USE ActorFacts
<1>0. TInv
  BY DEF SInv
<1>1. CASE AcceptorRuns \/ Accept \/ AcceptFails
  <2>1. \A y \in Actors : ret[y] \in Callers \union {"none"}
    BY <1>0 DEF TInv, ControlTypeOK
  <2>2. ASSUME ServerStep(Acceptor)
        PROVE pc'[Acceptor] \in SubLabels \union {ret[Acceptor]}
    BY <1>0, <2>2, ReaderFacts
       DEF SubLabels, Goto, Call, Return, Standing, ServerStep, PoolStep, ThreadStep,
           GetThreadScan, GetThreadOwn, GetThreadTake, GetThreadMark, AddThreadStart,
           AddThreadStore, ResizeEnd, ResizeLook, ResizeMark, ResizeJoin, ResizeClear, ResizeFd,
           CloseSocket, CloseSweep, CloseReset, NextSwept, ClearPending
  <2>3. CASE ServerStep(Acceptor)
    BY <2>1, <2>2, <2>3 DEF SubLabels, Callers
  <2>4. CASE AcceptStep \/ Accept \/ AcceptFails
    BY <1>0, <2>4, ReaderFacts
       DEF AcceptStep, TurnDown, AnswerFails, Upgrade, SetEvent, Register, StartThread, Accept,
           AcceptFails, Goto, Call, Standing
  <2> QED
    BY <1>1, <2>3, <2>4 DEF AcceptorRuns
<1>2. CASE ~AcceptorRuns /\ ~Accept /\ ~AcceptFails
  <2>1. pc'[Acceptor] = pc[Acceptor]
    BY <1>2, AcceptorStays
  <2> QED
    BY <1>2, <2>1 DEF AcceptorRuns
<1> QED
  BY <1>1, <1>2

LEMMA OtherAccepts ==
  ASSUME [Next]_vars, ~Accept
  PROVE accepts' = accepts
<1>1. ASSUME NEW x \in Actors, ServerStep(x)
      PROVE accepts' = accepts
  BY <1>1 DEF ServerStep, PoolStep, CloseSocket, CloseSweep, CloseReset, ClearPending, CloseFd,
              kernelVars
<1>2. ASSUME NEW t \in Threads, MsgRecvStep(t)
      PROVE accepts' = accepts
  BY <1>2
     DEF EpollMod, kernelVars, MsgRecvStep, MsgRecv, Park, ParkStatus, ParkRole, Wait, WaitRole,
         WaitStatus, WaitMx, Woken, Prefix, ReadLoop, Recv, Refuse, Push, PushPending, EpollOn,
         EpollOnCtl, Announce, Announced, Done
<1>3. ASSUME NEW t \in Threads, RecvEpollStep(t)
      PROVE accepts' = accepts
  BY <1>3
     DEF EpollMod, kernelVars, RecvEpollStep, RecvEpoll, Scan, Poll, EpollWait, Events, Give,
         GiveFd, GiveStatus, GiveCtl, Acknowledge, Drop, Leave, GiveUp
<1>4. ASSUME NEW t \in Threads, UserStep(t)
      PROVE accepts' = accepts
  BY <1>4 DEF UserStep, UserReturns, WriteFails, kernelVars
<1>5. ASSUME AcceptStep \/ AcceptFails
      PROVE accepts' = accepts
  BY <1>5
     DEF AcceptStep, AcceptFails, TurnDown, AnswerFails, Upgrade, SetEvent, Register, StartThread,
         CloseFd, kernelVars
<1>6. ASSUME ClientStep \/ UNCHANGED vars
      PROVE accepts' = accepts
  BY <1>6 DEF ClientStep, PeerStep, PeerSends, PeerFinishes, PeerResets, vars, kernelVars
<1> QED
  BY <1>1, <1>2, <1>3, <1>4, <1>5, <1>6, ActorFacts DEF Next, ThreadRuns, AcceptorRuns

(* Only epoll_on and start_accept set ev. *)
LEMMA EvKept ==
  ASSUME [Next]_vars, ~SetEvent
  PROVE ev' = ev \/ \E t \in Threads : EpollOn(t) /\ ev' = socketfd[t] /\ socketfd[t] # None
<1>1. ASSUME NEW x \in Actors, ServerStep(x)
      PROVE ev' = ev
  BY <1>1 DEF ServerStep, PoolStep, CloseSocket, CloseSweep, CloseReset, ClearPending, socketVars
<1>2. ASSUME NEW t \in Threads, MsgRecvStep(t)
      PROVE ev' = ev \/ (EpollOn(t) /\ ev' = socketfd[t] /\ socketfd[t] # None)
  BY <1>2
     DEF socketVars, MsgRecvStep, MsgRecv, Park, ParkStatus, ParkRole, Wait, WaitRole,
         WaitStatus, WaitMx, Woken, Prefix, ReadLoop, Recv, Refuse, Push, PushPending, EpollOn,
         EpollOnCtl, Announce, Announced, Done
<1>3. ASSUME NEW t \in Threads, RecvEpollStep(t)
      PROVE ev' = ev
  BY <1>3
     DEF socketVars, RecvEpollStep, RecvEpoll, Scan, Poll, EpollWait, Events, Give, GiveFd,
         GiveStatus, GiveCtl, Acknowledge, Drop, Leave, GiveUp
<1>4. ASSUME NEW t \in Threads, UserStep(t)
      PROVE ev' = ev
  BY <1>4 DEF UserStep, UserReturns, WriteFails, socketVars
<1>5. ASSUME AcceptStep \/ Accept \/ AcceptFails
      PROVE ev' = ev
  BY <1>5
     DEF AcceptStep, TurnDown, AnswerFails, Upgrade, Register, StartThread, Accept, AcceptFails,
         socketVars
<1>6. ASSUME ClientStep \/ UNCHANGED vars
      PROVE ev' = ev
  BY <1>6 DEF ClientStep, vars, socketVars
<1> QED
  BY <1>1, <1>2, <1>3, <1>4, <1>5, <1>6, ActorFacts DEF Next, ThreadRuns, AcceptorRuns

LEMMA NextBeforeFirst ==
  ASSUME SInv, OneConnection, [Next]_vars
  PROVE BeforeFirst'
<1> SUFFICES ASSUME accepts' = 0
             PROVE /\ pc'[Acceptor] \in {"accept", "ended"} /\ NoThread'
                   /\ events' = <<>> /\ Sole(None)'
  BY DEF BeforeFirst
<1>0. TInv /\ accepts \in Nat
  BY KernelAssumption DEF SInv, TInv, DataTypeOK, KernelTypeOK
<1>1. ~Accept
  BY <1>0 DEF Accept, Accept4
<1>2. pc[Acceptor] \in {"accept", "ended"} /\ NoThread /\ events = <<>> /\ Sole(None)
  BY <1>1, OtherAccepts DEF OneConnection, BeforeFirst
<1>3. AcceptFails \/ ClientStep \/ UNCHANGED vars
  BY <1>0, <1>1, <1>2, AcceptorAlone
     DEF AcceptStep, TurnDown, AnswerFails, Upgrade, SetEvent, Register, StartThread
<1>4. Sole(None)'
  BY <1>0, <1>1, <1>2, NextSole DEF OneConnection
<1> QED
  BY <1>0, <1>2, <1>3, <1>4, ReaderFacts, ActorFacts
     DEF AcceptFails, ClientStep, vars, threadVars, socketVars, NoThread, Goto, Standing

(* Until it has registered the first socket only the accepting thread steps. *)
LEMMA FirstSteps ==
  ASSUME SInv, OneConnection, MaxAccepts <= 1, [Next]_vars,
         pc'[Acceptor] \in {"handshake", "set_event", "register"}
  PROVE NoThread /\ (AcceptStep \/ Accept \/ AcceptFails \/ ClientStep \/ UNCHANGED vars)
<1>0. TInv
  BY DEF SInv
<1>1. CASE Accept
  <2>1. accepts = 0
    BY <1>0, <1>1, KernelAssumption DEF Accept, Accept4, TInv, DataTypeOK, KernelTypeOK
  <2> QED
    BY <1>1, <2>1 DEF Accept, OneConnection, BeforeFirst
<1>2. CASE ~Accept
  <2>1. pc[Acceptor] \in {"handshake", "set_event", "register"}
    BY <1>2, AcceptorPlaces DEF Upgrade, SetEvent
  <2>2. NoThread
    BY <2>1 DEF OneConnection, FirstIsAlone
  <2> QED
    BY <1>0, <2>1, <2>2, AcceptorAlone
<1> QED
  BY <1>1, <1>2

LEMMA NextFirstIsAlone ==
  ASSUME SInv, OneConnection, MaxAccepts <= 1, [Next]_vars
  PROVE FirstIsAlone'
BY FirstSteps, AloneStays DEF FirstIsAlone, SInv

LEMMA NextEventSet ==
  ASSUME SInv, SInv', OneConnection, MaxAccepts <= 1, [Next]_vars
  PROVE EventSet'
<1> USE ActorFacts
<1>0. TInv /\ TInv'
  BY DEF SInv
<1>1. pc'[Acceptor] \in {"handshake", "set_event", "register"} =>
        NoThread /\ (AcceptStep \/ Accept \/ AcceptFails \/ ClientStep \/ UNCHANGED vars)
  BY FirstSteps
<1>2. pc'[Acceptor] \in {"handshake", "set_event"} => arg'[Acceptor] # None
  <2>1. CASE Accept
    BY <1>0, <2>1, KernelAssumption DEF Accept, Set, TInv, DataTypeOK, SocketTypeOK, None
  <2>2. CASE Upgrade
    BY <2>2 DEF Upgrade, OneConnection, EventSet, socketVars
  <2>3. CASE ClientStep \/ UNCHANGED vars
    BY <2>3 DEF ClientStep, vars, threadVars, socketVars, OneConnection, EventSet
  <2>4. CASE AcceptFails
    BY <1>0, <2>4, ReaderFacts DEF AcceptFails, Goto, Standing
  <2> QED
    BY <1>1, <2>1, <2>2, <2>3, <2>4, AcceptorPlaces
<1>3. pc'[Acceptor] = "register" => ev' = arg'[Acceptor]
  <2>1. CASE SetEvent
    BY <2>1 DEF SetEvent
  <2>2. CASE ClientStep \/ UNCHANGED vars
    BY <2>2 DEF ClientStep, vars, threadVars, socketVars, OneConnection, EventSet
  <2>3. CASE Accept \/ AcceptFails
    BY <1>0, <2>3, ReaderFacts DEF Accept, AcceptFails, Goto, Standing
  <2> QED
    BY <1>1, <2>1, <2>2, <2>3, AcceptorPlaces
<1>4. ASSUME NEW t \in Threads, pc'[t] = "epoll_on_ctl"
      PROVE ev' # None
  <2>1. CASE SetEvent
    <3>1. NoThread'
      BY <1>0, <2>1, AloneStays DEF SetEvent, OneConnection, FirstIsAlone, AcceptStep
    <3> QED
      BY <1>4, <3>1 DEF NoThread
  <2>2. CASE ~SetEvent /\ pc[t] = "epoll_on_ctl"
    BY <2>2, EvKept DEF OneConnection, EventSet
  <2>3. CASE ~SetEvent /\ pc[t] # "epoll_on_ctl"
    <3>1. EpollOn(t)
      BY <1>0, <1>4, <2>3, EntersEpollOnCtl
    <3> QED
      BY <1>0, <1>4, <3>1, ReaderFacts DEF EpollOn, Goto, Standing
  <2> QED
    BY <2>1, <2>2, <2>3
<1> QED
  BY <1>2, <1>3, <1>4 DEF EventSet

LEMMA NextOneConnection ==
  ASSUME SInv, SInv', OneConnection, MaxAccepts <= 1, [Next]_vars
  PROVE OneConnection'
<1>0. TInv
  BY DEF SInv
<1>1. \E s \in Descriptors : Sole(s)'
  <2>1. CASE Accept
    <3>1. accepts = 0
      BY <1>0, <2>1, KernelAssumption DEF Accept, Accept4, TInv, DataTypeOK, KernelTypeOK
    <3>2. events = <<>> /\ Sole(None)
      BY <3>1 DEF OneConnection, BeforeFirst
    <3>3. PICK s \in Sockets : Accept4(s) /\ arg' = Set(arg, Acceptor, s)
      BY <2>1 DEF Accept
    <3>4. UNCHANGED <<socketfd, pending, ev, events, interest, tag>>
      BY <2>1, <3>3 DEF Accept, Accept4, epollLocals
    <3>5. NamesOnly(s)'
      <4>1. pending \in Seq({s, None})
        BY <3>2 DEF Sole, NamesOnly
      <4> QED
        BY <3>2, <3>3, <3>4, <4>1, ActorFacts DEF Sole, NamesOnly, Set
    <3>6. EventsOf(s)'
      BY <3>2, <3>4 DEF EventsOf
    <3>7. RegisteredOnly(s)'
      BY <3>2, <3>4, KernelAssumption DEF Sole, RegisteredOnly, None
    <3> QED
      BY <3>5, <3>6, <3>7 DEF Sole, Descriptors
  <2>2. CASE ~Accept
    BY <1>0, <2>2, NextSole DEF OneConnection
  <2> QED
    BY <2>1, <2>2
<1> QED
  BY <1>1, NextBeforeFirst, NextFirstIsAlone, NextEventSet DEF OneConnection

-----------------------------------------------------------------------------
(* The right to read stays in one place. *)
Reading == OneHolder /\ ArmedUnheld /\ EventUnheld /\ GivesInput

(* recv_epoll hands over an event that nobody read from yet. *)
LEMMA HandOverReads ==
  ASSUME SInv, Reading, NEW t \in Threads, GiveFd(t)
  PROVE /\ Holders' \subseteq {b} /\ Given' = {a \in Threads : a = b}
        /\ UNCHANGED <<events, interest>>
<1> USE ActorFacts
<1>0. TInv
  BY DEF SInv
<1>1. events # <<>> /\ ~Head(events).hup
  BY <1>0 DEF GiveFd, HandingOver, Reading, GivesInput, TInv, Work, EventAtHand
<1>2. Holders = {}
  BY <1>0, <1>1, NoneGiven DEF Reading, EventUnheld, GiveFd, InRecv, RecvLabels
<1>3. pc' = [pc EXCEPT ![t] = "give_status"] /\ UNCHANGED <<ret, b, events, interest>>
  BY DEF GiveFd, Goto, socketVars, kernelVars
<1>4. \A u \in Threads \ {b} : socketfd'[u] = socketfd[u]
  BY <1>0, ReaderFacts DEF GiveFd, Set
<1>5. \A u \in Threads \ {b} : ~Holds(u)'
  BY <1>0, <1>2, <1>3, <1>4, ReaderFacts
     DEF GiveFd, Holders, Holds, InRecv, RecvLabels, ReaderLabels, Standing
<1>6. pc'[t] = "give_status"
  BY <1>0, <1>3, ReaderFacts DEF Standing
<1> QED
  BY <1>3, <1>5, <1>6 DEF Holders, Given, Giving

LEMMA HoldersShrink ==
  ASSUME SInv, SInv', [Next]_vars, \A t \in Threads : ~GiveFd(t)
  PROVE Holders' \subseteq Holders
BY HolderKept DEF Holders

LEMMA NextOneHolder ==
  ASSUME SInv, SInv', Reading, [Next]_vars
  PROVE OneHolder'
<1>1. CASE \E t \in Threads : GiveFd(t)
  BY <1>1, HandOverReads DEF OneHolder
<1>2. CASE \A t \in Threads : ~GiveFd(t)
  BY <1>2, HoldersShrink DEF OneHolder, Reading
<1> QED
  BY <1>1, <1>2

(* epoll_on arms the socket its thread has read. *)
LEMMA EpollOnReads ==
  ASSUME SInv, SInv', Reading, [Next]_vars, NEW t \in Threads, EpollOnCtl(t)
  PROVE UNCHANGED interest \/ Holders' = {}
<1> USE ActorFacts
<1>0. TInv
  BY DEF SInv
<1>1. CASE socketfd[t] = None
  BY <1>1, KernelAssumption DEF EpollOnCtl, EpollMod, None
<1>2. CASE socketfd[t] # None
  <2>1. t \in Holders
    BY <1>2 DEF EpollOnCtl, Holders, Holds, ReaderLabels
  <2>2. ~Holds(t)'
    <3>1. pc'[t] = "announce" /\ ret'[t] = "none"
      BY <1>0, ReaderFacts DEF EpollOnCtl, Goto, Standing, SubLabels
    <3> QED
      BY <3>1 DEF Holds, InRecv, RecvLabels, ReaderLabels
  <2>3. \A u \in Threads : ~GiveFd(u)
    BY <1>0, ReaderFacts DEF EpollOnCtl, GiveFd, Goto, Standing
  <2> QED
    BY <2>1, <2>2, <2>3, HoldersShrink DEF Reading, OneHolder, Holders
<1> QED
  BY <1>1, <1>2

LEMMA NextArmedUnheld ==
  ASSUME SInv, SInv', OneConnection, MaxAccepts <= 1, Reading, [Next]_vars
  PROVE ArmedUnheld'
<1> SUFFICES ASSUME NEW r \in Sockets, interest'[r] = "in"
             PROVE Holders' \subseteq Given'
  BY DEF ArmedUnheld
<1>0. TInv
  BY DEF SInv
<1>1. CASE \E t \in Threads : GiveFd(t)
  BY <1>1, HandOverReads DEF Holders
<1>2. CASE \E t \in Threads : GiveCtl(t)
  <2>1. PICK t \in Threads : GiveCtl(t)
    BY <1>2
  <2>2. PICK s \in Descriptors : Sole(s)
    BY DEF OneConnection
  <2>3. Head(events).fd = s
    BY <1>0, <2>1, <2>2 DEF GiveCtl, Sole, EventsOf, TInv, Work, EventAtHand, HandingOver
  <2>4. interest'[r] # "in"
    BY <1>0, <2>1, <2>2, <2>3
       DEF GiveCtl, EpollMod, Sole, RegisteredOnly, TInv, DataTypeOK, KernelTypeOK
  <2> QED
    BY <2>4
<1>3. CASE (\A t \in Threads : ~GiveFd(t) /\ ~GiveCtl(t)) /\ interest[r] = "in"
  BY <1>3, HoldersShrink, GivenKept DEF Reading, ArmedUnheld
<1>4. CASE (\A t \in Threads : ~GiveFd(t) /\ ~GiveCtl(t)) /\ interest[r] # "in"
  <2>1. CASE Register
    <3>1. NoThread
      BY <2>1 DEF Register, OneConnection, FirstIsAlone
    <3>2. Holders = {}
      BY <1>0, <3>1, ReaderFacts, ActorFacts
         DEF NoThread, Holders, Holds, InRecv, RecvLabels, ReaderLabels, SubLabels
    <3> QED
      BY <1>4, <3>2, HoldersShrink
  <2>2. CASE ~Register
    <3>1. PICK t \in Threads : EpollOnCtl(t)
      BY <1>0, <1>4, <2>2, ArmedKept
    <3> QED
      BY <1>4, <3>1, EpollOnReads
  <2> QED
    BY <2>1, <2>2
<1> QED
  BY <1>1, <1>2, <1>3, <1>4

LEMMA NextEventUnheld ==
  ASSUME SInv, SInv', OneConnection, MaxAccepts <= 1, Reading, [Next]_vars
  PROVE EventUnheld'
<1> SUFFICES ASSUME events' # <<>>, ~Head(events').hup
             PROVE Holders' \subseteq Given'
  BY DEF EventUnheld
<1>0. TInv
  BY DEF SInv
<1>1. PICK s \in Descriptors : Sole(s)
  BY DEF OneConnection
<1>2. CASE \E t \in Threads : GiveFd(t)
  BY <1>2, HandOverReads DEF Holders
<1>3. CASE \E t \in Threads : EpollWait(t)
  <2>1. PICK t \in Threads : EpollWait(t)
    BY <1>3
  <2>2. s \in Sockets /\ interest[s] = "in"
    BY <1>0, <1>1, <2>1, OneEvent DEF EpollWait, Sole, TInv, DataTypeOK
  <2>3. Holders = {}
    BY <1>0, <2>1, <2>2, NoneGiven DEF EpollWait, Reading, ArmedUnheld, InRecv, RecvLabels
  <2>4. \A u \in Threads : ~GiveFd(u)
    BY <1>0, <2>1, ReaderFacts DEF EpollWait, GiveFd, InRecv, RecvLabels
  <2> QED
    BY <2>3, <2>4, HoldersShrink
<1>4. CASE \A t \in Threads : ~GiveFd(t) /\ ~EpollWait(t)
  <2>1. ~(events # <<>> /\ events' = Tail(events))
    BY <1>1 DEF Sole, EventsOf
  <2>2. \A t \in Threads : ~GiveCtl(t)
    BY <1>0, <2>1 DEF GiveCtl, TInv, Work, EventAtHand, HandingOver
  <2>3. events' = events
    BY <1>4, <2>1, <2>2, EventsKept DEF Events, Drop
  <2> QED
    BY <1>4, <2>2, <2>3, HoldersShrink, GivenKept DEF Reading, EventUnheld
<1> QED
  BY <1>2, <1>3, <1>4

LEMMA NextReading ==
  ASSUME SInv, SInv', OneConnection, MaxAccepts <= 1, Reading, [Next]_vars
  PROVE Reading'
BY NextOneHolder, NextArmedUnheld, NextEventUnheld, NextGivesInput DEF Reading

LEMMA InitReading ==
  ASSUME Init
  PROVE OneConnection /\ Reading
<1> USE ActorFacts DEF Init, ThreadInit, SocketInit, KernelInit
<1>1. NoThread /\ Sole(None)
  BY DEF NoThread, Sole, NamesOnly, EventsOf, RegisteredOnly
<1>2. OneConnection
  BY <1>1 DEF OneConnection, BeforeFirst, FirstIsAlone, EventSet, Descriptors
<1>3. Reading
  BY DEF Reading, OneHolder, ArmedUnheld, EventUnheld, GivesInput, HandingOver, Holders, Holds,
         InRecv, RecvLabels, ReaderLabels
<1> QED
  BY <1>2, <1>3

LEMMA ReadingIsOne ==
  ASSUME SInv, OneConnection, Reading
  PROVE OneReader
<1> SUFFICES ASSUME NEW t \in Threads, pc[t] = "recv"
             PROVE /\ \A u \in Threads \ {t} : pc[u] = "recv" => arg[t] # arg[u]
                   /\ \/ interest[arg[t]] # "in"
                      \/ \E u \in Threads \ {t} :
                           pc[u] \in {"give_status", "give_ctl"} /\ Head(events).fd = arg[t]
  BY DEF OneReader
<1>1. TInv
  BY DEF SInv
<1>2. t \in Holders
  BY DEF Holders, Holds
<1>3. \A u \in Threads \ {t} : pc[u] # "recv"
  BY <1>2 DEF Reading, OneHolder, Holders, Holds
<1>4. arg[t] \in Sockets
  BY <1>1 DEF TInv, Work, ReadArg
<1>5. PICK s \in Descriptors : Sole(s)
  BY DEF OneConnection
<1>6. arg[t] = s
  BY <1>4, <1>5, ActorFacts, KernelAssumption DEF Sole, NamesOnly, None
<1>7. ASSUME interest[arg[t]] = "in"
      PROVE \E u \in Threads \ {t} :
              pc[u] \in {"give_status", "give_ctl"} /\ Head(events).fd = arg[t]
  <2>1. t \in Given
    BY <1>2, <1>4, <1>7 DEF Reading, ArmedUnheld
  <2>2. PICK u \in Threads : pc[u] \in {"give_status", "give_ctl"}
    BY <2>1 DEF Given, Giving
  <2>3. Head(events).fd = s
    BY <1>1, <1>5, <2>2 DEF Sole, EventsOf, TInv, Work, EventAtHand, HandingOver
  <2> QED
    BY <1>6, <2>2, <2>3
<1> QED
  BY <1>3, <1>7

(* While there is one connection, one thread at a time reads from it, and  *)
(* not while recv_epoll can be told of more input, the thread it is handed *)
(* to excepted.                                                            *)
THEOREM ReadsAlone == Spec => []OneReader
<1> DEFINE Inv == SInv /\ (MaxAccepts <= 1 => OneConnection /\ Reading)
<1>1. Init => Inv
  BY InitSlots, InitReading
<1>2. Inv /\ [Next]_vars => Inv'
  BY NextSlots, NextOneConnection, NextReading
<1>3. Inv => OneReader
  BY ReadingIsOne DEF OneReader
<1> QED
  BY <1>1, <1>2, <1>3, PTL DEF Spec

-----------------------------------------------------------------------------
(* What the arrays are indexed with.  b is None only while the thread with *)
(* the role is on its way out of recv_epoll, and close_socket counts       *)
(* through the slots.                                                      *)

LeaveLabels == {"drop", "leave", "give_up"}

Leaves(t) == pc[t] \in LeaveLabels \/ ret[t] \in LeaveLabels

NoneLeaves == b = None => \E t \in Threads : Leaves(t)

SweepLabels == {"close_sweep", "close_reset"}

CloseInRange == \A x \in Actors : pc[x] \in SweepLabels => slot[x] \in Threads

(* A thread on its way out ends it with give_up. *)
LEMMA LeavesStays ==
  ASSUME SInv, [Next]_vars, NEW t \in Threads, Leaves(t), ~GiveUp(t)
  PROVE Leaves(t)'
<1> USE ActorFacts
<1>0. TInv
  BY DEF SInv
<1>1. ASSUME NEW x \in Actors \ {t}, ActorStep(x)
      PROVE Leaves(t)'
  <2>1. pc[t] \notin {"off", "returned"}
    BY <1>0 DEF Leaves, LeaveLabels, TInv, Control, CallsReturn, SubLabels
  <2> QED
    BY <1>0, <1>1, <2>1, ReaderFacts, OthersStay DEF Leaves
<1>2. CASE ServerStep(t)
  <2>1. pc[t] \in SubLabels
    BY <1>2
       DEF SubLabels, ServerStep, PoolStep, ThreadStep, GetThreadScan, GetThreadOwn,
           GetThreadTake, GetThreadMark, AddThreadStart, AddThreadStore, ResizeEnd, ResizeLook,
           ResizeMark, ResizeJoin, ResizeClear, ResizeFd, CloseSocket, CloseSweep, CloseReset,
           ClearPending
  <2>2. ret[t] \in LeaveLabels
    BY <2>1 DEF Leaves, LeaveLabels, SubLabels
  <2>3. ret'[t] = ret[t] \/ pc'[t] = ret[t]
    BY <1>0, <1>2, ReaderFacts
       DEF Goto, Call, Return, Standing, ServerStep, PoolStep, ThreadStep, GetThreadScan,
           GetThreadOwn, GetThreadTake, GetThreadMark, AddThreadStart, AddThreadStore, ResizeEnd,
           ResizeLook, ResizeMark, ResizeJoin, ResizeClear, ResizeFd, CloseSocket, CloseSweep,
           CloseReset, NextSwept, ClearPending
  <2> QED
    BY <2>2, <2>3 DEF Leaves
<1>3. ~MsgRecvStep(t) /\ ~UserStep(t)
  <2>1. pc[t] \notin WorkLabels
    BY <1>0 DEF Leaves, LeaveLabels, TInv, Control, CallsReturn, SubLabels, WorkLabels
  <2> QED
    BY <2>1
       DEF MsgRecvStep, MsgRecv, Park, ParkStatus, ParkRole, Wait, WaitRole, WaitStatus, WaitMx,
           Woken, Prefix, ReadLoop, Recv, Refuse, Push, PushPending, EpollOn, EpollOnCtl,
           Announce, Announced, Done, UserStep, UserReturns, WriteFails, WorkLabels
<1>4. CASE RecvEpollStep(t)
  <2>1. pc[t] \in RecvLabels
    BY <1>4
       DEF RecvEpollStep, RecvEpoll, Scan, Poll, EpollWait, Events, Give, GiveFd, GiveStatus,
           GiveCtl, Acknowledge, Drop, Leave, GiveUp, RecvLabels
  <2>2. pc[t] \in LeaveLabels
    BY <1>0, <2>1 DEF Leaves, LeaveLabels, RecvLabels, SubLabels, TInv, Control, CallsReturn
  <2>3. Drop(t) \/ Leave(t)
    BY <1>4, <2>2
       DEF LeaveLabels, RecvEpollStep, RecvEpoll, Scan, Poll, EpollWait, Events, Give, GiveFd,
           GiveStatus, GiveCtl, Acknowledge
  <2> QED
    BY <1>0, <2>3, ReaderFacts DEF Drop, Leave, Goto, Call, Standing, Leaves, LeaveLabels
<1>5. CASE ClientStep \/ UNCHANGED vars
  BY <1>5 DEF ClientStep, vars, threadVars, Leaves
<1> QED
  BY <1>1, <1>2, <1>3, <1>4, <1>5, NextIsActorStep DEF ActorStep

(* recv_epoll does not scan with no slot in its hands. *)
LEMMA ScanHasIndex ==
  ASSUME SInv, NoneLeaves, NEW t \in Threads, pc[t] = "scan"
  PROVE b \in 0..MaxThread
<1>0. TInv
  BY DEF SInv
<1>1. ASSUME NEW u \in Threads, Leaves(u)
      PROVE FALSE
  <2>1. InRecv(t) /\ InRecv(u)
    BY <1>1 DEF InRecv, RecvLabels, Leaves, LeaveLabels
  <2>2. u = t
    BY <1>0, <2>1 DEF TInv, Control, RecvExclusive
  <2> QED
    BY <1>0, <1>1, <2>2, ActorFacts
       DEF Leaves, LeaveLabels, TInv, Control, CallsReturn, SubLabels
<1> QED
  BY <1>0, <1>1 DEF NoneLeaves, TInv, DataTypeOK, SocketTypeOK

LEMMA NextNoneLeaves ==
  ASSUME SInv, NoneLeaves, [Next]_vars
  PROVE NoneLeaves'
<1> USE ActorFacts
<1>0. TInv
  BY DEF SInv
<1>1. ASSUME NEW t \in Threads, RecvEpollStep(t), b' # b
      PROVE NoneLeaves'
  <2>1. CASE Scan(t)
    <3>1. b \in 0..MaxThread
      BY <2>1, ScanHasIndex DEF Scan
    <3> QED
      BY <1>1, <2>1, <3>1, MaxThreadAssumption DEF Scan, NoneLeaves, None
  <2>2. CASE Give(t)
    BY <1>0, <2>2, ReaderFacts DEF Give, Goto, Set, Standing, NoneLeaves, Leaves, LeaveLabels
  <2>3. CASE ~Scan(t) /\ ~Give(t)
    BY <1>1, <2>3
       DEF RecvEpollStep, RecvEpoll, Poll, EpollWait, Events, GiveFd, GiveStatus, GiveCtl,
           Acknowledge, Drop, Leave, GiveUp, socketVars, epollLocals, NoneLeaves, None
  <2> QED
    BY <2>1, <2>2, <2>3
<1>2. CASE \E t \in Threads : GiveUp(t)
  BY <1>2 DEF GiveUp, NoneLeaves, None
<1>3. CASE b' = b /\ \A t \in Threads : ~GiveUp(t)
  BY <1>3, LeavesStays DEF NoneLeaves
<1>4. b' = b \/ \E t \in Threads : RecvEpollStep(t)
  BY OthersKeepB, MsgRecvKeepsB, AcceptKeepsB
     DEF Next, ThreadRuns, AcceptorRuns, UserStep, ClientStep, vars, socketVars, epollLocals
<1> QED
  BY <1>1, <1>2, <1>3, <1>4

(* A step leaves the slots of the other actors alone, and their places but *)
(* for the beginning and the end of a thread.                              *)
LEMMA OthersKeepSlot ==
  ASSUME SInv, NEW x \in Actors, ActorStep(x), NEW y \in Actors \ {x}
  PROVE slot'[y] = slot[y] /\ pc'[y] \in {pc[y], "off", "msg_recv"}
<1> USE ActorFacts
<1>1. Calm(x) \/ ResizeStep(x) \/ (x \in Threads /\ CallsResize(x))
  BY ServerStepCalm, MsgRecvCalm, RecvEpollCalm, UserCalm, AcceptCalm
     DEF SInv, ActorStep, MsgRecvStep, RecvEpollStep, UserStep, AcceptStep, CallsResize
<1>2. CASE Calm(x)
  BY <1>2 DEF Calm
<1>3. CASE ResizeStep(x) \/ CallsResize(x)
  BY <1>3
     DEF SInv, TInv, ControlTypeOK, ResizeStep, ResizeEnd, ResizeLook, ResizeMark, ResizeJoin,
         ResizeClear, ResizeFd, CallsResize, Poll, Leave, Goto, Call, Return
<1> QED
  BY <1>1, <1>2, <1>3

(* Only close_socket comes to its loop. *)
LEMMA EntersSweep ==
  ASSUME SInv, NEW x \in Actors, ActorStep(x), pc'[x] \in SweepLabels
  PROVE CloseSocket(x) \/ CloseSweep(x) \/ CloseReset(x)
<1> USE ActorFacts DEF SweepLabels
<1>0. TInv
  BY DEF SInv
<1>1. ret[x] \in Callers \union {"none"}
  BY <1>0 DEF TInv, ControlTypeOK
<1>2. ~PoolStep(x)
  BY <1>0, <1>1, ReaderFacts
     DEF PoolStep, ThreadStep, GetThreadScan, GetThreadOwn, GetThreadTake, GetThreadMark,
         AddThreadStart, AddThreadStore, ResizeEnd, ResizeLook, ResizeMark, ResizeJoin,
         ResizeClear, ResizeFd, Goto, Call, Return, Standing, Callers
<1>3. ~ClearPending(x)
  BY <1>0, <1>1, ReaderFacts DEF ClearPending, Goto, Return, Standing, Callers
<1>4. ASSUME x \in Threads
      PROVE ~MsgRecvStep(x) /\ ~UserStep(x)
  BY <1>0, <1>4, ReaderFacts
     DEF MsgRecvStep, MsgRecv, Park, ParkStatus, ParkRole, Wait, WaitRole, WaitStatus, WaitMx,
         Woken, Prefix, ReadLoop, Recv, Refuse, CallClose, Push, PushPending, EpollOn,
         EpollOnCtl, Announce, Announced, Done, UserStep, UserReturns, WriteFails, Goto, Call,
         Standing
<1>5. ASSUME x \in Threads
      PROVE ~RecvEpollStep(x)
  BY <1>0, <1>5, ReaderFacts
     DEF RecvEpollStep, RecvEpoll, Scan, Poll, EpollWait, Events, Give, GiveFd, GiveStatus,
         GiveCtl, Acknowledge, Drop, Leave, GiveUp, Goto, Call, Standing
<1>6. (~AcceptStep /\ ~Accept /\ ~AcceptFails) \/ x # Acceptor
  BY <1>0, ReaderFacts
     DEF AcceptStep, TurnDown, AnswerFails, Upgrade, SetEvent, Register, StartThread, Accept,
         AcceptFails, Goto, Call, Standing
<1> QED
  BY <1>2, <1>3, <1>4, <1>5, <1>6 DEF ActorStep, ServerStep

LEMMA NextCloseInRange ==
  ASSUME SInv, CloseInRange, [Next]_vars
  PROVE CloseInRange'
<1> USE ActorFacts
<1>0. TInv
  BY DEF SInv
<1>1. ASSUME NEW x \in Actors, ActorStep(x), NEW y \in Actors, pc'[y] \in SweepLabels
      PROVE slot'[y] \in Threads
  <2>1. CASE y # x
    BY <1>1, <2>1, OthersKeepSlot DEF CloseInRange, SweepLabels
  <2>2. CASE y = x
    <3>1. CloseSocket(x) \/ CloseSweep(x) \/ CloseReset(x)
      BY <1>1, <2>2, EntersSweep
    <3>2. slot[x] \in Threads \union {None} /\ slot = [z \in Actors |-> slot[z]]
      BY <1>0 DEF TInv, ControlTypeOK
    <3>3. pc'[x] \in SweepLabels /\ Standing
      BY <1>0, <1>1, <2>2, ReaderFacts
    <3>4. CASE CloseSocket(x)
      <4>1. arg[x] # None
        BY <1>0, <3>3, <3>4 DEF CloseSocket, Return, Goto, Standing, SweepLabels, TInv,
                                ControlTypeOK, Callers
      <4> QED
        BY <2>2, <3>2, <3>4, <4>1, CloseSweepSlots DEF CloseSocket, Set
    <3>5. CASE CloseSweep(x) \/ CloseReset(x)
      <4>1. slot[x] \in Threads
        BY <3>5 DEF CloseSweep, CloseReset, CloseInRange, SweepLabels
      <4>2. slot'[x] = slot[x] \/ NextSwept(x)
        BY <3>5 DEF CloseSweep, CloseReset
      <4>3. CASE NextSwept(x)
        BY <2>2, <3>2, <3>3, <4>1, <4>3, CloseSweepSlots
           DEF NextSwept, Goto, Set, Standing, SweepLabels
      <4> QED
        BY <2>2, <4>1, <4>2, <4>3
    <3> QED
      BY <3>1, <3>4, <3>5
  <2> QED
    BY <2>1, <2>2
<1>2. CASE ClientStep \/ UNCHANGED vars
  BY <1>2 DEF ClientStep, vars, threadVars, CloseInRange
<1> QED
  BY <1>1, <1>2, NextIsActorStep DEF CloseInRange

LEMMA IndexFits ==
  ASSUME RInv, NoneLeaves, CloseInRange
  PROVE IndexInArray
<1> USE ActorFacts
<1>0. SInv /\ TInv
  BY DEF RInv, SInv
<1>1. ASSUME NEW t \in Threads, InRecv(t)
      PROVE /\ recv_thread \in Threads
            /\ pc[t] = "get_mark" => slot[t] \in Threads
  <2>1. recv_thread = t
    BY <1>0, <1>1 DEF TInv, Control, RecvExclusive
  <2>2. pc[t] = "get_mark" => ret[t] = "give"
    BY <1>0, <1>1 DEF SInv, CallsFit, CallFits, InRecv, RecvLabels
  <2> QED
    BY <2>1, <2>2 DEF RInv, RoleFit, RoleFitOf, ChosenIsHeld, Held
<1>2. ASSUME NEW t \in Threads, pc[t] \in HandLabels
      PROVE b \in Threads
  BY <1>2 DEF RInv, RoleFit, RoleFitOf, ChosenIsHeld, Held
<1>3. ASSUME NEW t \in Threads, pc[t] \in ResizeLabels \ {"resize"}
      PROVE sweep.a \in Threads
  BY <1>0, <1>3, SweptSlot, TInvTyped
<1>4. ASSUME NEW x \in Actors, pc[x] \in {"add_store"} \union SweepLabels
      PROVE slot[x] \in Threads
  BY <1>0, <1>4 DEF SInv, SlotsFit, StoringPointer, CloseInRange
<1> QED
  BY <1>0, <1>1, <1>2, <1>3, <1>4, ScanHasIndex
     DEF IndexInArray, HandLabels, ResizeLabels, SweepLabels

(* The loops and the hand-overs of the pool index its arrays with slots;   *)
(* the receiver finds one of its slots, or none, in get_thread.  (A reader *)
(* may find recv_thread -1 there: nothing is claimed of it.)               *)
THEOREM IndicesInArray == Spec => []IndexInArray
<1> DEFINE Inv == RInv /\ NoneLeaves /\ CloseInRange
<1>1. Init => Inv
  BY InitRole, ActorFacts
     DEF Init, ThreadInit, SocketInit, NoneLeaves, CloseInRange, SweepLabels, None
<1>2. Inv /\ [Next]_vars => Inv'
  BY NextRole, NextNoneLeaves, NextCloseInRange DEF RInv
<1>3. Inv => IndexInArray
  BY IndexFits
<1> QED
  BY <1>1, <1>2, <1>3, PTL DEF Spec

=============================================================================
